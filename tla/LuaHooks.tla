------------------------------ MODULE LuaHooks ------------------------------
(***************************************************************************)
(* The hooks of the Lua LSM as the macros of lsm_defs.h define them: what  *)
(* kind of result each one has, its default, how the values that a Lua     *)
(* function returns become the result, and which hooks start and end the   *)
(* dictionary of an object.  The arguments a hook passes to Lua are left   *)
(* out.                                                                    *)
(***************************************************************************)
EXTENDS Integers, Sequences

EPERM == 1
E2BIG == 7
ENOMEM == 12
EINVAL == 22
ENOSYS == 38
ENOPROTOOPT == 92
EOPNOTSUPP == 95
ENOPARAM == 519
MAX_ERRNO == 4095

-----------------------------------------------------------------------------
(* The table of hooks.                                                     *)

Hooks(kind, default, names) == [name: names, kind: {kind}, default: {default}]

binder_ptrace_hooks ==
         Hooks("int", 0, {"binder_set_context_mgr", "binder_transaction",
            "binder_transfer_binder", "binder_transfer_file",
            "ptrace_access_check", "ptrace_traceme"})

caps_hooks ==
         Hooks("naked", 0, {"capget"})
    \cup Hooks("int", 0, {"capset", "capable"})

system_hooks ==
         Hooks("int", 0, {"quotactl", "quota_on", "syslog", "settime",
            "vm_enough_memory"})

exec_hooks ==
         Hooks("int", 0, {"bprm_creds_for_exec", "bprm_creds_from_file",
            "bprm_check_security", "fs_context_submount", "fs_context_dup"})
    \cup Hooks("void", 0, {"bprm_committing_creds", "bprm_committed_creds"})
    \cup Hooks("int", -ENOPARAM, {"fs_context_parse_param"})

superblock_hooks ==
         Hooks("int", 0, {"sb_alloc_security", "sb_eat_lsm_opts",
            "sb_mnt_opts_compat", "sb_remount", "sb_kern_mount",
            "sb_show_options", "sb_statfs"})
    \cup Hooks("void", 0, {"sb_delete", "sb_free_security",
            "sb_free_mnt_opts"})

mount_hooks ==
         Hooks("int", 0, {"sb_mount", "sb_umount", "sb_pivotroot",
            "sb_set_mnt_opts", "sb_clone_mnt_opts", "move_mount"})

dentry_path_hooks ==
         Hooks("int", -EOPNOTSUPP, {"dentry_init_security"})
    \cup Hooks("int", 0, {"dentry_create_files_as", "path_unlink",
            "path_mkdir", "path_rmdir", "path_mknod", "path_truncate",
            "path_symlink", "path_link"})

path_inode_hooks ==
         Hooks("int", 0, {"path_rename", "path_chmod", "path_chown",
            "path_chroot", "path_notify", "inode_alloc_security"})
    \cup Hooks("void", 0, {"inode_free_security"})

inode_init_hooks ==
         Hooks("naked", -EOPNOTSUPP, {"inode_init_security"})
    \cup Hooks("int", 0, {"inode_init_security_anon", "inode_create"})

inode_dir_hooks ==
         Hooks("int", 0, {"inode_link", "inode_unlink", "inode_symlink",
            "inode_mkdir", "inode_rmdir", "inode_mknod", "inode_rename",
            "inode_readlink", "inode_follow_link", "inode_permission"})

inode_attr_hooks ==
         Hooks("int", 0, {"inode_setattr", "inode_getattr", "inode_setxattr",
            "inode_getxattr", "inode_listxattr", "inode_removexattr"})
    \cup Hooks("void", 0, {"inode_post_setxattr"})

inode_acl_hooks ==
         Hooks("void", 0, {"inode_post_removexattr"})
    \cup Hooks("int", 0, {"inode_set_acl", "inode_get_acl",
            "inode_remove_acl", "inode_killpriv"})
    \cup Hooks("boolerr", 0, {"inode_need_killpriv"})

inode_sec_hooks ==
         Hooks("naked", -EOPNOTSUPP, {"inode_getsecurity"})
    \cup Hooks("int", -EOPNOTSUPP, {"inode_setsecurity"})
    \cup Hooks("naked", 0, {"inode_listsecurity"})

copy_up_file_hooks ==
         Hooks("void", 0, {"inode_getsecid", "file_free_security"})
    \cup Hooks("int", 0, {"inode_copy_up", "kernfs_init_security",
            "file_permission", "file_alloc_security"})
    \cup Hooks("int", -EOPNOTSUPP, {"inode_copy_up_xattr"})

file_hooks ==
         Hooks("int", 0, {"file_ioctl", "file_ioctl_compat", "mmap_addr",
            "mmap_file", "file_mprotect", "file_lock", "file_fcntl",
            "file_send_sigiotask", "file_receive", "file_open",
            "file_post_open", "file_truncate"})
    \cup Hooks("void", 0, {"file_set_fowner"})

task_cred_hooks ==
         Hooks("int", 0, {"task_alloc", "cred_alloc_blank", "cred_prepare"})
    \cup Hooks("void", 0, {"task_free", "cred_free", "cred_transfer",
            "cred_getsecid"})

kernel_hooks ==
         Hooks("int", 0, {"kernel_act_as", "kernel_create_files_as",
            "kernel_module_request", "kernel_load_data",
            "kernel_post_load_data", "kernel_read_file",
            "kernel_post_read_file"})

task_hooks ==
         Hooks("int", 0, {"task_fix_setuid", "task_fix_setgid",
            "task_fix_setgroups", "task_setpgid", "task_getpgid",
            "task_getsid", "task_setnice", "task_setioprio"})
    \cup Hooks("void", 0, {"current_getsecid_subj", "task_getsecid_obj"})

task2_hooks ==
         Hooks("int", 0, {"task_getioprio", "task_prlimit", "task_setrlimit",
            "task_setscheduler", "task_getscheduler", "task_movememory",
            "task_kill", "userns_create", "ipc_permission"})
    \cup Hooks("int", -ENOSYS, {"task_prctl"})
    \cup Hooks("void", 0, {"task_to_inode", "ipc_getsecid"})

msg_hooks ==
         Hooks("int", 0, {"msg_msg_alloc_security",
            "msg_queue_alloc_security", "msg_queue_associate",
            "msg_queue_msgctl", "msg_queue_msgsnd", "msg_queue_msgrcv"})
    \cup Hooks("void", 0, {"msg_msg_free_security",
            "msg_queue_free_security"})

shm_sem_hooks ==
         Hooks("int", 0, {"shm_alloc_security", "shm_associate",
            "shm_shmctl", "shm_shmat", "sem_alloc_security", "sem_associate",
            "sem_semctl", "sem_semop"})
    \cup Hooks("void", 0, {"shm_free_security", "sem_free_security"})

secctx_hooks ==
         Hooks("int", 0, {"netlink_send", "secctx_to_secid",
            "inode_notifysecctx", "inode_setsecctx"})
    \cup Hooks("void", 0, {"d_instantiate", "release_secctx",
            "inode_invalidate_secctx"})
    \cup Hooks("int", -EOPNOTSUPP, {"getprocattr", "setprocattr",
            "secid_to_secctx", "inode_getsecctx"})
    \cup Hooks("bool", 0, {"ismaclabel"})

socket_hooks ==
         Hooks("int", 0, {"post_notification", "watch_key",
            "unix_stream_connect", "unix_may_send", "socket_create",
            "socket_post_create", "socket_socketpair", "socket_bind",
            "socket_connect", "socket_listen"})

socket2_hooks ==
         Hooks("int", 0, {"socket_accept", "socket_sendmsg",
            "socket_recvmsg", "socket_getsockname", "socket_getpeername",
            "socket_getsockopt", "socket_setsockopt", "socket_shutdown",
            "socket_sock_rcv_skb"})
    \cup Hooks("int", -ENOPROTOOPT, {"socket_getpeersec_stream",
            "socket_getpeersec_dgram"})

sock_hooks ==
         Hooks("int", 0, {"sk_alloc_security", "inet_conn_request",
            "secmark_relabel_packet"})
    \cup Hooks("void", 0, {"sk_free_security", "sk_clone_security",
            "sk_getsecid", "sock_graft", "inet_csk_clone",
            "inet_conn_established", "secmark_refcount_inc",
            "secmark_refcount_dec"})

tun_sctp_hooks ==
         Hooks("void", 0, {"req_classify_flow", "sctp_sk_clone"})
    \cup Hooks("int", 0, {"tun_dev_alloc_security", "tun_dev_create",
            "tun_dev_attach_queue", "tun_dev_attach", "tun_dev_open",
            "sctp_assoc_request", "sctp_bind_connect",
            "sctp_assoc_established", "mptcp_add_subflow", "ib_pkey_access",
            "ib_endport_manage_subnet", "ib_alloc_security"})

xfrm_hooks ==
         Hooks("int", 0, {"xfrm_policy_alloc_security",
            "xfrm_policy_clone_security", "xfrm_policy_delete_security",
            "xfrm_state_alloc", "xfrm_state_alloc_acquire",
            "xfrm_state_delete_security", "xfrm_policy_lookup",
            "xfrm_decode_session"})
    \cup Hooks("void", 0, {"xfrm_policy_free_security",
            "xfrm_state_free_security"})
    \cup Hooks("bool", 1, {"xfrm_state_pol_flow_match"})

key_audit_hooks ==
         Hooks("int", 0, {"key_alloc", "key_permission", "key_getsecurity",
            "audit_rule_init"})
    \cup Hooks("bool", 0, {"audit_rule_known"})
    \cup Hooks("boolerr", 0, {"audit_rule_match"})
    \cup Hooks("void", 0, {"audit_rule_free"})

bpf_hooks ==
         Hooks("int", 0, {"bpf", "bpf_map", "bpf_prog",
            "bpf_map_alloc_security", "bpf_prog_alloc_security"})
    \cup Hooks("void", 0, {"bpf_map_free_security", "bpf_prog_free_security"})

misc_hooks ==
         Hooks("int", 0, {"locked_down", "perf_event_open",
            "perf_event_alloc", "perf_event_read", "perf_event_write",
            "uring_override_creds", "uring_sqpoll", "uring_cmd"})

\* Hooks a module may define, and those the LSM attaches to.
LuaHookTable ==
    UNION {binder_ptrace_hooks, caps_hooks, system_hooks, exec_hooks,
           superblock_hooks, mount_hooks, dentry_path_hooks,
           path_inode_hooks, inode_init_hooks, inode_dir_hooks,
           inode_attr_hooks, inode_acl_hooks, inode_sec_hooks,
           copy_up_file_hooks, file_hooks, task_cred_hooks, kernel_hooks,
           task_hooks, task2_hooks, msg_hooks, shm_sem_hooks, secctx_hooks,
           socket_hooks, socket2_hooks, sock_hooks, tun_sctp_hooks,
           xfrm_hooks, key_audit_hooks, bpf_hooks, misc_hooks}
lua_lsm_hook_supported(h) ==
    h.name \notin {"getprocattr", "setprocattr", "xfrm_state_pol_flow_match"}

\* The hooks that run kvcache_dict_init() before Lua sees the object, and
\* those that run kvcache_dict_free() after.  An object of kind "ipc" is a
\* message queue, a shared memory segment or a set of semaphores.
DictInit == {<<"superblock", "sb_alloc_security">>, <<"inode", "inode_alloc_security">>,
             <<"file", "file_alloc_security">>, <<"task", "task_alloc">>,
             <<"cred", "cred_alloc_blank">>, <<"cred", "cred_prepare">>,
             <<"msgmsg", "msg_msg_alloc_security">>, <<"ipc", "msg_queue_alloc_security">>,
             <<"ipc", "shm_alloc_security">>, <<"ipc", "sem_alloc_security">>,
             <<"sock", "sk_alloc_security">>}
DictFree == {<<"superblock", "sb_free_security">>, <<"file", "file_free_security">>,
             <<"task", "task_free">>, <<"cred", "cred_free">>,
             <<"msgmsg", "msg_msg_free_security">>, <<"ipc", "msg_queue_free_security">>,
             <<"ipc", "shm_free_security">>, <<"ipc", "sem_free_security">>,
             <<"sock", "sk_free_security">>}
\* Objects whose attributes Lua may set (LUA_OBJECT(task or object, ...)).
DictObjects == {"task", "cred", "ipc", "msgmsg", "sock", "bdev", "inode", "file",
                "superblock"}

-----------------------------------------------------------------------------
(* What a Lua function returns: no value, one, two, or three.  A value is  *)
(* nil, a boolean, a number, a string or a capability set.                 *)

LuaValues == {"nil", "true", "false", "str", "cap", "num"}
LuaResults == {<<>>} \cup {<<v>> : v \in LuaValues}
              \cup {<<v, w>> : v \in LuaValues, w \in LuaValues}
              \cup {<<"cap", "cap", w>> : w \in LuaValues}

lua_toboolean(v) == v \notin {"nil", "false"}
IsBoolean(v) == v \in {"true", "false"}

\* lua_lsm_pcall_res_errno(): a number that is no errno changes nothing; e is
\* the number where the value is one (lua_tointeger() gives 0 for the others).
lua_lsm_pcall_res_errno(v, e, ret) ==
    IF v = "num" /\ e > 0 /\ e <= MAX_ERRNO THEN -e ELSE ret

lua_lsm_pcall_res_int(r, e, ret) ==
    CASE Len(r) = 1 /\ IsBoolean(r[1]) -> IF lua_toboolean(r[1]) THEN 0 ELSE -EPERM
      [] Len(r) >= 2 /\ ~lua_toboolean(r[1]) -> lua_lsm_pcall_res_errno(r[2], e, ret)
      [] OTHER -> ret

lua_lsm_pcall_res_bool(r, ret) ==
    IF Len(r) > 0 /\ IsBoolean(r[1]) THEN IF lua_toboolean(r[1]) THEN 1 ELSE 0 ELSE ret

lua_lsm_pcall_res_boolerr(r, e, ret) ==
    CASE Len(r) = 1 /\ IsBoolean(r[1]) -> IF lua_toboolean(r[1]) THEN 1 ELSE 0
      [] Len(r) >= 2 /\ r[1] = "true" -> 1
      [] Len(r) >= 2 /\ r[1] \in {"false", "nil"} -> lua_lsm_pcall_res_errno(r[2], e, ret)
      [] OTHER -> ret

\* capget: three capability sets are the answer.
capget(r, e, ret) ==
    IF Len(r) = 3 THEN IF \A i \in 1..3 : r[i] = "cap" THEN 0 ELSE ret
    ELSE lua_lsm_pcall_res_int(r, e, ret)

\* lua_lsm_init_xattr(), for a name and a value: the name may be too long, the
\* value too large or memory short.
lua_lsm_init_xattr == {0, -EINVAL, -E2BIG, -ENOMEM}

\* The hooks that decode their results themselves: the set of what may be
\* returned.  inode_getsecurity and inode_listsecurity answer a string with
\* its length (here 1).
NakedResult(name, r, e, ret) ==
    CASE name = "capget" -> {capget(r, e, ret)}
      [] name = "inode_init_security" /\ Len(r) >= 2 /\ r[1] \in {"str", "num"}
            /\ r[2] \in {"str", "num"} -> lua_lsm_init_xattr \cup {ret}
      [] name \in {"inode_getsecurity", "inode_listsecurity"} /\ r = <<"str">> ->
            {1} \cup (IF name = "inode_getsecurity" THEN {-ENOMEM} ELSE {})
      [] OTHER -> {lua_lsm_pcall_res_int(r, e, ret)}

\* One call: an error in Lua leaves the default.
LuaCall(h, r, e) ==
    CASE h.kind = "int" -> {lua_lsm_pcall_res_int(r, e, h.default)}
      [] h.kind = "bool" -> {lua_lsm_pcall_res_bool(r, h.default)}
      [] h.kind = "boolerr" -> {lua_lsm_pcall_res_boolerr(r, e, h.default)}
      [] h.kind = "naked" -> NakedResult(h.name, r, e, h.default)
      [] h.kind = "void" -> {h.default}

\* Mutant: every module is asked and the last answer stands.
MutDispatch(h, a, b) == b

\* The walk over two modules, whose calls return one of a and one of b: the
\* second is asked while the result is the default.
LuaDispatch(h, a, b) ==
    UNION {IF x # h.default /\ h.kind # "void" THEN {x} ELSE b : x \in a}

\* No Lua state for the task: LUA_LSM_DISPATCH_FAILRET.
LuaDispatchFails(h) ==
    IF h.kind \in {"int", "naked", "boolerr"} THEN -ENOMEM ELSE h.default

=============================================================================
