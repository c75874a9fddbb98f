---------------------------- MODULE SelinuxHooks ----------------------------
(***************************************************************************)
(* What SELinux asks of the policy, hook by hook (hooks.c, nlmsgtab.c,     *)
(* xfrm.c): a hook is the set of checks that all have to be granted.  A    *)
(* check names the subject and the object by their role, the class it is   *)
(* made in and, because the code passes a bit mask, the class whose        *)
(* permission names the mask was written with (FILE__READ asked of a       *)
(* directory is the bit of "read" in class file).                          *)
(***************************************************************************)
EXTENDS Integers, Sequences

-----------------------------------------------------------------------------
(* classmap.h: the permissions of a class, in the order of their bits.     *)

COMMON_FILE_SOCK_PERMS ==
    <<"ioctl", "read", "write", "create", "getattr", "setattr", "lock",
      "relabelfrom", "relabelto", "append", "map">>
COMMON_FILE_PERMS == COMMON_FILE_SOCK_PERMS \o
    <<"unlink", "link", "rename", "execute", "quotaon", "mounton", "audit_access",
      "open", "execmod", "watch", "watch_mount", "watch_sb", "watch_with_perm",
      "watch_reads">>
COMMON_SOCK_PERMS == COMMON_FILE_SOCK_PERMS \o
    <<"bind", "connect", "listen", "accept", "getopt", "setopt", "shutdown",
      "recvfrom", "sendto", "name_bind">>
COMMON_IPC_PERMS ==
    <<"create", "destroy", "getattr", "setattr", "read", "write", "associate",
      "unix_read", "unix_write">>
COMMON_CAP_PERMS ==
    <<"chown", "dac_override", "dac_read_search", "fowner", "fsetid", "kill",
      "setgid", "setuid", "setpcap", "linux_immutable", "net_bind_service",
      "net_broadcast", "net_admin", "net_raw", "ipc_lock", "ipc_owner",
      "sys_module", "sys_rawio", "sys_chroot", "sys_ptrace", "sys_pacct",
      "sys_admin", "sys_boot", "sys_nice", "sys_resource", "sys_time",
      "sys_tty_config", "mknod", "lease", "audit_write", "audit_control", "setfcap">>
COMMON_CAP2_PERMS ==
    <<"mac_override", "mac_admin", "syslog", "wake_alarm", "block_suspend",
      "audit_read", "perfmon", "bpf", "checkpoint_restore">>

FileClasses == {"file", "dir", "lnk_file", "chr_file", "blk_file", "sock_file",
                "fifo_file", "anon_inode"}
PlainSockets == {"socket", "netlink_socket", "packet_socket", "key_socket",
                 "unix_dgram_socket", "netlink_nflog_socket", "netlink_selinux_socket",
                 "appletalk_socket", "vsock_socket", "alg_socket"}
SocketClasses == PlainSockets \cup
    {"tcp_socket", "udp_socket", "rawip_socket", "dccp_socket", "sctp_socket",
     "icmp_socket", "unix_stream_socket", "tun_socket", "netlink_route_socket",
     "netlink_tcpdiag_socket", "netlink_xfrm_socket", "netlink_audit_socket"}

\* secclass_map, part by part: files, sockets, and the rest.
secclass_file(c) ==
    COMMON_FILE_PERMS \o
    (CASE c = "file" -> <<"execute_no_trans", "entrypoint">>
       [] c = "dir" -> <<"add_name", "remove_name", "reparent", "search", "rmdir">>
       [] OTHER -> <<>>)
secclass_socket(c) ==
    COMMON_SOCK_PERMS \o
    (CASE c \in {"tcp_socket", "dccp_socket"} -> <<"node_bind", "name_connect">>
       [] c \in {"udp_socket", "rawip_socket", "icmp_socket"} -> <<"node_bind">>
       [] c = "sctp_socket" -> <<"node_bind", "name_connect", "association">>
       [] c = "unix_stream_socket" -> <<"connectto">>
       [] c = "tun_socket" -> <<"attach_queue">>
       [] c \in {"netlink_route_socket", "netlink_tcpdiag_socket", "netlink_xfrm_socket"}
            -> <<"nlmsg_read", "nlmsg_write">>
       [] c = "netlink_audit_socket" ->
            <<"nlmsg_read", "nlmsg_write", "nlmsg_relay", "nlmsg_readpriv",
              "nlmsg_tty_audit">>
       [] OTHER -> <<>>)
secclass_process ==
    <<"fork", "transition", "sigchld", "sigkill", "sigstop", "signull", "signal",
      "ptrace", "getsched", "setsched", "getsession", "getpgid", "setpgid", "getcap",
      "setcap", "share", "getattr", "setexec", "setfscreate", "noatsecure", "siginh",
      "setrlimit", "rlimitinh", "dyntransition", "setcurrent", "execmem", "execstack",
      "execheap", "setkeycreate", "setsockcreate", "getrlimit">>
secclass_other(c) ==
    CASE c = "process2" -> <<"nnp_transition", "nosuid_transition">>
      [] c = "system" -> <<"ipc_info", "syslog_read", "syslog_mod", "syslog_console",
                           "module_request", "module_load">>
      [] c = "filesystem" -> <<"mount", "remount", "unmount", "getattr", "relabelfrom",
                               "relabelto", "associate", "quotamod", "quotaget", "watch">>
      [] c = "fd" -> <<"use">>
      [] c = "node" -> <<"recvfrom", "sendto">>
      [] c = "netif" -> <<"ingress", "egress">>
      [] c \in {"sem", "ipc"} -> COMMON_IPC_PERMS
      [] c = "msgq" -> COMMON_IPC_PERMS \o <<"enqueue">>
      [] c = "shm" -> COMMON_IPC_PERMS \o <<"lock">>
      [] c = "msg" -> <<"send", "receive">>
      [] c = "association" -> <<"sendto", "recvfrom", "setcontext", "polmatch">>
      [] c = "packet" -> <<"send", "recv", "relabelto", "forward_in", "forward_out">>
      [] c = "key" -> <<"view", "read", "write", "search", "link", "setattr", "create">>
      [] c = "memprotect" -> <<"mmap_zero">>
      [] c = "peer" -> <<"recv">>
      [] c \in {"capability", "cap_userns"} -> COMMON_CAP_PERMS
      [] c \in {"capability2", "cap2_userns"} -> COMMON_CAP2_PERMS
      [] c = "kernel_service" -> <<"use_as_override", "create_files_as">>
      [] c = "binder" -> <<"impersonate", "call", "set_context_mgr", "transfer">>
      [] c = "infiniband_pkey" -> <<"access">>
      [] c = "infiniband_endport" -> <<"manage_subnet">>
      [] c = "bpf" -> <<"map_create", "map_read", "map_write", "prog_load", "prog_run">>
      [] c = "perf_event" -> <<"open", "cpu", "kernel", "tracepoint", "read", "write">>
      [] c = "io_uring" -> <<"override_creds", "sqpoll", "cmd">>
      [] c = "user_namespace" -> <<"create">>
secclass_map(c) ==
    CASE c \in FileClasses -> secclass_file(c)
      [] c \in SocketClasses -> secclass_socket(c)
      [] c = "process" -> secclass_process
      [] OTHER -> secclass_other(c)

-----------------------------------------------------------------------------
(* Checks.                                                                 *)

HasAs(s, t, c, m, perms) == {[s |-> s, t |-> t, c |-> c, as |-> m, perms |-> perms]}
avc_has_perm(s, t, c, perms) == HasAs(s, t, c, c, perms)
When(b, checks) == IF b THEN checks ELSE {}

Caps == 0..40
cred_has_capability(cap, initns) ==
    LET c == CASE cap \div 32 = 0 -> IF initns THEN "capability" ELSE "cap_userns"
               [] cap \div 32 = 1 -> IF initns THEN "capability2" ELSE "cap2_userns"
    IN avc_has_perm("self", "self", c, {secclass_map(c)[(cap % 32) + 1]})

\* An inode: its class, and whether it is private to the kernel.  A socket
\* class is an inode of sockfs.
Inodes == [class: FileClasses \cup SocketClasses, private: BOOLEAN]
IsSock(i) == i.class \in SocketClasses
inode_has_perm(i, perms) ==
    When(~i.private, HasAs("self", "inode", i.class, "file", perms))
superblock_has_perm(perms) == avc_has_perm("self", "sb", "filesystem", perms)

\* An open file: same, the opener's SID is the caller's; bpf, a descriptor of
\* a BPF map or program.
Files == [inode: Inodes, same: BOOLEAN, read: BOOLEAN, write: BOOLEAN, append: BOOLEAN,
          bpf: {"no", "map", "prog"}]
bpf_map_fmode_to_av(f) ==
    (IF f.read THEN {"map_read"} ELSE {}) \cup (IF f.write THEN {"map_write"} ELSE {})
bpf_fd_pass(f) ==
    CASE f.bpf = "map" -> avc_has_perm("self", "bpf", "bpf", bpf_map_fmode_to_av(f))
      [] f.bpf = "prog" -> avc_has_perm("self", "bpf", "bpf", {"prog_run"})
      [] OTHER -> {}
fd_use(f) == When(~f.same, avc_has_perm("self", "file", "fd", {"use"}))
file_has_perm(f, perms) ==
    fd_use(f) \cup bpf_fd_pass(f) \cup When(perms # {}, inode_has_perm(f.inode, perms))

file_mask_to_av(class, mask) ==
    IF class # "dir"
    THEN (IF "exec" \in mask THEN {"execute"} ELSE {})
         \cup (IF "read" \in mask THEN {"read"} ELSE {})
         \cup (CASE "append" \in mask -> {"append"}
                 [] "write" \in mask -> {"write"}
                 [] OTHER -> {})
    ELSE (IF "exec" \in mask THEN {"search"} ELSE {}) \cup (mask \cap {"read", "write"})
\* The mask of a directory is written with the names of class dir.
MaskClass(class) == IF class = "dir" THEN "dir" ELSE "file"

file_to_av(f) ==
    LET av == (IF f.read THEN {"read"} ELSE {})
              \cup (IF f.write THEN IF f.append THEN {"append"} ELSE {"write"} ELSE {})
    IN IF av = {} THEN {"ioctl"} ELSE av

\* Mutant: the open permission is asked of sockets too.
MutOpenAv(f, openperm) ==
    file_to_av(f) \cup (IF openperm THEN {"open"} ELSE {})

open_file_to_av(f, openperm) ==
    file_to_av(f) \cup (IF openperm /\ ~IsSock(f.inode) THEN {"open"} ELSE {})

-----------------------------------------------------------------------------
(* Binder, ptrace, capabilities, quota, syslog.                            *)

binder_checks(from) ==
    avc_has_perm("self", "mgr", "binder", {"set_context_mgr"})
    \cup When(from # "self", avc_has_perm("self", "from", "binder", {"impersonate"}))
    \cup avc_has_perm("from", "to", "binder", {"call"})
    \cup avc_has_perm("from", "to", "binder", {"transfer"})
selinux_binder_transfer_file(f) ==
    fd_use(f) \cup bpf_fd_pass(f) \cup inode_has_perm(f.inode, file_to_av(f))
selinux_ptrace_access_check(read) ==
    IF read THEN avc_has_perm("self", "child", "file", {"read"})
    ELSE avc_has_perm("self", "child", "process", {"ptrace"})
selinux_ptrace_traceme == avc_has_perm("parent", "self", "process", {"ptrace"})
selinux_capget == avc_has_perm("self", "task", "process", {"getcap"})
selinux_capset == avc_has_perm("old", "new", "process", {"setcap"})
selinux_quotactl(cmd) ==
    CASE cmd = "modify" -> superblock_has_perm({"quotamod"})
      [] cmd = "query" -> superblock_has_perm({"quotaget"})
      [] OTHER -> {}
selinux_syslog(type) ==
    avc_has_perm("self", "kernel", "system",
                 {CASE type = "read" -> "syslog_read" [] type = "console" -> "syslog_console"
                    [] OTHER -> "syslog_mod"})

-----------------------------------------------------------------------------
(* Inodes.                                                                 *)

determined == "determined"      \* the SID of selinux_determine_inode_label()
may_create(class) ==
    avc_has_perm("self", "dir", "dir", {"add_name", "search"})
    \cup HasAs("self", determined, class, "file", {"create"})
    \cup avc_has_perm(determined, "sb", "filesystem", {"associate"})
may_link(i, kind) ==
    avc_has_perm("self", "dir", "dir",
                 {"search", IF kind = "link" THEN "add_name" ELSE "remove_name"})
    \cup (CASE kind = "link" -> HasAs("self", "inode", i.class, "file", {"link"})
            [] kind = "unlink" -> HasAs("self", "inode", i.class, "file", {"unlink"})
            [] kind = "rmdir" -> HasAs("self", "inode", i.class, "dir", {"rmdir"}))
may_rename(i, moves, over, victim) ==
    avc_has_perm("self", "old_dir", "dir", {"remove_name", "search"})
    \cup HasAs("self", "inode", i.class, "file", {"rename"})
    \cup When(i.class = "dir" /\ moves, HasAs("self", "inode", i.class, "dir", {"reparent"}))
    \cup avc_has_perm("self", "new_dir", "dir",
                      {"add_name", "search"} \cup (IF over THEN {"remove_name"} ELSE {}))
    \cup When(over, IF victim.class = "dir"
                    THEN HasAs("self", "victim", victim.class, "dir", {"rmdir"})
                    ELSE HasAs("self", "victim", victim.class, "file", {"unlink"}))

selinux_inode_permission(i, mask) ==
    LET m == mask \cap {"read", "write", "exec", "append"}
    IN When(m # {} /\ ~i.private,
            HasAs("self", "inode", i.class, MaskClass(i.class), file_mask_to_av(i.class, m)))
\* valid: the attributes to set; force: ATTR_FORCE.
selinux_inode_setattr(i, valid, force, openperm) ==
    LET v == IF force THEN valid \ {"kill", "mode"} ELSE valid
    IN CASE force /\ v = {} -> {}
         [] v \cap {"mode", "owner", "time"} # {} -> inode_has_perm(i, {"setattr"})
         [] OTHER -> inode_has_perm(i, {"write"} \cup
                        (IF openperm /\ ~IsSock(i) /\ "size" \in v /\ "file" \notin v
                         THEN {"open"} ELSE {}))
has_cap_mac_admin == cred_has_capability(33, TRUE)
\* The label itself: the checks of a relabelling to a valid context.
selinux_inode_setxattr(i) ==
    HasAs("self", "inode", i.class, "file", {"relabelfrom"})
    \cup HasAs("self", "newsid", i.class, "file", {"relabelto"})
    \cup avc_has_perm("newsid", "sb", "filesystem", {"associate"})
selinux_path_notify(i, obj, withperm, reads) ==
    When(obj = "sb", superblock_has_perm({"watch"}))
    \cup inode_has_perm(i, {CASE obj = "mount" -> "watch_mount" [] obj = "sb" -> "watch_sb"
                              [] OTHER -> "watch"}
                           \cup (IF withperm THEN {"watch_with_perm"} ELSE {})
                           \cup (IF reads THEN {"watch_reads"} ELSE {}))
inode_checks(i) ==
    UNION {inode_has_perm(i, {p}) : p \in {"quotaon", "read", "getattr", "setattr", "mounton"}}
sb_checks == superblock_has_perm({"mount"}) \cup superblock_has_perm({"getattr"})
             \cup superblock_has_perm({"remount"}) \cup superblock_has_perm({"unmount"})

-----------------------------------------------------------------------------
(* Open files.                                                             *)

selinux_revalidate_file_permission(f, mask) ==
    LET m == IF f.append /\ "write" \in mask THEN mask \cup {"append"} ELSE mask
        av == file_mask_to_av(f.inode.class, m)
    IN fd_use(f) \cup bpf_fd_pass(f)
       \cup When(av # {} /\ ~f.inode.private,
                 HasAs("self", "inode", f.inode.class, MaskClass(f.inode.class), av))
ioctl_has_perm(f) == fd_use(f) \cup inode_has_perm(f.inode, {"ioctl"})
selinux_file_ioctl(f, cmd, skip_cloexec) ==
    CASE cmd = "get" -> file_has_perm(f, {"getattr"})
      [] cmd = "set" -> file_has_perm(f, {"setattr"})
      [] cmd = "nonblock" -> file_has_perm(f, {})
      [] cmd = "keyboard" -> cred_has_capability(26, TRUE)
      [] cmd = "cloexec" /\ skip_cloexec -> {}
      [] OTHER -> ioctl_has_perm(f)
selinux_file_ioctl_compat(f, cmd, skip_cloexec) ==
    selinux_file_ioctl(f, IF cmd = "get32" THEN "get" ELSE IF cmd = "set32" THEN "set" ELSE cmd,
                       skip_cloexec)
file_map_prot_check(f, prot, shared) ==
    When("exec" \in prot /\ (f.inode.private \/ (~shared /\ "write" \in prot)),
         avc_has_perm("self", "self", "process", {"execmem"}))
    \cup file_has_perm(f, {"read"} \cup (IF shared /\ "write" \in prot THEN {"write"} ELSE {})
                                   \cup (IF "exec" \in prot THEN {"execute"} ELSE {}))
selinux_mmap_file(f, prot, shared) ==
    inode_has_perm(f.inode, {"map"}) \cup file_map_prot_check(f, prot, shared)
selinux_mmap_addr == avc_has_perm("self", "self", "memprotect", {"mmap_zero"})
selinux_file_mprotect(f, prot, shared, isexec, vma) ==
    When("exec" \in prot /\ ~isexec,
         CASE vma = "heap" -> avc_has_perm("self", "self", "process", {"execheap"})
           [] vma = "stack" -> avc_has_perm("self", "self", "process", {"execstack"})
           [] vma = "cow" -> file_has_perm(f, {"execmod"})
           [] OTHER -> {})
    \cup (IF vma \in {"heap", "stack", "anon"}
          THEN When("exec" \in prot, avc_has_perm("self", "self", "process", {"execmem"}))
          ELSE file_map_prot_check(f, prot, shared))
selinux_file_fcntl(f, cmd) ==
    CASE cmd = "clear_append" /\ f.append -> file_has_perm(f, {"write"})
      [] cmd \in {"clear_append", "setfl", "owner"} -> file_has_perm(f, {})
      [] cmd = "lock" -> file_has_perm(f, {"lock"})
      [] OTHER -> {}
selinux_file_open(f, openperm) == inode_has_perm(f.inode, open_file_to_av(f, openperm))
selinux_file_receive(f) == file_has_perm(f, file_to_av(f))

-----------------------------------------------------------------------------
(* Tasks.                                                                  *)

signal_to_av(sig) ==
    CASE sig = "SIGCHLD" -> "sigchld" [] sig = "SIGKILL" -> "sigkill"
      [] sig = "SIGSTOP" -> "sigstop" [] OTHER -> "signal"
selinux_task_kill(sig) ==
    avc_has_perm("self", "task", "process",
                 {IF sig = "none" THEN "signull" ELSE signal_to_av(sig)})
selinux_file_send_sigiotask(sig) ==
    avc_has_perm("fowner", "task", "process", {signal_to_av(sig)})
selinux_task_prlimit(read, write) ==
    When(read \/ write,
         avc_has_perm("cred", "tcred", "process",
                      (IF write THEN {"setrlimit"} ELSE {})
                      \cup (IF read THEN {"getrlimit"} ELSE {})))
task_checks ==
    avc_has_perm("self", "self", "process", {"fork"})
    \cup UNION {avc_has_perm("self", "task", "process", {p})
                : p \in {"setpgid", "getpgid", "getsession", "setsched", "getsched",
                         "setrlimit", "getattr"}}
    \cup avc_has_perm("self", "self", "user_namespace", {"create"})
kernel_checks(f) ==
    avc_has_perm("self", "secid", "kernel_service", {"use_as_override"})
    \cup avc_has_perm("self", "inode", "kernel_service", {"create_files_as"})
    \cup avc_has_perm("self", "kernel", "system", {"module_request"})
    \cup avc_has_perm("self", "self", "system", {"module_load"})
    \cup fd_use(f) \cup avc_has_perm("self", "inode", "system", {"module_load"})
setprocattr_perm(name) ==
    CASE name = "exec" -> "setexec" [] name = "fscreate" -> "setfscreate"
      [] name = "keycreate" -> "setkeycreate" [] name = "sockcreate" -> "setsockcreate"
      [] name = "current" -> "setcurrent"
selinux_setprocattr(name, traced) ==
    avc_has_perm("self", "self", "process", {setprocattr_perm(name)})
    \cup When(name = "keycreate", avc_has_perm("self", "newsid", "key", {"create"}))
    \cup When(name = "current",
              avc_has_perm("self", "newsid", "process", {"dyntransition"})
              \cup When(traced, avc_has_perm("tracer", "newsid", "process", {"ptrace"})))

-----------------------------------------------------------------------------
(* Sockets.                                                                *)

\* socket_type_to_security_class(), for the families whose class depends on
\* more than the family; the others have a class of their own name when the
\* policy has extended_socket_class, and class socket without it.
inet_class(type, proto, ext) ==
    CASE type \in {"stream", "seqpacket"} ->
            IF proto \in {"ip", "tcp", "mptcp"} THEN "tcp_socket"
            ELSE IF ext /\ proto = "sctp" THEN "sctp_socket" ELSE "rawip_socket"
      [] type = "dgram" ->
            IF proto \in {"ip", "udp"} THEN "udp_socket"
            ELSE IF ext /\ proto \in {"icmp", "icmpv6"} THEN "icmp_socket"
            ELSE "rawip_socket"
      [] type = "dccp" -> "dccp_socket"
      [] OTHER -> "rawip_socket"
netlink_class(proto) ==
    CASE proto = "route" -> "netlink_route_socket"
      [] proto = "sock_diag" -> "netlink_tcpdiag_socket"
      [] proto = "xfrm" -> "netlink_xfrm_socket"
      [] proto = "audit" -> "netlink_audit_socket"
      [] proto = "nflog" -> "netlink_nflog_socket"
      [] proto = "selinux" -> "netlink_selinux_socket"
      [] OTHER -> "netlink_socket"
family_class(family, ext) ==
    CASE family = "packet" -> "packet_socket" [] family = "key" -> "key_socket"
      [] family = "appletalk" -> "appletalk_socket"
      [] family = "vsock" /\ ext -> "vsock_socket" [] family = "alg" /\ ext -> "alg_socket"
      [] OTHER -> "socket"
socket_type_to_security_class(family, type, proto, ext) ==
    CASE family = "unix" /\ type \in {"stream", "seqpacket"} -> "unix_stream_socket"
      [] family = "unix" /\ type \in {"dgram", "raw"} -> "unix_dgram_socket"
      [] family \in {"inet", "inet6"} -> inet_class(type, proto, ext)
      [] family = "netlink" -> netlink_class(proto)
      [] OTHER -> family_class(family, ext)
Families == {"unix", "inet", "inet6", "netlink", "packet", "key", "appletalk", "vsock",
             "alg", "other"}
SocketTypes == {"stream", "seqpacket", "dgram", "raw", "dccp"}
Protocols == {"ip", "tcp", "mptcp", "udp", "icmp", "icmpv6", "sctp", "route", "sock_diag",
              "xfrm", "audit", "nflog", "selinux", "other"}

\* A socket of the kernel is never checked.
sock_has_perm(class, kernel, perm) ==
    When(~kernel, HasAs("self", "sock", class, "socket", {perm}))
node_bind_class(class) ==
    IF class \in {"tcp_socket", "udp_socket", "dccp_socket", "sctp_socket"} THEN class
    ELSE "rawip_socket"
selinux_socket_bind(family, class, kernel, reserved) ==
    sock_has_perm(class, kernel, "bind")
    \cup When(family \in {"inet", "inet6"},
              When(reserved, HasAs("sock", "port", class, "socket", {"name_bind"}))
              \cup HasAs("sock", "node", class, node_bind_class(class), {"node_bind"}))

selinux_socket_connect_helper(class, kernel) ==
    sock_has_perm(class, kernel, "connect")
    \cup When(class \in {"tcp_socket", "dccp_socket", "sctp_socket"},
              HasAs("sock", "port", class, class, {"name_connect"}))
socket_checks(class, kernel) ==
    HasAs("self", "newsid", class, "socket", {"create"})
    \cup UNION {sock_has_perm(class, kernel, p)
                : p \in {"listen", "accept", "write", "read", "getattr", "setopt", "getopt",
                         "shutdown"}}
unix_checks(class) ==
    (IF class = "unix_stream_socket"
     THEN avc_has_perm("sock", "other", class, {"connectto"})
     ELSE HasAs("sock", "other", class, "socket", {"sendto"}))
selinux_sctp_process_new_assoc(class) ==
    HasAs("peer", "assoc_peer", class, "sctp_socket", {"association"})

nlmsg_route_perms(msg) ==
    IF msg \in {"get", "newstats", "delnsid", "newcachereport"} THEN "nlmsg_read"
    ELSE "nlmsg_write"
nlmsg_xfrm_perms(msg) ==
    IF msg \in {"get", "report", "newsadinfo", "mapping"} THEN "nlmsg_read" ELSE "nlmsg_write"
nlmsg_audit_perms(msg) ==
    CASE msg \in {"get", "signal_info"} -> "nlmsg_read"
      [] msg \in {"list", "list_rules"} -> "nlmsg_readpriv"
      [] msg = "user" -> "nlmsg_relay"
      [] msg = "tty_set" -> "nlmsg_tty_audit"
      [] OTHER -> "nlmsg_write"
NlMessages == {"get", "new", "del", "newstats", "delnsid", "newcachereport", "report",
               "newsadinfo", "mapping", "signal_info", "list", "list_rules", "user",
               "tty_set"}
selinux_nlmsg_lookup(class, msg) ==
    CASE class = "netlink_route_socket" -> nlmsg_route_perms(msg)
      [] class = "netlink_tcpdiag_socket" ->
            IF msg = "get" THEN "nlmsg_read" ELSE "nlmsg_write"
      [] class = "netlink_xfrm_socket" -> nlmsg_xfrm_perms(msg)
      [] class = "netlink_audit_socket" -> nlmsg_audit_perms(msg)
      [] OTHER -> "none"
selinux_netlink_send(class, kernel, msg) ==
    LET perm == selinux_nlmsg_lookup(class, msg)
    IN When(perm # "none" /\ ~kernel, avc_has_perm("self", "sock", class, {perm}))

-----------------------------------------------------------------------------
(* Packets.  cap: the policy capabilities and whether secmark and peer     *)
(* labels are in use; family, as the socket has it.                        *)

PacketCaps == [netpeer: BOOLEAN, secmark: BOOLEAN, peerlbl: BOOLEAN]
selinux_inet_sys_rcv_skb ==
    avc_has_perm("peer", "netif", "netif", {"ingress"})
    \cup avc_has_perm("peer", "node", "node", {"recvfrom"})
\* cap.peerlbl here: netlbl_enabled().
selinux_netlbl_sock_rcv_skb(class, cap) ==
    When(cap.peerlbl,
         HasAs("sock", "nlbl", class,
               IF class \in {"udp_socket", "tcp_socket"} THEN class ELSE "rawip_socket",
               {"recvfrom"}))
selinux_sock_rcv_skb_compat(class, cap) ==
    When(cap.secmark, avc_has_perm("sock", "secmark", "packet", {"recv"}))
    \cup selinux_netlbl_sock_rcv_skb(class, cap)
    \cup avc_has_perm("sock", "sa", "association", {"recvfrom"})
selinux_socket_sock_rcv_skb(family, class, cap) ==
    CASE family \notin {"inet", "inet6"} -> {}
      [] ~cap.netpeer -> selinux_sock_rcv_skb_compat(class, cap)
      [] OTHER -> When(cap.peerlbl, selinux_inet_sys_rcv_skb
                                    \cup avc_has_perm("sock", "peer", "peer", {"recv"}))
                  \cup When(cap.secmark, avc_has_perm("sock", "secmark", "packet", {"recv"}))
selinux_ip_forward(cap) ==
    When(cap.netpeer,
         When(cap.peerlbl, selinux_inet_sys_rcv_skb)
         \cup When(cap.secmark, avc_has_perm("peer", "secmark", "packet", {"forward_in"})))
selinux_ip_postroute_compat(cap) ==
    When(cap.secmark, avc_has_perm("sock", "secmark", "packet", {"send"}))
    \cup avc_has_perm("sock", "sa", "association", {"sendto"})
\* forwarded: no local socket sent the packet and it came in from an interface.
selinux_ip_postroute(cap, forwarded) ==
    IF ~cap.netpeer THEN selinux_ip_postroute_compat(cap)
    ELSE When(cap.secmark, avc_has_perm("peer", "secmark", "packet",
                                {IF forwarded THEN "forward_out" ELSE "send"}))
         \cup When(cap.peerlbl, avc_has_perm("peer", "netif", "netif", {"egress"})
                                \cup avc_has_perm("peer", "node", "node", {"sendto"}))
xfrm_checks ==
    avc_has_perm("self", "ctx", "association", {"setcontext"})
    \cup avc_has_perm("fl", "ctx", "association", {"polmatch"})
    \cup avc_has_perm("fl", "state", "association", {"sendto"})
tun_checks ==
    avc_has_perm("self", "self", "tun_socket", {"create"})
    \cup avc_has_perm("self", "tun", "tun_socket", {"attach_queue"})
    \cup avc_has_perm("self", "tun", "tun_socket", {"relabelfrom"})
    \cup avc_has_perm("self", "self", "tun_socket", {"relabelto"})
    \cup avc_has_perm("self", "secmark", "packet", {"relabelto"})

-----------------------------------------------------------------------------
(* System V IPC, keys, InfiniBand, BPF, performance events, io_uring.      *)

ipc_has_perm(class, perms) == HasAs("self", "ipc", class, class, perms)
ipc_info == avc_has_perm("self", "kernel", "system", {"ipc_info"})
selinux_msg_queue_msgctl(cmd) ==
    CASE cmd = "info" -> ipc_info
      [] cmd = "stat" -> ipc_has_perm("msgq", {"getattr", "associate"})
      [] cmd = "set" -> ipc_has_perm("msgq", {"setattr"})
      [] cmd = "rmid" -> ipc_has_perm("msgq", {"destroy"})
      [] OTHER -> {}
msg_checks ==
    ipc_has_perm("msgq", {"create"}) \cup ipc_has_perm("msgq", {"associate"})
    \cup ipc_has_perm("msgq", {"write"}) \cup avc_has_perm("self", "msg", "msg", {"send"})
    \cup avc_has_perm("msg", "ipc", "msgq", {"enqueue"})
    \cup ipc_has_perm("msgq", {"read"}) \cup avc_has_perm("task", "msg", "msg", {"receive"})
selinux_shm_shmctl(cmd) ==
    CASE cmd = "info" -> ipc_info
      [] cmd = "stat" -> ipc_has_perm("shm", {"getattr", "associate"})
      [] cmd = "set" -> ipc_has_perm("shm", {"setattr"})
      [] cmd = "lock" -> ipc_has_perm("shm", {"lock"})
      [] cmd = "rmid" -> ipc_has_perm("shm", {"destroy"})
      [] OTHER -> {}
shm_checks(rdonly) ==
    ipc_has_perm("shm", {"create"}) \cup ipc_has_perm("shm", {"associate"})
    \cup ipc_has_perm("shm", IF rdonly THEN {"read"} ELSE {"read", "write"})
selinux_sem_semctl(cmd) ==
    CASE cmd = "info" -> ipc_info
      [] cmd = "getpid" -> ipc_has_perm("sem", {"getattr"})
      [] cmd = "getval" -> ipc_has_perm("sem", {"read"})
      [] cmd = "setval" -> ipc_has_perm("sem", {"write"})
      [] cmd = "rmid" -> ipc_has_perm("sem", {"destroy"})
      [] cmd = "set" -> ipc_has_perm("sem", {"setattr"})
      [] cmd = "stat" -> ipc_has_perm("sem", {"getattr", "associate"})
      [] OTHER -> {}
sem_checks(alter) ==
    ipc_has_perm("sem", {"create"}) \cup ipc_has_perm("sem", {"associate"})
    \cup ipc_has_perm("sem", IF alter THEN {"read", "write"} ELSE {"read"})
selinux_ipc_permission(class, read, write) ==
    When(read \/ write,
         HasAs("self", "ipc", class, "ipc",
               (IF read THEN {"unix_read"} ELSE {}) \cup (IF write THEN {"unix_write"} ELSE {})))
IpcCommands == {"info", "stat", "set", "lock", "rmid", "getpid", "getval", "setval", "other"}
selinux_key_permission(need) ==
    When(need \in {"view", "read", "write", "search", "link", "setattr"},
         avc_has_perm("cred", "key", "key", {need}))
ib_checks ==
    avc_has_perm("sec", "pkey", "infiniband_pkey", {"access"})
    \cup avc_has_perm("sec", "endport", "infiniband_endport", {"manage_subnet"})
selinux_bpf(cmd) ==
    CASE cmd = "map_create" -> avc_has_perm("self", "self", "bpf", {"map_create"})
      [] cmd = "prog_load" -> avc_has_perm("self", "self", "bpf", {"prog_load"})
      [] OTHER -> {}
perf_event_checks(type) ==
    When(type \in {"open", "cpu", "kernel", "tracepoint"},
         avc_has_perm("self", "self", "perf_event", {type}))
    \cup avc_has_perm("self", "event", "perf_event", {"read"})
    \cup avc_has_perm("self", "event", "perf_event", {"write"})
uring_checks ==
    avc_has_perm("self", "new", "io_uring", {"override_creds"})
    \cup avc_has_perm("self", "self", "io_uring", {"sqpoll"})
    \cup avc_has_perm("self", "inode", "io_uring", {"cmd"})

=============================================================================
