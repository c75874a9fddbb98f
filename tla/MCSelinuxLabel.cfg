SPECIFICATION Spec
CONSTANTS
    Tasks = {t1, t2}
    Confined = {t2}
    Labels = {"a", "b"}
    InitLabels = {"none", "a"}
    OptsAsked <- MCOpts
    SbTypes = {"ext4", "fuse", "nfs", "tmpfs", "proc", "pipefs", "exfat"}
    UsernsTypes = {"ext4"}
    MaxSeqno = 2
    NoSid = "none"
    TaskSid = "task"
INVARIANTS
    
    
    
    MountAgain
