SPECIFICATION FairSpec
CONSTANTS
    None = None
    Pids = {p1}
    Tasks = {t1, t2, t3}
    Links = {l1, l2}
    Cmds = {m1}
    Objs = {o1, o2, o3}
    Freezes = {}
    OpenKuafu = TRUE
PROPERTIES
    LoginEnds
    KickUnloads
CHECK_DEADLOCK FALSE
