SPECIFICATION Spec
CONSTANTS
    None = None
    Pids = {p1, p2}
    Links = {l1}
    Cmds = {m1}
    Tasks = {t1, t2, t3}
    Objs = {o1, o2}
    Freezes = {}
    OpenKuafu = FALSE
INVARIANTS
    LinkBinding
CHECK_DEADLOCK FALSE
