SPECIFICATION Spec
CONSTANTS
    None = None
    Pids = {p1}
    Links = {l1, l2}
    Cmds = {m1}
    Tasks = {t1, t2, t3}
    Objs = {o1, o2}
    Freezes = {}
    OpenKuafu = FALSE
INVARIANT FilterAssertion
CHECK_DEADLOCK FALSE
