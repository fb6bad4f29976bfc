SPECIFICATION Spec
CONSTANTS
    None = None
    Pids = {p1}
    Links = {l1}
    Cmds = {m1}
    Tasks = {t1, t2}
    Objs = {o1, o2}
    Freezes = {}
    OpenKuafu = TRUE
INVARIANT RecoverAssertion
CHECK_DEADLOCK FALSE
