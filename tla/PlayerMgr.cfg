SPECIFICATION Spec
CONSTANTS
    None = None
    Pids = {p1}
    Links = {l1, l2}
    Cmds = {m1, m2}
    Tasks = {t1, t2, t3, t4}
    Objs = {o1, o2, o3}
    Freezes = {m2}
    OpenKuafu = FALSE
SYMMETRY Symmetry
INVARIANTS
    TypeOK
    Durable
    RegisteredIsAutosaved
    AddAssertion
    FrozenStaysOut
    NoForgottenPlayer
CHECK_DEADLOCK FALSE
