------------------------------- MODULE Handle -------------------------------
(***************************************************************************)
(* The handle table of skynet (gg/skynet/skynet-src/skynet_handle.c): the  *)
(* slots, their expansion, the names, and skynet_handle_retireall, which   *)
(* the server's copy has changed.  Every operation holds the lock of the   *)
(* table, so it is one step; but skynet_context_new stores the handle in   *)
(* the context after skynet_handle_register has returned, and              *)
(* skynet_handle_retireall takes the lock slot by slot.                    *)
(***************************************************************************)
EXTENDS Integers, Sequences, FiniteSets

CONSTANTS
    Contexts,    \* a context that was retired may be launched again
    Names,       \* numbers, in the order of strcmp
    HandleMask,  \* HANDLE_MASK, 0xffffff
    DefaultSize, \* DEFAULT_SLOT_SIZE, 4
    Launchers,   \* how many threads call skynet_context_new at a time
    LastHandle,  \* bound: the highest handle that is given
    None

ASSUME HandleAssumption ==
    /\ None \notin Contexts /\ Names \subseteq Nat
    /\ {HandleMask, DefaultSize, Launchers, LastHandle} \subseteq Nat \ {0}
    /\ LastHandle <= HandleMask /\ DefaultSize <= HandleMask

VARIABLES
    slot,    \* s->slot, of which slot_size is the number of entries
    index,   \* s->handle_index
    handle,  \* ctx->handle, 0 before it is assigned
    given,   \* what skynet_handle_register has returned for the context
    issued,  \* history: the handles it has ever returned
    names,   \* s->name, up to name_count; late, a history: whether the handle had
             \* been retired when it was named
    pass,    \* skynet_handle_retireall: "no", "scan", "exit"
    pos, hits, exiting, targets,  \* its i, n, handle; whom it has to retire
    broken   \* "assertion" when that of the expansion has failed, "null" when it
             \* has read the handle of an empty slot; the process is dead then

table == <<slot, index, handle, given, issued>>
abort == <<pass, pos, hits, exiting, targets>>
vars == <<table, names, abort, broken>>

Size == Cardinality(DOMAIN slot)
Named == [name : Names, handle : 1..HandleMask, late : BOOLEAN]

TypeOK ==
    /\ \E n \in 1..(HandleMask + 1) : slot \in [0..(n - 1) -> Contexts \cup {None}]
    /\ index \in 1..(HandleMask + 1)
    /\ handle \in [Contexts -> 0..HandleMask] /\ given \in [Contexts -> 0..HandleMask]
    /\ issued \in SUBSET (1..HandleMask)
    /\ names \in Seq(Named)
    /\ pass \in {"no", "scan", "exit"} /\ pos \in 0..Size /\ hits \in 0..Size
    /\ exiting \in 0..HandleMask /\ targets \in SUBSET Contexts
    /\ broken \in {"no", "assertion", "null"}

Init ==
    /\ slot = [n \in 0..(DefaultSize - 1) |-> None]
    /\ index = 1
    /\ handle = [c \in Contexts |-> 0] /\ given = [c \in Contexts |-> 0]
    /\ issued = {}
    /\ names = <<>>
    /\ pass = "no" /\ pos = 0 /\ hits = 0 /\ exiting = 0 /\ targets = {}
    /\ broken = "no"
-----------------------------------------------------------------------------
(* The contexts that are registered, and those whose launch goes on.       *)
Registered == {c \in Contexts : given[c] # 0}
InFlight == {c \in Registered : handle[c] = 0}

(* The handle that is tried i-th: 0 is reserved.                           *)
Try(i) == ((index + i - 1) % HandleMask) + 1
Hash(h, size) == h % size

Free(slots, size) == {i \in 0..(size - 1) : slots[Hash(Try(i), size)] = None}

(* The slots after an expansion, in which every context is moved to the    *)
(* slot of its handle.                                                     *)
Moved(n) == Hash(handle[slot[n]], 2 * Size)
Collides == \E n, m \in DOMAIN slot : n # m /\ Moved(n) = Moved(m)
Expanded ==
    [h \in 0..(2 * Size - 1) |->
        LET from == {n \in DOMAIN slot : Moved(n) = h} IN
        IF from = {} THEN None ELSE slot[CHOOSE n \in from : TRUE]]

Put(c, slots, size) ==
    LET i == CHOOSE k \in Free(slots, size) : \A l \in Free(slots, size) : k <= l IN
    /\ Free(slots, size) # {} /\ Try(i) <= LastHandle
    /\ slot' = [slots EXCEPT ![Hash(Try(i), size)] = c]
    /\ given' = [given EXCEPT ![c] = Try(i)]
    /\ issued' = issued \cup {Try(i)}
    /\ index' = Try(i) + 1

(* skynet_handle_register: the slot of the next handle that is free, and a *)
(* table of twice the size when there is none.                             *)
Register_Unchecked(c) ==
    /\ broken = "no"
    /\ c \notin Registered /\ Cardinality(InFlight) < Launchers
    /\ Try(0) <= LastHandle
    /\ slot' = [slot EXCEPT ![Hash(Try(0), Size)] = c]
    /\ given' = [given EXCEPT ![c] = Try(0)]
    /\ issued' = issued \cup {Try(0)}
    /\ index' = Try(0) + 1
    /\ UNCHANGED <<handle, names, abort, broken>>

Register(c) ==
    /\ broken = "no"
    /\ c \notin Registered /\ Cardinality(InFlight) < Launchers
    /\ IF Free(slot, Size) # {}
       THEN Put(c, slot, Size) /\ UNCHANGED broken
       ELSE /\ 2 * Size - 1 <= HandleMask
            /\ broken' = IF None \in {slot[n] : n \in DOMAIN slot} THEN "null"
                         ELSE IF Collides THEN "assertion" ELSE "no"
            /\ IF broken' = "no" THEN Put(c, Expanded, 2 * Size)
               ELSE UNCHANGED <<slot, given, index, issued>>
    /\ UNCHANGED <<handle, names, abort>>

(* skynet_context_new: ctx->handle = skynet_handle_register(ctx).          *)
Assign(c) ==
    /\ broken = "no"
    /\ c \in InFlight
    /\ handle' = [handle EXCEPT ![c] = given[c]]
    /\ UNCHANGED <<slot, index, given, issued, names, abort, broken>>
-----------------------------------------------------------------------------
(* The context of a handle, if its slot has it (skynet_handle_grab).       *)
Grab(h) ==
    LET c == slot[Hash(h, Size)] IN
    IF c # None /\ handle[c] = h THEN c ELSE None

(* The names that are left when those of a handle are taken out.           *)
Compacted(h) ==
    LET kept[i \in 0..Len(names)] ==
            IF i = 0 THEN <<>>
            ELSE IF names[i].handle = h THEN kept[i - 1]
            ELSE Append(kept[i - 1], names[i])
    IN kept[Len(names)]

(* skynet_handle_retire, with the names of the handle.                     *)
Retired_KeepsNames(h) ==
    LET c == Grab(h) IN
    IF c = None THEN UNCHANGED <<slot, handle, given, names>>
    ELSE /\ slot' = [slot EXCEPT ![Hash(h, Size)] = None]
         /\ handle' = [handle EXCEPT ![c] = 0] /\ given' = [given EXCEPT ![c] = 0]
         /\ UNCHANGED names

Retired(h) ==
    LET c == Grab(h) IN
    IF c = None THEN UNCHANGED <<slot, handle, given, names>>
    ELSE /\ slot' = [slot EXCEPT ![Hash(h, Size)] = None]
         /\ handle' = [handle EXCEPT ![c] = 0] /\ given' = [given EXCEPT ![c] = 0]
         /\ names' = Compacted(h)

(* KILL and EXIT: by any thread that knows the handle.                     *)
Kill(h) ==
    /\ broken = "no"
    /\ Grab(h) # None
    /\ Retired(h)
    /\ targets' = targets \ {Grab(h)}
    /\ UNCHANGED <<index, issued, pass, pos, hits, exiting, broken>>

(* The binary search of skynet_handle_findname and _insert_name: the place *)
(* of a name, or where it would be, less one.                              *)
Search(name) ==
    LET search[be \in (1..(Len(names) + 1)) \X (0..Len(names))] ==
            LET mid == (be[1] + be[2]) \div 2 IN
            IF be[1] > be[2] THEN [found |-> FALSE, at |-> be[1]]
            ELSE IF names[mid].name = name THEN [found |-> TRUE, at |-> mid]
            ELSE IF names[mid].name < name THEN search[<<mid + 1, be[2]>>]
            ELSE search[<<be[1], mid - 1>>]
    IN search[<<1, Len(names)>>]

(* skynet_handle_namehandle (NAME, REG) does not ask whether the handle is *)
(* still there: a service that was killed can come to it in its message.   *)
NameHandle(h, name) ==
    LET p == Search(name).at IN
    /\ broken = "no"
    /\ h \in issued
    /\ ~Search(name).found
    /\ names' = SubSeq(names, 1, p - 1) \o <<[name |-> name, handle |-> h, late |-> Grab(h) = None]>>
                \o SubSeq(names, p, Len(names))
    /\ UNCHANGED <<table, abort, broken>>
-----------------------------------------------------------------------------
(* skynet_handle_retireall: the slots one after the other, and again until *)
(* a pass retires nobody.                                                  *)
AbortBegins ==
    /\ broken = "no"
    /\ pass = "no"
    /\ pass' = "scan" /\ pos' = 0 /\ hits' = 0 /\ exiting' = 0
    /\ targets' = Registered \ InFlight
    /\ UNCHANGED <<table, names, broken>>

(* Under the read lock; a context without a handle is passed over.         *)
AbortReads ==
    LET c == slot[pos] IN
    /\ broken = "no"
    /\ pass = "scan" /\ pos < Size
    /\ IF c = None \/ (c # None /\ handle[c] = 0)
       THEN pos' = pos + 1 /\ UNCHANGED <<pass, exiting>>
       ELSE pass' = "exit" /\ exiting' = handle[c] /\ UNCHANGED pos
    /\ UNCHANGED <<table, names, hits, targets, broken>>

(* skynet_handle_exit, without the lock.                                   *)
AbortExits ==
    /\ broken = "no"
    /\ pass = "exit"
    /\ Retired(exiting)
    /\ targets' = targets \ {Grab(exiting)}
    /\ hits' = IF Grab(exiting) # None THEN hits + 1 ELSE hits
    /\ pass' = "scan" /\ pos' = pos + 1 /\ exiting' = 0
    /\ UNCHANGED <<index, issued, broken>>

AbortEnds_SizeOnce ==
    /\ broken = "no"
    /\ pass = "scan" /\ pos >= DefaultSize
    /\ pos' = 0 /\ hits' = 0
    /\ pass' = IF hits = 0 THEN "no" ELSE "scan"
    /\ UNCHANGED <<table, names, exiting, targets, broken>>

AbortEnds ==
    /\ broken = "no"
    /\ pass = "scan" /\ pos = Size
    /\ pos' = 0 /\ hits' = 0
    /\ pass' = IF hits = 0 THEN "no" ELSE "scan"
    /\ UNCHANGED <<table, names, exiting, targets, broken>>

Next ==
    \/ \E c \in Contexts : Register(c) \/ Assign(c)
    \/ \E h \in 1..HandleMask : Kill(h) \/ \E name \in Names : NameHandle(h, name)
    \/ AbortBegins \/ AbortReads \/ AbortExits \/ AbortEnds

Spec == Init /\ [][Next]_vars
-----------------------------------------------------------------------------
(* A context is found under its handle as long as nobody retires it: the   *)
(* slots are moved by expansions and handles come round, and what is in a  *)
(* wrong slot gets no message and is never retired.  So no two have one    *)
(* handle.                                                                 *)
Reachable ==
    /\ TypeOK
    /\ \A c \in Registered \ InFlight : Grab(given[c]) = c
    /\ \A c \in InFlight : slot[Hash(given[c], Size)] = c

(* No name leads to a handle that was retired, or to another service that  *)
(* got the handle afterwards, except a name that a service gave itself     *)
(* when it had been retired; and the binary search finds every name that   *)
(* is in the array, whatever was inserted and compacted before.            *)
NamesAreAlive ==
    \A n \in DOMAIN names :
        /\ Grab(names[n].handle) # None \/ names[n].late
        /\ Search(names[n].name).at = n

(* skynet_handle_retireall has retired every service that was up when it   *)
(* began, although the table grows while it looks at the slots.            *)
AbortMissesNone == pass = "no" => targets = {}
=============================================================================
