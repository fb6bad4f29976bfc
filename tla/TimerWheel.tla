----------------------------- MODULE TimerWheel -----------------------------
(***************************************************************************)
(* The timer of skynet as the server ships it, with ticks of a millisecond *)
(* (gg/skynet/skynet-src/skynet_timer.c): a wheel with a slot per tick of  *)
(* the near future and levels of coarser slots, whose nodes move down when *)
(* their time comes near, on a 32 bit clock that comes round after 49.7    *)
(* days; and the way a delay takes from Lua to it.                         *)
(*                                                                         *)
(* A step is a section under the lock of the timer.  timer_execute drops   *)
(* the lock while it sends the timeouts of a tick: others can be asked for *)
(* then.                                                                   *)
(***************************************************************************)
EXTENDS Integers, Sequences, FiniteSets

CONSTANTS
    Timeouts,   \* timeouts that can be pending, each with a session
    Near,       \* TIME_NEAR, 256
    Level,      \* TIME_LEVEL, 64
    Levels,     \* of t[4][TIME_LEVEL]
    MaxDelay,   \* bound: the delays Lua asks for, in ticks
    MaxLag      \* bound: milliseconds between two calls of skynet_updatetime

(* Powers of two in the code, which shifts and masks where the model       *)
(* divides.                                                                *)
ASSUME WheelAssumption ==
    /\ {Near, Level} \subseteq Nat \ {0, 1}
    /\ {Levels, MaxDelay, MaxLag} \subseteq Nat \ {0}

(* The ticks of a slot of t[i].                                            *)
Unit[i \in 0..Levels] == IF i = 0 THEN Near ELSE Unit[i - 1] * Level
Modulus == Unit[Levels]  \* 2^32

VARIABLES
    time,      \* T->time
    expire,    \* node->expire of the timeouts that are pending
    wheel,     \* the lists: near[n] is <<0, n>>, t[i][n] is <<i + 1, n>>
    sending,   \* the list dispatch_list works on
    ticking,   \* whether timer_update is past timer_shift
    lag,       \* the ticks skynet_updatetime has still to make: diff - i
    remaining  \* history: the ticks until a pending timeout rings, or -1

vars == <<time, expire, wheel, sending, ticking, lag, remaining>>

Slots == ({0} \X (0..(Near - 1))) \cup ((1..Levels) \X (0..(Level - 1)))
NotAsked == -1
Largest == Modulus \div 2 - 1  \* INT32_MAX

TypeOK ==
    /\ time \in 0..(Modulus - 1)
    /\ expire \in [Timeouts -> 0..(Modulus - 1)]
    /\ wheel \in [Slots -> Seq(Timeouts)]
    /\ sending \in Seq(Timeouts)
    /\ ticking \in BOOLEAN
    /\ lag \in 0..MaxLag
    /\ remaining \in [Timeouts -> NotAsked..Largest]

Init ==
    /\ time = 0
    /\ expire = [id \in Timeouts |-> 0]
    /\ wheel = [s \in Slots |-> <<>>]
    /\ sending = <<>>
    /\ ticking = FALSE
    /\ lag = 0
    /\ remaining = [id \in Timeouts |-> NotAsked]
-----------------------------------------------------------------------------
(* add_node: the slot of a node at a time: the lowest level whose unit     *)
(* above the slot is common to both, the top level when there is none.     *)
SameBlock(a, b, i) == a \div Unit[i] = b \div Unit[i]
Slot_LowLevel(e, now) ==
    IF SameBlock(e, now, 0) THEN <<0, e % Near>>
    ELSE LET i == CHOOSE k \in 0..(Levels - 1) :
                     /\ k = Levels - 1 \/ SameBlock(e, now, k + 1)
                     /\ \A j \in 0..(k - 1) : ~SameBlock(e, now, j + 1)
         IN <<i + 1, (e \div Unit[i] + 1) % Level>>

Slot(e, now) ==
    IF SameBlock(e, now, 0) THEN <<0, e % Near>>
    ELSE LET i == CHOOSE k \in 0..(Levels - 1) :
                     /\ k = Levels - 1 \/ SameBlock(e, now, k + 1)
                     /\ \A j \in 0..(k - 1) : ~SameBlock(e, now, j + 1)
         IN <<i + 1, (e \div Unit[i]) % Level>>

(* timer_shift: the slot that is moved down when the time becomes now; at  *)
(* the turn of the clock it is the first one of the top level.             *)
Index(now, i) == (now \div Unit[i]) % Level
Cascade_NoTurn(now) ==
    {s \in Slots : \E i \in 0..(Levels - 1) :
        /\ s = <<i + 1, Index(now, i)>> /\ Index(now, i) # 0
        /\ now % Unit[i] = 0}

Cascade(now) ==
    IF now = 0 THEN {<<Levels, 0>>}
    ELSE {s \in Slots : \E i \in 0..(Levels - 1) :
            /\ s = <<i + 1, Index(now, i)>> /\ Index(now, i) # 0
            /\ now % Unit[i] = 0}

(* move_list: link_clear, and add_node for each of the nodes, in order.    *)
Shifted(now) ==
    LET down == Cascade(now)
        list == IF down = {} THEN <<>> ELSE wheel[CHOOSE d \in down : TRUE]
        moved[n \in 0..Len(list)] ==
            IF n = 0 THEN [s \in Slots |-> IF s \in down THEN <<>> ELSE wheel[s]]
            ELSE [moved[n - 1] EXCEPT ![Slot(expire[list[n]], now)] = Append(@, list[n])]
    IN moved[Len(list)]

Due == <<0, time % Near>>
-----------------------------------------------------------------------------
(* From Lua: lintcommand passes the delay as an int32, of which a large    *)
(* one comes out as another number, and skynet_timeout sends the response  *)
(* at once unless it is positive.                                          *)
Int32(n) ==
    LET low == n % Modulus IN IF low <= Largest THEN low ELSE low - Modulus

TimeoutNow(id, delay) ==
    /\ remaining[id] = NotAsked
    /\ Int32(delay) <= 0
    /\ UNCHANGED <<time, expire, wheel, sending, ticking, lag, remaining>>

Timeout(id, delay) ==
    LET e == (time + Int32(delay)) % Modulus IN
    /\ remaining[id] = NotAsked
    /\ Int32(delay) > 0
    /\ remaining' = [remaining EXCEPT ![id] = Int32(delay)]
    /\ expire' = [expire EXCEPT ![id] = e]
    /\ wheel' = [wheel EXCEPT ![Slot(e, time)] = Append(@, id)]
    /\ UNCHANGED <<time, sending, ticking, lag>>

-----------------------------------------------------------------------------
(* skynet_updatetime: the time that has passed, in ticks.                  *)
UpdateTime(diff) ==
    /\ lag = 0
    /\ lag' = diff
    /\ UNCHANGED <<time, expire, wheel, sending, ticking, remaining>>

(* timer_update: timer_shift and the list of the new tick, which           *)
(* timer_execute takes.  Its loop, and the timer_execute before the shift, *)
(* take what has come since, and that is nothing (InPlace).                *)
Shift ==
    LET now == (time + 1) % Modulus
        list == Shifted(now)[<<0, now % Near>>]
    IN
    /\ lag > 0 /\ ~ticking
    /\ time' = now
    /\ wheel' = [Shifted(now) EXCEPT ![<<0, now % Near>>] = <<>>]
    /\ sending' = list
    /\ ticking' = TRUE
    /\ remaining' = [id \in Timeouts |->
                        IF remaining[id] > 0 THEN remaining[id] - 1 ELSE remaining[id]]
    /\ UNCHANGED <<expire, lag>>

(* dispatch_list, without the lock.                                        *)
Send_FirstOnly ==
    /\ sending # <<>>
    /\ sending' = <<>>
    /\ remaining' = [remaining EXCEPT ![Head(sending)] = NotAsked]
    /\ UNCHANGED <<time, expire, wheel, ticking, lag>>

Send ==
    /\ sending # <<>>
    /\ sending' = Tail(sending)
    /\ remaining' = [remaining EXCEPT ![Head(sending)] = NotAsked]
    /\ UNCHANGED <<time, expire, wheel, ticking, lag>>

Updated ==
    /\ ticking /\ sending = <<>>
    /\ ticking' = FALSE
    /\ lag' = lag - 1
    /\ UNCHANGED <<time, expire, wheel, sending, remaining>>

Next ==
    \/ \E id \in Timeouts, delay \in 0..MaxDelay : Timeout(id, delay) \/ TimeoutNow(id, delay)
    \/ \E diff \in 1..MaxLag : UpdateTime(diff)
    \/ Shift \/ Send \/ Updated

Spec == Init /\ [][Next]_vars

(* The timer thread runs, and the clock goes on.                           *)
Fairness ==
    /\ WF_vars(Shift) /\ WF_vars(Send) /\ WF_vars(Updated)
    /\ WF_vars(\E diff \in 1..MaxLag : UpdateTime(diff))

FairSpec == Spec /\ Fairness
-----------------------------------------------------------------------------
(* A node that waits is in the slot where timer_shift looks for it in      *)
(* time, whatever the slot it was put in and the turns of the clock since. *)
(* The slot of the current tick is empty but in the section that takes it, *)
(* so "timeout 0 (rare condition)" never happens (skynet_timer.c:183).     *)
InPlace ==
    /\ TypeOK
    /\ wheel[Due] = <<>>
    /\ \A s \in Slots : \A n \in DOMAIN wheel[s] :
          LET id == wheel[s][n] IN
          /\ remaining[id] > 0
          /\ expire[id] = (time + remaining[id]) % Modulus
          /\ s = Slot(expire[id], time)

(* The wheel is the alarm of Alarm for the delays an int32 holds: a timeout *)
(* rings once, and at the tick that timer_add was given.  It is not always *)
(* the delay that Lua asked for ("gg.timer:timeout(10,callback) <=> 10s",  *)
(* gg/base/timer.lua:20): one of 2147484 seconds or more is another number *)
(* for lintcommand, and rings at once when that is negative (TimeoutNow).  *)
Promise == INSTANCE Alarm WITH MaxDelay <- Largest
ImplementsAlarm == Promise!Spec

(* Whoever waits is woken.                                                 *)
Rings == \A id \in Timeouts : remaining[id] # NotAsked ~> remaining[id] = NotAsked
=============================================================================
