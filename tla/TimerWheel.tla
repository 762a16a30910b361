----------------------------- MODULE TimerWheel -----------------------------
(***************************************************************************)
(* One timer_scheduler of src/timer.c: a two-level wheel of LevelSize      *)
(* slots, driven by rte_timer_tick_cb.  The tick callback and every call   *)
(* of the locked interface exclude each other (the global wheel has a      *)
(* lock, the others are used by their own lcore only), so calls come       *)
(* between two ticks, or, through the nolock interface, from the handler   *)
(* that a tick is running.  A slot is a set here: the properties do not    *)
(* depend on the order of the timers that expire in the same tick.         *)
(***************************************************************************)
EXTENDS Integers

CONSTANTS
    Timers,
    NoTimer,
    LevelSize,      \* 2^19
    MaxTicks,       \* TIMER_MAX_TICKS
    UsecPerTick,    \* 1000000 / NDF_TIMER_HZ
    Delays,         \* delays asked for, in usec
    HandlerDelays   \* the ones asked for by a handler

ASSUME TimerAssumption ==
    /\ NoTimer \notin Timers
    /\ LevelSize \in Nat \ {0, 1}
    /\ MaxTicks \in Nat \ {0, 1} /\ MaxTicks <= LevelSize * LevelSize
    /\ UsecPerTick \in Nat \ {0}
    /\ Delays \subseteq Nat /\ HandlerDelays \subseteq Nat

VARIABLES
    cursors,    \* of level 0 and level 1
    level,      \* of each timer: the wheel it is linked in, or Unlinked
    hash,       \* its slot
    left,       \* timer->left
    delay,      \* timer->delay, 0 before the first schedule
    is_period,
    phase,      \* "idle", or the level rte_timer_tick_cb works on
    carry,
    running,    \* the timer whose handler runs
    relinked    \* __ndf_timer_sched has linked a timer that was linked

wheel == <<cursors, phase, carry, running>>
vars == <<cursors, level, hash, left, delay, is_period, phase, carry, running, relinked>>

Unlinked == -1
Linked(t) == level[t] # Unlinked

Init ==
    /\ cursors = [l \in {0, 1} |-> 0]
    /\ level = [t \in Timers |-> Unlinked]
    /\ hash = [t \in Timers |-> 0]
    /\ left = [t \in Timers |-> 0]
    /\ delay = [t \in Timers |-> 0]
    /\ is_period = [t \in Timers |-> FALSE]
    /\ phase = "idle" /\ carry = FALSE /\ running = NoTimer
    /\ relinked = FALSE

(***************************************************************************)
(* __ndf_timer_sched                                                       *)
(***************************************************************************)

\* ndf_timeval_to_ticks and ndf_ticks_to_timeval
TimevalToTicks(us) ==
    IF us \div UsecPerTick >= MaxTicks THEN MaxTicks ELSE us \div UsecPerTick
TicksToTimeval(k) == k * UsecPerTick

\* a delay of 0 becomes 1
AtLeastOne_mut(k) == k
AtLeastOne(k) == IF k = 0 THEN 1 ELSE k

LevelFor(k) == IF k >= LevelSize THEN 1 ELSE 0

SlotFor_mut(k) == (cursors[LevelFor(k)] + 1 + (k - 1) \div (IF k >= LevelSize THEN LevelSize ELSE 1)) % LevelSize
SlotFor(k) == (cursors[LevelFor(k)] + k \div (IF k >= LevelSize THEN LevelSize ELSE 1)) % LevelSize

\* the remainder, plus what the lower cursor has already run
LeftFor_mut(k) == IF k >= LevelSize THEN k % LevelSize ELSE 0
LeftFor(k) == IF k >= LevelSize THEN (k % LevelSize) + cursors[0] ELSE 0

\* the timer is out of the wheel, or was just taken out; out is level
\* without it
TimerSched(t, us, period, out) ==
    LET k == AtLeastOne(TimevalToTicks(us))
    IN  /\ is_period' = [is_period EXCEPT ![t] = period]
        /\ delay' = [delay EXCEPT ![t] = k]
        /\ IF k >= MaxTicks
           THEN level' = out /\ UNCHANGED <<hash, left, relinked>>
           ELSE /\ relinked' = (relinked \/ out[t] # Unlinked)
                /\ level' = [out EXCEPT ![t] = LevelFor(k)]
                /\ hash' = [hash EXCEPT ![t] = SlotFor(k)]
                /\ left' = [left EXCEPT ![t] = LeftFor(k)]

Without(t) == [level EXCEPT ![t] = Unlinked]

(***************************************************************************)
(* The interface: from outside between ticks, or from the running handler  *)
(***************************************************************************)
\* Callers keep one rule that timer.h does not state: a handler leaves no
\* periodic timer of its own pending, for timer_expire would link it again.
Calls(t, period) ==
    /\ phase = "idle" \/ running # NoTimer
    /\ running = t => ~ period

DelaysNow == IF phase = "idle" THEN Delays ELSE HandlerDelays

\* ndf_timer_sched and _sched_period, for a timer that is not pending, and
\* _sched_abs for a time that is not over (its handler runs at once when it
\* is); a delay out of range is refused without effect.
Sched(t, us, period) ==
    /\ Calls(t, period) /\ us \in DelaysNow
    /\ ~ Linked(t) /\ TimevalToTicks(us) < MaxTicks
    /\ TimerSched(t, us, period, level)
    /\ UNCHANGED wheel

\* ndf_timer_update checks no range: a delay too long leaves the timer out.
Update(t, us) ==
    /\ Calls(t, is_period[t]) /\ us \in DelaysNow /\ delay[t] # 0
    /\ TimerSched(t, us, is_period[t], Without(t))
    /\ UNCHANGED wheel

Reset(t) ==
    /\ Calls(t, is_period[t]) /\ delay[t] # 0
    /\ phase # "idle" => TicksToTimeval(delay[t]) \in HandlerDelays
    /\ TimerSched(t, TicksToTimeval(delay[t]), is_period[t], Without(t))
    /\ UNCHANGED wheel

Cancel(t) ==
    /\ Calls(t, FALSE)
    /\ level' = Without(t)
    /\ UNCHANGED <<wheel, hash, left, delay, is_period, relinked>>

\* timer_term_scheduler, and timer_init_scheduler again
Term ==
    /\ phase = "idle"
    /\ level' = [t \in Timers |-> Unlinked]
    /\ cursors' = [l \in {0, 1} |-> 0]
    /\ UNCHANGED <<hash, left, delay, is_period, phase, carry, running, relinked>>

(***************************************************************************)
(* rte_timer_tick_cb                                                       *)
(***************************************************************************)
Advance(l) == [cursors EXCEPT ![l] = IF @ + 1 < LevelSize THEN @ + 1 ELSE 0]

Carries(l) == cursors[l] + 1 >= LevelSize

TickStart ==
    /\ phase = "idle"
    /\ phase' = "level0" /\ cursors' = Advance(0) /\ carry' = Carries(0)
    /\ UNCHANGED <<level, hash, left, delay, is_period, running, relinked>>

Current == IF phase = "level0" THEN 0 ELSE 1
InCurrentSlot(t) == level[t] = Current /\ hash[t] = cursors[Current]
Working == phase # "idle" /\ running = NoTimer

\* timer_expire up to the call of the handler
Expire(t) ==
    /\ Working /\ InCurrentSlot(t) /\ left[t] = 0
    /\ level' = Without(t)
    /\ running' = t
    /\ UNCHANGED <<cursors, phase, carry, hash, left, delay, is_period, relinked>>

\* the handler returns NDTIMER_OK and the timer is periodic
HandlerAgain(t) ==
    /\ running = t /\ is_period[t]
    /\ TimerSched(t, TicksToTimeval(delay[t]), TRUE, level)
    /\ running' = NoTimer
    /\ UNCHANGED <<cursors, phase, carry>>

\* it returns anything else, or the timer is one-shot
HandlerStop(t) ==
    /\ running = t
    /\ running' = NoTimer
    /\ UNCHANGED <<cursors, level, hash, left, delay, is_period, phase, carry, relinked>>

\* from level 1 back to level 1 when a whole turn is left, or to level 0
Drop(t) ==
    /\ Working /\ InCurrentSlot(t) /\ left[t] # 0
    /\ level' = [level EXCEPT ![t] = LevelFor(left[t])]
    /\ hash' = [hash EXCEPT ![t] = SlotFor(left[t])]
    /\ left' = [left EXCEPT ![t] = IF @ >= LevelSize THEN @ % LevelSize ELSE 0]
    /\ UNCHANGED <<wheel, delay, is_period, relinked>>

SlotDone == Working /\ \A t \in Timers : ~ InCurrentSlot(t)

NextLevel ==
    /\ SlotDone /\ phase = "level0" /\ carry
    /\ phase' = "level1" /\ cursors' = Advance(1) /\ carry' = Carries(1)
    /\ UNCHANGED <<level, hash, left, delay, is_period, running, relinked>>

TickEnd ==
    /\ SlotDone /\ (phase = "level0" => ~ carry)
    /\ phase' = "idle" /\ carry' = FALSE
    /\ UNCHANGED <<cursors, level, hash, left, delay, is_period, running, relinked>>

TickStep(t) == Expire(t) \/ HandlerAgain(t) \/ HandlerStop(t) \/ Drop(t)

Next ==
    \/ \E t \in Timers, us \in Delays \cup HandlerDelays, period \in BOOLEAN : Sched(t, us, period)
    \/ \E t \in Timers, us \in Delays \cup HandlerDelays : Update(t, us)
    \/ \E t \in Timers : Reset(t) \/ Cancel(t) \/ TickStep(t)
    \/ TickStart \/ NextLevel \/ TickEnd
    \/ Term

Spec == Init /\ [][Next]_vars

\* rte_timer_manage is called by every lcore's loop, and a handler returns.
FairSpec ==
    /\ Spec
    /\ WF_vars(TickStart \/ NextLevel \/ TickEnd)
    /\ \A t \in Timers : WF_vars(Expire(t) \/ Drop(t)) /\ WF_vars(HandlerAgain(t) \/ HandlerStop(t))

-----------------------------------------------------------------------------
(***************************************************************************)
(* Properties                                                              *)
(***************************************************************************)
TypeOK ==
    /\ cursors \in [{0, 1} -> 0 .. LevelSize - 1]
    /\ level \in [Timers -> {Unlinked, 0, 1}]
    /\ hash \in [Timers -> 0 .. LevelSize - 1]
    /\ left \in [Timers -> 0 .. 2 * LevelSize]
    /\ delay \in [Timers -> 0 .. MaxTicks]
    /\ is_period \in [Timers -> BOOLEAN]
    /\ phase \in {"idle", "level0", "level1"}
    /\ carry \in BOOLEAN
    /\ running \in Timers \cup {NoTimer}
    /\ relinked \in BOOLEAN

\* Ticks since the cursor of level 1 moved.  On the tick in which level 0
\* wraps it has not moved yet, while the slot of level 0 is worked on.
SinceCarry == IF phase = "level0" /\ carry THEN LevelSize ELSE cursors[0]

\* the ticks a timer has left, read off its place in the wheel
Remaining(t) ==
    CASE level[t] = Unlinked -> -1
      [] level[t] = 0 -> (hash[t] - cursors[0]) % LevelSize
      [] level[t] = 1 -> ((hash[t] - cursors[1]) % LevelSize) * LevelSize + left[t] - SinceCarry

Abs == INSTANCE TimerAbs WITH rem <- [t \in Timers |-> Remaining(t)]

\* The wheel implements the promise of timer.h: each timer fires exactly its
\* delay in ticks after it was scheduled, across every wrap of both levels.
AbsSpec == Abs!Spec

\* Between ticks every pending timer has at least one tick left: no slot was
\* passed over with a timer in it.
NothingOverdue == phase = "idle" => \A t \in Timers : Linked(t) => Remaining(t) >= 1

\* A tick ends: no handler and no periodic timer keeps the slot from
\* becoming empty (the lcore that runs the tick processes packets too).
TickReturns == phase # "idle" ~> phase = "idle"

\* No timer is linked into the wheel a second time, which would corrupt the
\* lists (__ndf_timer_sched only logs a warning): neither by a handler that
\* schedules its own timer nor by timer_expire after it.
NeverRelinked == ~ relinked

\* The wheel between any two calls: fields in range, no slot passed over, no
\* list corrupted.
WheelSound == TypeOK /\ NothingOverdue /\ NeverRelinked
=============================================================================
