------------------------------ MODULE TimerAbs ------------------------------
(***************************************************************************)
(* What src/timer.h promises: a timer scheduled with a delay of k ticks    *)
(* fires k ticks later, neither earlier nor later, unless it is cancelled  *)
(* or scheduled anew.  rem is the number of ticks a timer has left, delay  *)
(* the delay it was last scheduled with, running the timer that has fired  *)
(* and whose handler has not returned.                                     *)
(***************************************************************************)
EXTENDS Integers

CONSTANTS Timers, NoTimer, MaxTicks

VARIABLES rem, delay, running

NotSet == -1

Init ==
    /\ rem = [t \in Timers |-> NotSet]
    /\ delay = [t \in Timers |-> 0]
    /\ running = NoTimer

\* schedule, reset, update; a periodic timer is scheduled as its handler returns
Sched(t, k) ==
    /\ rem' = [rem EXCEPT ![t] = k]
    /\ delay' = [delay EXCEPT ![t] = k]
    /\ running' = running \/ (running = t /\ running' = NoTimer)

\* an update with a delay out of range
Refuse(t) ==
    /\ rem' = [rem EXCEPT ![t] = NotSet]
    /\ delay' = [delay EXCEPT ![t] = MaxTicks]
    /\ UNCHANGED running

Cancel(t) == rem' = [rem EXCEPT ![t] = NotSet] /\ UNCHANGED <<delay, running>>

\* only a timer that has no tick left fires
Fire(t) ==
    /\ rem[t] = 0 /\ running = NoTimer
    /\ rem' = [rem EXCEPT ![t] = NotSet]
    /\ running' = t
    /\ UNCHANGED delay

HandlerReturn == running' = NoTimer /\ UNCHANGED <<rem, delay>>

\* a tick: only when nothing is left to fire in the last one
Tick ==
    /\ \A t \in Timers : rem[t] # 0
    /\ running = NoTimer
    /\ rem' = [t \in Timers |-> IF rem[t] = NotSet THEN NotSet ELSE rem[t] - 1]
    /\ UNCHANGED <<delay, running>>

Term == rem' = [t \in Timers |-> NotSet] /\ UNCHANGED <<delay, running>>

Next ==
    \/ \E t \in Timers :
        Refuse(t) \/ Cancel(t) \/ Fire(t) \/ \E k \in 1 .. MaxTicks - 1 : Sched(t, k)
    \/ HandlerReturn
    \/ Tick
    \/ Term

Spec == Init /\ [][Next]_<<rem, delay, running>>
=============================================================================
