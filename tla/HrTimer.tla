------------------------------ MODULE HrTimer ------------------------------
(***************************************************************************)
(* The high-resolution timers of the boot CPU: the periodic tick and the   *)
(* one-shot timers of nanosleep, one clock event armed for the earliest of *)
(* them.  Starting a timer does not arm the event again.                   *)
(*                                                                         *)
(* kernel/hrtimer.c, kernel/timek.c, kernel/multitask.c                    *)
(***************************************************************************)
EXTENDS Integers, FiniteSets

CONSTANTS
    HrTask,      \* sleepers
    HrPeriod,    \* JLOS_TICK_PERIOD_NS
    HrLatency,   \* the longest the interrupt of a due event is held off
    HrNaps,      \* lengths of the sleeps
    HrEnd        \* bound on the time

\* Times and sleeps are not negative, and a period is not empty.
ASSUME HrAssumption ==
    /\ HrPeriod \in Nat \ {0} /\ HrLatency \in Nat /\ HrEnd \in Nat
    /\ HrNaps \subseteq Nat /\ HrTask \subseteq Nat \ {0}

Tick == 0        \* the per-CPU tick timer; HrTask has positive numbers
NotSet == -1

VARIABLES
    now,      \* monotonic time
    active,   \* base->active: [Tick or task -> expiry, NotSet when not in the tree]
    event,    \* the time the clock event is armed for, NotSet when it is not
    ticks,    \* s_ticks
    woken     \* ghost: <<expiry, time>> of the sleeps that ended at the last interrupt

hrVars == <<now, active, event, ticks, woken>>

HrTypeOK ==
    /\ now \in 0 .. HrEnd /\ ticks \in Nat
    /\ active \in [HrTask \cup {Tick} -> {NotSet} \cup Nat]
    /\ event \in {NotSet} \cup 0 .. HrEnd + HrPeriod

\* jlos_tick_init_cpu
HrInit ==
    /\ now = 0 /\ event = HrPeriod /\ ticks = 0 /\ woken = {}
    /\ active = [t \in HrTask \cup {Tick} |-> IF t = Tick THEN HrPeriod ELSE NotSet]

\* Time passes; the interrupt of a due event is taken within the latency.
Advance ==
    /\ now < HrEnd /\ (event # NotSet => now < event + HrLatency)
    /\ now' = now + 1 /\ woken' = {}
    /\ UNCHANGED <<active, event, ticks>>

\* A timer at a time from now.
jlos_hrtimer_start(t, ns) == active' = [active EXCEPT ![t] = now + ns]

\* nanosleep runs with interrupts off on the CPU whose base it uses.
jlos_task_sleep_hrtimer(t, ns) ==
    /\ active[t] = NotSet
    /\ jlos_hrtimer_start(t, ns)
    /\ woken' = {} /\ UNCHANGED <<now, event, ticks>>

\* The next multiple of the interval that is still to come.
CatchUp(e) == e + HrPeriod * ((now - e) \div HrPeriod + 1)

\* Fault: the event is armed for the latest of the timers.
NextEvent_Last(tree) ==
    LET set == {tree[t] : t \in DOMAIN tree}
    IN  CHOOSE e \in set : \A f \in set : f <= e

\* jlos_rbtree_first of what is left
NextEvent(tree) ==
    LET set == {tree[t] : t \in {u \in DOMAIN tree : tree[u] # NotSet}}
    IN  CHOOSE e \in set : \A f \in set : e <= f

jlos_hrtimer_interrupt ==
    LET expired == {t \in DOMAIN active : active[t] # NotSet /\ active[t] <= now}
        left == [t \in DOMAIN active |->
                   IF t \notin expired THEN active[t]
                   ELSE IF t = Tick THEN CatchUp(active[t]) ELSE NotSet]
    IN  /\ event # NotSet /\ now >= event
        /\ active' = left
        /\ ticks' = ticks + (IF Tick \in expired THEN 1 ELSE 0)
        /\ woken' = {<<active[t], now>> : t \in expired \ {Tick}}
        /\ event' = NextEvent(left)
        /\ UNCHANGED now

HrNext ==
    \/ Advance
    \/ \E t \in HrTask, ns \in HrNaps : jlos_task_sleep_hrtimer(t, ns)
    \/ jlos_hrtimer_interrupt

HrSpec == HrInit /\ [][HrNext]_hrVars
---------------------------------------------------------------------------
\* A sleeper is never woken early, and although starting its timer does not
\* arm the event, it is late by at most a tick and the interrupt latency.
NapBounded ==
    /\ \A w \in woken : w[1] <= w[2]
    /\ \A t \in HrTask : active[t] # NotSet => now <= active[t] + HrPeriod + HrLatency

\* With interrupts held off for less than a period, no tick is lost and the
\* ticks do not drift from the time.
TicksKeepUp ==
    HrLatency < HrPeriod =>
       /\ ticks * HrPeriod <= now
       /\ now <= (ticks + 1) * HrPeriod + HrLatency

\* Naps and ticks keep to the clock.
TimersKeepTime == HrTypeOK /\ NapBounded /\ TicksKeepUp
=============================================================================
