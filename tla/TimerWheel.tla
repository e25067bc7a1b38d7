----------------------------- MODULE TimerWheel -----------------------------
(***************************************************************************)
(* The five-level timer wheel behind timed sleeps.  The first level has    *)
(* 2^TwBits1 slots, the others 2^TwBitsN; together their indexes are       *)
(* exactly the bits of the tick counter, which wraps (32 bits in the code: *)
(* 8 and 6).                                                               *)
(*                                                                         *)
(* dsa/timer_wheel.c, dsa/timer_wheel.h                                    *)
(***************************************************************************)
EXTENDS Integers

CONSTANTS
    TwNode,    \* timers
    TwBits1,   \* JLOS_TIMER_WHEEL_L1_BITS
    TwBitsN,   \* JLOS_TIMER_WHEEL_LN_BITS
    TwDelay,   \* distances of the wake-up ticks, negative when already past
    TwLag      \* the largest number of ticks an advance catches up with

Width == TwBits1 + 4 * TwBitsN
Mod == 2 ^ Width
Half == Mod \div 2
Level == 1 .. 5

VARIABLES
    jiffies,   \* the next tick to process
    expires,   \* [TwNode -> tick]
    due,       \* ghost: the tick at which each timer has to fire
    slot,      \* [TwNode -> <<level, index>>, <<>> when not in the wheel]
    fired      \* <<timer, its due tick, tick it fired at>> of the last advance

twVars == <<jiffies, expires, due, slot, fired>>

Off == <<>>

TwTypeOK ==
    /\ jiffies \in 0 .. Mod - 1 /\ expires \in [TwNode -> 0 .. Mod - 1]
    /\ due \in [TwNode -> 0 .. Mod - 1]
    /\ slot \in [TwNode -> {Off} \cup (Level \X (0 .. 2 ^ TwBits1 + 2 ^ TwBitsN))]
    /\ fired \subseteq TwNode \X (0 .. Mod - 1) \X (0 .. Mod - 1)

TwInit ==
    /\ jiffies \in {0, Mod - 1} /\ expires = [n \in TwNode |-> 0] /\ due = expires
    /\ slot = [n \in TwNode |-> Off] /\ fired = {}

\* The bits of tick t below which level l starts.
Shift(l) == 2 ^ (IF l = 1 THEN 0 ELSE TwBits1 + (l - 2) * TwBitsN)

Index(l, t) == (t \div Shift(l)) % 2 ^ (IF l = 1 THEN TwBits1 ELSE TwBitsN)

\* int32_t difference
Signed(d) == LET m == d % Mod IN IF m >= Half THEN m - Mod ELSE m

\* The level is taken from the distance, the index from the expiry itself.
timer_wheel_slot(e, j) ==
    LET delta == Signed(e - j)
        fits == {l \in 1 .. 4 : delta < Shift(l + 1)}
        l == IF fits = {} THEN 5 ELSE CHOOSE x \in fits : \A y \in fits : x <= y
    IN  IF delta < 0 THEN <<1, Index(1, j)>> ELSE <<l, Index(l, e)>>

jlos_timer_wheel_add(n, d) ==
    /\ slot[n] = Off
    /\ expires' = [expires EXCEPT ![n] = (jiffies + d) % Mod]
    /\ due' = [due EXCEPT ![n] = IF d < 0 THEN jiffies ELSE (jiffies + d) % Mod]
    /\ slot' = [slot EXCEPT ![n] = timer_wheel_slot((jiffies + d) % Mod, jiffies)]
    /\ fired' = {} /\ UNCHANGED jiffies

jlos_timer_wheel_del(n) ==
    /\ slot[n] # Off
    /\ slot' = [slot EXCEPT ![n] = Off]
    /\ fired' = {} /\ UNCHANGED <<jiffies, expires, due>>

\* Fault: only the second level is cascaded.
Cascaded_OneLevel(j) == IF Index(1, j) = 0 THEN {2} ELSE {}

\* The levels cascaded at tick j: each one when all below it wrap.
Cascaded(j) == {l \in 2 .. 5 : \A k \in 1 .. l - 1 : Index(k, j) = 0}

\* The timers of a slot are added again, from the lower levels to the higher.
timer_wheel_cascade(s, j, l) ==
    [n \in TwNode |-> IF s[n] = <<l, Index(l, j)>> THEN timer_wheel_slot(expires[n], j) ELSE s[n]]

\* One turn of the loop: cascade, step the counter, fire the slot.
Turn(w) ==
    LET j == w.j
        lift[l \in 1 .. 5] == IF l = 1 THEN w.slot
                              ELSE IF l \in Cascaded(j) THEN timer_wheel_cascade(lift[l - 1], j, l)
                              ELSE lift[l - 1]
        run == {n \in TwNode : lift[5][n] = <<1, Index(1, j)>>}
    IN  [j |-> (j + 1) % Mod,
         slot |-> [n \in TwNode |-> IF n \in run THEN Off ELSE lift[5][n]],
         fired |-> w.fired \cup {<<n, due[n], j>> : n \in run}]

\* The scheduler catches up with the ticks that have passed.
jlos_timer_wheel_advance(k) ==
    LET turns[i \in 0 .. k] == IF i = 0 THEN [j |-> jiffies, slot |-> slot, fired |-> {}]
                               ELSE Turn(turns[i - 1])
    IN  /\ jiffies' = turns[k].j /\ slot' = turns[k].slot /\ fired' = turns[k].fired
        /\ UNCHANGED <<expires, due>>

TwNext ==
    \/ \E n \in TwNode, d \in TwDelay : jlos_timer_wheel_add(n, d)
    \/ \E n \in TwNode : jlos_timer_wheel_del(n)
    \/ \E k \in 1 .. TwLag : jlos_timer_wheel_advance(k)

TwSpec == TwInit /\ [][TwNext]_twVars
---------------------------------------------------------------------------
\* A sleep ends at its tick, or in the next turn when that has passed: never
\* early and never a turn of a level late, on every level and across the wrap
\* of the counter.
FiresOnTime ==
    /\ \A f \in fired : f[2] = f[3]
    /\ \A n \in TwNode : slot[n] # Off => Signed(due[n] - jiffies) >= 0
=============================================================================
