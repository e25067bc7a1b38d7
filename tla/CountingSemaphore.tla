-------------------------- MODULE CountingSemaphore --------------------------
(***************************************************************************)
(* What a counting semaphore promises: a client passes only by taking a    *)
(* token, and every post makes one token.                                  *)
(***************************************************************************)
EXTENDS Naturals

CONSTANTS Client, Initial

VARIABLES tokens,      \* tokens nobody has taken
          asking,      \* clients inside wait
          passed       \* clients whose wait returned

vars == <<tokens, asking, passed>>

Init == tokens = Initial /\ asking = {} /\ passed = {}

Ask(x) ==
    /\ x \notin asking \cup passed
    /\ asking' = asking \cup {x}
    /\ UNCHANGED <<tokens, passed>>

Pass(x) ==
    /\ x \in asking /\ tokens > 0
    /\ tokens' = tokens - 1
    /\ asking' = asking \ {x} /\ passed' = passed \cup {x}

\* A wait that finds a token asks and passes at once.
Try(x) ==
    /\ x \notin asking \cup passed /\ tokens > 0
    /\ tokens' = tokens - 1 /\ passed' = passed \cup {x}
    /\ UNCHANGED asking

Release(x) ==
    /\ x \in passed /\ passed' = passed \ {x}
    /\ tokens' = tokens + 1
    /\ UNCHANGED asking

Post == tokens' = tokens + 1 /\ UNCHANGED <<asking, passed>>

Next == Post \/ \E x \in Client : Ask(x) \/ Pass(x) \/ Try(x) \/ Release(x)

Spec == Init /\ [][Next]_vars
=============================================================================
