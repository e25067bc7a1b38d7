---------------------------- MODULE MessageQueue ----------------------------
(***************************************************************************)
(* The kernel's message queue: a linked list under a mutex, here the       *)
(* number of its messages, and a counting semaphore with one token for     *)
(* each message.  Destroy empties the list and leaves the tokens.          *)
(*                                                                         *)
(* kernel/ipc.c                                                            *)
(***************************************************************************)
EXTENDS Integers, FiniteSets

CONSTANTS
    MqSender, MqReceiver,
    MqBound        \* bound on messages and tokens

ASSUME MqAssumption ==
    IsFiniteSet(MqSender) /\ IsFiniteSet(MqReceiver) /\ MqBound \in Nat

VARIABLES
    count,       \* mq->count, the length of the list
    items,       \* tokens of sem_read_items
    posting,     \* senders between the unlock and the post
    waiting,     \* receivers in jlos_semaphore_wait
    taking,      \* receivers that have a token and not yet the mutex
    lost         \* ghost: messages a destroy has freed whose token remains

mqVars == <<count, items, posting, waiting, taking, lost>>

MqTypeOK ==
    /\ count \in 0 .. MqBound /\ items \in Nat /\ lost \in 0 .. MqBound
    /\ posting \subseteq MqSender
    /\ waiting \subseteq MqReceiver /\ taking \subseteq MqReceiver \ waiting

MqInit == count = 0 /\ items = 0 /\ posting = {} /\ waiting = {} /\ taking = {} /\ lost = 0

jlos_mq_send(s) ==
    /\ s \notin posting /\ count < MqBound /\ items < MqBound
    /\ count' = count + 1 /\ posting' = posting \cup {s}
    /\ UNCHANGED <<items, waiting, taking, lost>>

\* Fault: no token is posted.
SendPost_Lost(s) ==
    /\ s \in posting /\ posting' = posting \ {s}
    /\ UNCHANGED <<count, items, waiting, taking, lost>>

SendPost(s) ==
    /\ s \in posting /\ posting' = posting \ {s} /\ items' = items + 1
    /\ UNCHANGED <<count, waiting, taking, lost>>

jlos_mq_recv(r) ==
    /\ r \notin waiting \cup taking /\ waiting' = waiting \cup {r}
    /\ UNCHANGED <<count, items, posting, taking, lost>>

RecvWait(r) ==
    /\ r \in waiting /\ items > 0
    /\ items' = items - 1 /\ waiting' = waiting \ {r} /\ taking' = taking \cup {r}
    /\ UNCHANGED <<count, posting, lost>>

\* With an empty list the call returns 0: its message was freed by a destroy.
RecvTake(r) ==
    /\ r \in taking /\ taking' = taking \ {r}
    /\ IF count = 0 THEN lost' = lost - 1 /\ UNCHANGED count
       ELSE count' = count - 1 /\ UNCHANGED lost
    /\ UNCHANGED <<items, posting, waiting>>

jlos_mq_destroy ==
    /\ count > 0 /\ lost + count <= MqBound
    /\ count' = 0 /\ lost' = lost + count
    /\ UNCHANGED <<items, posting, waiting, taking>>

MqNext ==
    \/ \E s \in MqSender : jlos_mq_send(s) \/ SendPost(s)
    \/ \E r \in MqReceiver : jlos_mq_recv(r) \/ RecvWait(r) \/ RecvTake(r)
    \/ jlos_mq_destroy

MqFairness == /\ \A s \in MqSender : WF_mqVars(SendPost(s))
              /\ \A r \in MqReceiver : SF_mqVars(RecvWait(r)) /\ WF_mqVars(RecvTake(r))

MqSpec == MqInit /\ [][MqNext]_mqVars /\ MqFairness
---------------------------------------------------------------------------
\* The tokens, those on their way in either direction included, are the
\* messages on the list and the ones a destroy has freed: no message is left
\* without a token, and a receive returns 0 only for a freed message.
TokensCoverMessages ==
    items + Cardinality(posting) + Cardinality(taking) = count + lost

\* A receive that waits while messages are on the list gets a token.
ReceiveReturns ==
    \A r \in MqReceiver : []<>(r \notin waiting \/ count = 0)
=============================================================================
