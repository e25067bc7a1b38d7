------------------------------- MODULE Nic -------------------------------
(* The am79c973 driver of drivers/amd_am79c973.c with the deferred work of   *)
(* kernel/softirq.c and net/network.c: two rings of descriptors whose OWN    *)
(* bit says whether the card or the CPU may touch the buffer, an interrupt   *)
(* handler that reads CSR0, raises the network softirq and writes back the   *)
(* bits it saw, and the softirq that scans the whole receive ring.  The      *)
(* handler and the softirq run with interrupts off on one CPU; a sender runs *)
(* beside them, alone under send_lock.                                       *)
EXTENDS Integers, SequencesExt, FiniteSets

CONSTANTS
  NicRx,        \* NUM_RECV_BUFFERS
  NicTx,        \* NUM_SEND_BUFFERS
  NicFrames,    \* bound on the frames of each direction
  NicLag        \* frames the card may leave unsent when a sender stops waiting

VARIABLES
  rring,        \* receive descriptors: [own, tag], tag the frame in the buffer
  rcur,         \* current_recv_buffer
  arrived,      \* frames the card has put into the ring, numbered from 1
  csr,          \* the RINT and TINT bits of CSR0
  irq,          \* the interrupt: [at, seen, raised, i, start, last]
  got,          \* the frames passed to on_receive, in order
  tring,        \* send descriptors
  tcur,         \* current_send_buffer
  sender,       \* [at, d, n]: the send in progress and how many were made
  sentOut       \* the frames the card put on the wire, in order

nicVars == <<rring, rcur, arrived, csr, irq, got, tring, tcur, sender, sentOut>>

Rx == 0..NicRx-1
Tx == 0..NicTx-1
Bits == [rint : BOOLEAN, tint : BOOLEAN]
NoBits == [rint |-> FALSE, tint |-> FALSE]

\* The card owns the receive ring, the driver the send ring.
jlos_amd_am79c973_init ==
  /\ rring = [d \in Rx |-> [own |-> "card", tag |-> 0]]
  /\ tring = [d \in Tx |-> [own |-> "cpu", tag |-> 0]]
  /\ rcur = 0 /\ tcur = 0

\* jlos_amd_am79c973_activate: the card runs, no interrupt is pending.
NicInit ==
  /\ jlos_amd_am79c973_init
  /\ arrived = 0
  /\ csr = NoBits
  /\ irq = [at |-> "none", seen |-> NoBits, raised |-> FALSE, i |-> 0, start |-> 0, last |-> -1]
  /\ sender = [at |-> "none", d |-> 0, n |-> 0]
  /\ got = <<>> /\ sentOut = <<>>

-----------------------------------------------------------------------------
(* The card.                                                                 *)

\* A frame goes into the next descriptor of the ring; without one the card
\* owns it is missed, which leaves the ring as it is.
CardReceives ==
  LET d == arrived % NicRx IN
  /\ arrived < NicFrames
  /\ rring[d].own = "card"
  /\ arrived' = arrived + 1
  /\ rring' = [rring EXCEPT ![d] = [own |-> "cpu", tag |-> arrived + 1]]
  /\ csr' = [csr EXCEPT !.rint = TRUE]
  /\ UNCHANGED <<rcur, irq, got, tring, tcur, sender, sentOut>>

\* The next descriptor of the send ring goes out.
CardSends ==
  LET d == Len(sentOut) % NicTx IN
  /\ tring[d].own = "card"
  /\ sentOut' = Append(sentOut, tring[d].tag)
  /\ tring' = [tring EXCEPT ![d].own = "cpu"]
  /\ csr' = [csr EXCEPT !.tint = TRUE]
  /\ UNCHANGED <<rring, rcur, arrived, irq, got, tcur, sender>>

-----------------------------------------------------------------------------
(* The interrupt, and the softirqs it ends with.                             *)

\* jlos_softirq_raise.
jlos_softirq_raise(c) == [c EXCEPT !.raised = TRUE]

\* The handler reads CSR0 while the interrupt line is up.
IrqRead ==
  /\ irq.at = "none"
  /\ csr # NoBits
  /\ LET c == [irq EXCEPT !.at = "ack", !.seen = csr]
     IN  irq' = IF csr.rint THEN jlos_softirq_raise(c) ELSE c
  /\ UNCHANGED <<rring, rcur, arrived, csr, got, tring, tcur, sender, sentOut>>

\* The handler writes back the bits it saw, which clears them, also when they
\* were set again meanwhile.
jlos_amd_am79c973_handle_interrupt ==
  /\ irq.at = "ack"
  /\ csr' = [rint |-> csr.rint /\ ~irq.seen.rint, tint |-> csr.tint /\ ~irq.seen.tint]
  /\ irq' = [irq EXCEPT !.at = "exit"]
  /\ UNCHANGED <<rring, rcur, arrived, got, tring, tcur, sender, sentOut>>

\* jlos_softirq_run_pending and jlos_net_rx_action: the pending mask is taken
\* and, with the network bit in it, the scan of the receive ring begins.
jlos_softirq_run_pending ==
  /\ irq.at = "exit"
  /\ irq' = [irq EXCEPT !.raised = FALSE, !.at = IF irq.raised THEN "scan" ELSE "none",
                        !.i = 0, !.start = rcur, !.last = -1]
  /\ UNCHANGED <<rring, rcur, arrived, csr, got, tring, tcur, sender, sentOut>>

Scanned == (irq.start + irq.i) % NicRx

\* One turn of the loop of jlos_amd_am79c973_receive: a descriptor of the card
\* is passed over.
ScanLook ==
  /\ irq.at = "scan" /\ irq.i < NicRx
  /\ irq' = IF rring[Scanned].own = "card" THEN [irq EXCEPT !.i = @ + 1]
            ELSE [irq EXCEPT !.at = "up"]
  /\ UNCHANGED <<rring, rcur, arrived, csr, got, tring, tcur, sender, sentOut>>

\* on_receive reads the buffer.
ScanUp ==
  /\ irq.at = "up"
  /\ got' = Append(got, rring[Scanned].tag)
  /\ irq' = [irq EXCEPT !.at = "back"]
  /\ UNCHANGED <<rring, rcur, arrived, csr, tring, tcur, sender, sentOut>>

\* Fault: the descriptor is kept.
GiveBack_Kept == rring

\* The descriptor goes back to the card.
GiveBack == [rring EXCEPT ![Scanned].own = "card"]

ScanBack ==
  /\ irq.at = "back"
  /\ rring' = GiveBack
  /\ irq' = [irq EXCEPT !.at = "scan", !.i = @ + 1, !.last = irq.i]
  /\ UNCHANGED <<rcur, arrived, csr, got, tring, tcur, sender, sentOut>>

\* Where the next scan starts.
NextReceive == IF irq.last >= 0 THEN (irq.start + irq.last + 1) % NicRx ELSE rcur

ScanEnd ==
  /\ irq.at = "scan" /\ irq.i = NicRx
  /\ rcur' = NextReceive
  /\ irq' = [irq EXCEPT !.at = "none", !.i = 0, !.start = 0, !.last = -1]
  /\ UNCHANGED <<rring, arrived, csr, got, tring, tcur, sender, sentOut>>

-----------------------------------------------------------------------------
(* jlos_amd_am79c973_send, under send_lock.                                  *)

\* The descriptor is taken without a look at its OWN bit.
SendTake ==
  /\ sender.at = "none" /\ sender.n < NicFrames
  /\ sender' = [at |-> "copy", d |-> tcur, n |-> sender.n + 1]
  /\ tcur' = (tcur + 1) % NicTx
  /\ UNCHANGED <<rring, rcur, arrived, csr, irq, got, tring, sentOut>>

\* The bytes go into the buffer, ...
SendCopy ==
  /\ sender.at = "copy"
  /\ tring' = [tring EXCEPT ![sender.d].tag = sender.n]
  /\ sender' = [sender EXCEPT !.at = "own"]
  /\ UNCHANGED <<rring, rcur, arrived, csr, irq, got, tcur, sentOut>>

\* ... then the flags give it to the card, ...
SendOwn ==
  /\ sender.at = "own"
  /\ tring' = [tring EXCEPT ![sender.d].own = "card"]
  /\ sender' = [sender EXCEPT !.at = "wait"]
  /\ UNCHANGED <<rring, rcur, arrived, csr, irq, got, tcur, sentOut>>

\* ... and the send ends when the card has sent it or the polls are used up,
\* which leaves at most NicLag frames with the card.
SendEnd ==
  /\ sender.at = "wait"
  /\ Cardinality({d \in Tx : tring[d].own = "card"}) <= NicLag
  /\ sender' = [sender EXCEPT !.at = "none", !.d = 0]
  /\ UNCHANGED <<rring, rcur, arrived, csr, irq, got, tring, tcur, sentOut>>

-----------------------------------------------------------------------------
IrqSteps == \/ IrqRead \/ jlos_amd_am79c973_handle_interrupt \/ jlos_softirq_run_pending
            \/ ScanLook \/ ScanUp \/ ScanBack \/ ScanEnd

NicNext ==
  \/ CardReceives \/ CardSends
  \/ IrqRead \/ jlos_amd_am79c973_handle_interrupt \/ jlos_softirq_run_pending
  \/ ScanLook \/ ScanUp \/ ScanBack \/ ScanEnd
  \/ SendTake \/ SendCopy \/ SendOwn \/ SendEnd

\* A raised interrupt is taken, and it runs to its end.
NicFairness == WF_nicVars(IrqSteps)

NicSpec == NicInit /\ [][NicNext]_nicVars /\ NicFairness

-----------------------------------------------------------------------------
(* Properties.                                                               *)

\* The driver's places in the two rings stay inside them.
NicTypeOK ==
  /\ rcur \in Rx /\ tcur \in Tx
  /\ csr \in Bits
  /\ irq.i \in 0..NicRx /\ irq.start \in Rx /\ irq.last \in -1..NicRx-1

\* Every frame the card accepted was passed up once, with its own bytes, or is
\* still in a descriptor of the CPU: the scan reads the buffer before it gives
\* the descriptor back and gives back each one it has read.
FramesOnce ==
  LET waiting == {rring[d].tag : d \in {e \in Rx : rring[e].own = "cpu" /\
                                          ~(irq.at = "back" /\ e = Scanned)}}
  IN  /\ IsInjective(got)
      /\ ToSet(got) \cup waiting = 1..arrived
      /\ ToSet(got) \cap waiting = {}

\* The card sends the frames the kernel sent, in that order and unmixed, as
\* long as it is never a whole ring behind: send takes the descriptors in turn
\* without looking at OWN.
SentInOrder == sentOut = [k \in 1..Len(sentOut) |-> k]

\* Every frame the card accepted reaches on_receive: CSR0 is acknowledged
\* before the scan, and the scan covers the ring wherever it starts.
FramesPassedUp == \A k \in 1..NicFrames : []<>(arrived >= k => k \in ToSet(got))
=============================================================================
