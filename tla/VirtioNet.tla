------------------------------ MODULE VirtioNet ------------------------------
(***************************************************************************)
(* The virtio network driver, arch/arm64/virtio_net.c.  CPU 0 takes the     *)
(* device's interrupt; the CPUs of VnSenders call virtio_net_dev_send with  *)
(* interrupts off (from a system call), and a protocol handler called by    *)
(* the receive loop may send from inside the interrupt.  The driver has no  *)
(* lock.  The device is an actor of its own.                                *)
(***************************************************************************)
EXTENDS Virtqueue

CONSTANTS VnSenders,  \* CPUs that send
          VnTx,       \* JLOS_VIRTIO_NET_TX_BUFFERS
          VnTag       \* contents of a frame

VARIABLES rx, tx,     \* the two queues
          rxbuf,      \* content of each receive buffer
          txbuf,      \* content of each transmit buffer
          in_use,     \* ctx->tx_in_use
          intr,       \* interrupt pending
          cpu,        \* per CPU: where it is, buffer picked, frame, return point
          rq, tq,     \* frames the device gave / was given and not yet handled
          flip        \* changes with every frame passed to the stack

vnVars == <<rx, tx, rxbuf, txbuf, in_use, intr, cpu, rq, tq, flip>>

Cpus == VnSenders \cup {0}
RxId == 0..VqSize-1
TxId == 0..VnTx-1
Idle == [at |-> "idle", id |-> 0, tag |-> 0, ret |-> "idle"]

\* virtio_net_rx_fill publishes every receive buffer.
virtio_net_rx_fill ==
  [EmptyQueue EXCEPT !.avail = [i \in RxId |-> i], !.avail_idx = VqSize % VqMod]

VnInit ==
  /\ rx = virtio_net_rx_fill
  /\ tx = EmptyQueue
  /\ rxbuf = [i \in RxId |-> 0]
  /\ txbuf = [i \in TxId |-> 0]
  /\ in_use = [i \in TxId |-> FALSE]
  /\ intr = FALSE
  /\ cpu = [c \in Cpus |-> Idle]
  /\ rq = <<>> /\ tq = <<>>
  /\ flip = FALSE

At(c, s) == cpu[c].at = s
Goto(c, s) == cpu' = [cpu EXCEPT ![c].at = s]

------------------------------------------------------------------------------
(* The device.                                                               *)

DeviceReceives(v) ==
  /\ HasAvail(rx)
  /\ rxbuf' = [rxbuf EXCEPT ![AvailId(rx)] = v]
  /\ rx' = DeviceReturns(rx)
  /\ rq' = Append(rq, v)
  /\ intr' = TRUE
  /\ UNCHANGED <<tx, txbuf, in_use, cpu, tq, flip>>

\* (The content of a buffer is forgotten once it has been read.)
DeviceSends ==
  /\ HasAvail(tx)
  /\ txbuf' = [txbuf EXCEPT ![AvailId(tx)] = 0]
  /\ tx' = DeviceReturns(tx)
  /\ tq' = Tail(tq)
  /\ intr' = TRUE
  /\ UNCHANGED <<rx, rxbuf, in_use, cpu, rq, flip>>

------------------------------------------------------------------------------
(* virtio_net_handle_irq: acknowledge, reclaim, receive.                     *)

virtio_net_handle_irq ==
  /\ intr
  /\ At(0, "idle")
  /\ intr' = FALSE
  /\ Goto(0, "irq_reclaim")
  /\ UNCHANGED <<rx, tx, rxbuf, txbuf, in_use, rq, tq, flip>>

\* Fault: every transmit buffer counts as free.
virtio_net_tx_reclaim_AllFree(c) ==
  /\ cpu[c].at \in {"irq_reclaim", "tx_reclaim"}
  /\ HasUsed(tx)
  /\ in_use' = [i \in TxId |-> FALSE]
  /\ tx' = Consume(tx)
  /\ UNCHANGED <<rx, rxbuf, txbuf, intr, cpu, rq, tq, flip>>

\* One turn of virtio_net_tx_reclaim's loop, entered from the interrupt and
\* from a send.
virtio_net_tx_reclaim(c) ==
  /\ cpu[c].at \in {"irq_reclaim", "tx_reclaim"}
  /\ HasUsed(tx)
  /\ in_use' = [in_use EXCEPT ![UsedId(tx)] = FALSE]
  /\ tx' = Consume(tx)
  /\ UNCHANGED <<rx, rxbuf, txbuf, intr, cpu, rq, tq, flip>>

ReclaimEnd(c) ==
  /\ cpu[c].at \in {"irq_reclaim", "tx_reclaim"}
  /\ ~HasUsed(tx)
  /\ Goto(c, IF At(c, "irq_reclaim") THEN "rx" ELSE "tx_pick")
  /\ UNCHANGED <<rx, tx, rxbuf, txbuf, in_use, intr, rq, tq, flip>>

\* virtio_net_rx_poll: the frame goes up, and its handler may send a reply.
RxUp ==
  /\ At(0, "rx")
  /\ HasUsed(rx)
  /\ rxbuf' = [rxbuf EXCEPT ![UsedId(rx)] = 0]
  /\ rq' = Tail(rq)
  /\ flip' = ~flip
  /\ \/ cpu' = [cpu EXCEPT ![0].at = "rx_post"]
     \/ \E v \in VnTag :
          cpu' = [cpu EXCEPT ![0] = [at |-> "tx_reclaim", id |-> 0, tag |-> v, ret |-> "rx_post"]]
  /\ UNCHANGED <<rx, tx, txbuf, in_use, intr, tq>>

\* The buffer is published again before the used entry is consumed.
virtio_net_rx_post(c) ==
  /\ At(c, "rx_post")
  /\ rx' = Publish(rx, UsedId(rx))
  /\ Goto(c, "rx_next")
  /\ UNCHANGED <<tx, rxbuf, txbuf, in_use, intr, rq, tq, flip>>

RxNext ==
  /\ At(0, "rx_next")
  /\ rx' = Consume(rx)
  /\ Goto(0, "rx")
  /\ UNCHANGED <<tx, rxbuf, txbuf, in_use, intr, rq, tq, flip>>

RxEnd ==
  /\ At(0, "rx")
  /\ ~HasUsed(rx)
  /\ Goto(0, "idle")
  /\ UNCHANGED <<rx, tx, rxbuf, txbuf, in_use, intr, rq, tq, flip>>

------------------------------------------------------------------------------
(* virtio_net_dev_send.                                                      *)

\* A pending interrupt is taken before CPU 0 enters another send.
SendBegin(c, v) ==
  /\ At(c, "idle")
  /\ c = 0 => ~intr
  /\ cpu' = [cpu EXCEPT ![c] = [at |-> "tx_reclaim", id |-> 0, tag |-> v, ret |-> "idle"]]
  /\ UNCHANGED <<rx, tx, rxbuf, txbuf, in_use, intr, rq, tq, flip>>

\* The first free buffer; without one the frame is dropped.
SendPick(c) ==
  /\ At(c, "tx_pick")
  /\ LET free == {i \in TxId : ~in_use[i]} IN
     IF free = {} THEN cpu' = [cpu EXCEPT ![c] = [Idle EXCEPT !.at = cpu[c].ret]]
     ELSE LET i == CHOOSE i \in free : \A j \in free : i <= j IN
          cpu' = [cpu EXCEPT ![c].at = "tx_fill", ![c].id = i]
  /\ UNCHANGED <<rx, tx, rxbuf, txbuf, in_use, intr, rq, tq, flip>>

SendFill(c) ==
  /\ At(c, "tx_fill")
  /\ txbuf' = [txbuf EXCEPT ![cpu[c].id] = cpu[c].tag]
  /\ in_use' = [in_use EXCEPT ![cpu[c].id] = TRUE]
  /\ Goto(c, "tx_publish")
  /\ UNCHANGED <<rx, tx, rxbuf, intr, rq, tq, flip>>

SendPublish(c) ==
  /\ At(c, "tx_publish")
  /\ tx' = Publish(tx, cpu[c].id)
  /\ tq' = Append(tq, cpu[c].tag)
  /\ cpu' = [cpu EXCEPT ![c] = [Idle EXCEPT !.at = cpu[c].ret]]
  /\ UNCHANGED <<rx, rxbuf, txbuf, in_use, intr, rq, flip>>

------------------------------------------------------------------------------
Driver(c) ==
  \/ virtio_net_tx_reclaim(c) \/ ReclaimEnd(c)
  \/ virtio_net_rx_post(c)
  \/ SendPick(c) \/ SendFill(c) \/ SendPublish(c)

RxStep == RxUp \/ RxNext \/ RxEnd

VnNext ==
  \/ \E v \in VnTag : DeviceReceives(v)
  \/ DeviceSends
  \/ virtio_net_handle_irq
  \/ RxStep
  \/ \E c \in VnSenders, v \in VnTag : SendBegin(c, v)
  \/ \E c \in Cpus : virtio_net_tx_reclaim(c)
  \/ \E c \in Cpus : ReclaimEnd(c)
  \/ \E c \in Cpus : virtio_net_rx_post(c)
  \/ \E c \in Cpus : SendPick(c)
  \/ \E c \in Cpus : SendFill(c)
  \/ \E c \in Cpus : SendPublish(c)

\* The device works, a CPU inside the driver goes on, an interrupt is taken.
VnFairness ==
  /\ WF_vnVars(DeviceSends)
  /\ WF_vnVars(virtio_net_handle_irq)
  /\ WF_vnVars(RxStep)
  /\ \A c \in Cpus : WF_vnVars(Driver(c))

VnSpec == VnInit /\ [][VnNext]_vnVars /\ VnFairness

------------------------------------------------------------------------------
(* Properties.                                                               *)

\* The free-running indices stay 16-bit values.
VnTypeOK ==
  /\ rx.last_used \in 0..VqMod-1 /\ tx.last_used \in 0..VqMod-1
  /\ in_use \in [TxId -> BOOLEAN]

\* The frames waiting in the used ring are those the device wrote, in order:
\* no receive buffer is given back to the device while its frame is unread.
RxIntact ==
  (cpu[0].at \in {"idle", "irq_reclaim", "rx"}) =>
     [k \in DOMAIN Returned(rx) |-> rxbuf[Returned(rx)[k]]] = rq

\* A transmit buffer keeps its frame until the device has sent it.
TxIntact == [k \in DOMAIN Published(tx) |-> txbuf[Published(tx)[k]]] = tq

\* No buffer is lost: outside the driver every receive buffer is with the
\* device or waiting, once, and a transmit buffer marked in use is on its way.
BuffersKept ==
  (\A c \in Cpus : At(c, "idle")) =>
     LET where == Published(rx) \o Returned(rx) IN
     /\ Len(where) = VqSize
     /\ \A i \in RxId : \E k \in DOMAIN where : where[k] = i
     /\ \A i \in TxId : in_use[i] <=>
          \E k \in DOMAIN (Published(tx) \o Returned(tx)) : (Published(tx) \o Returned(tx))[k] = i

\* A frame the device has delivered reaches the stack: none is stranded by
\* an interrupt acknowledged too early or too late.
RxPassedUp == \A b \in BOOLEAN : []<>(rq = <<>> \/ flip # b)
==============================================================================
