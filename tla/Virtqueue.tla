------------------------------ MODULE Virtqueue ------------------------------
(***************************************************************************)
(* The split virtqueue as arch/arm64/virtio_net.c and virtio_blk.c use it:  *)
(* the driver publishes descriptor ids in the available ring, the device    *)
(* returns them in the used ring.  The indices run freely modulo VqMod      *)
(* (2^16); a ring slot is the index modulo the queue's size.  The device's  *)
(* half (DeviceTakes, DeviceReturns) is the virtio standard's, as the       *)
(* drivers rely on it.                                                      *)
(***************************************************************************)
EXTENDS Integers, Sequences

CONSTANTS VqSize, VqMod

EmptyQueue ==
  [avail |-> [i \in 0..VqSize-1 |-> 0], avail_idx |-> 0, seen |-> 0,
   used  |-> [i \in 0..VqSize-1 |-> 0], used_idx |-> 0, last_used |-> 0]

\* Ring slot first, index second: the barrier between them is a wmb.
Publish(q, id) == [q EXCEPT !.avail[q.avail_idx % VqSize] = id,
                            !.avail_idx = (@ + 1) % VqMod]

HasUsed(q)  == q.last_used # q.used_idx
UsedId(q)   == q.used[q.last_used % VqSize]

Consume(q)  == [q EXCEPT !.last_used = (@ + 1) % VqMod]

HasAvail(q)         == q.seen # q.avail_idx
AvailId(q)          == q.avail[q.seen % VqSize]
DeviceReturns(q) == [q EXCEPT !.used[q.used_idx % VqSize] = AvailId(q),
                              !.used_idx = (@ + 1) % VqMod,
                              !.seen = (@ + 1) % VqMod]

\* The ids published and not taken, and returned and not consumed, in order.
Published(q) == [k \in 1..((q.avail_idx - q.seen) % VqMod) |-> q.avail[(q.seen + k - 1) % VqSize]]
Returned(q)  == [k \in 1..((q.used_idx - q.last_used) % VqMod) |-> q.used[(q.last_used + k - 1) % VqSize]]
==============================================================================
