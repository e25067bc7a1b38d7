----------------------------- MODULE BlockDriver -----------------------------
(***************************************************************************)
(* The block layer under the file system: the partition device of           *)
(* fs/partition.c, the dispatch of hal/block.c, and its two drivers, ATA    *)
(* PIO with 28-bit addresses (drivers/ata.c) and virtio-blk                 *)
(* (arch/arm64/virtio_blk.c).  The file system's lock lets one request in   *)
(* at a time; the device is an actor of its own that serves, or refuses, a  *)
(* command after any delay (slow: longer than the driver polls).             *)
(***************************************************************************)
EXTENDS Virtqueue

CONSTANTS BdDriver,   \* drivers: "ata", "virtio"
          BdByte,     \* values of one address register (256)
          BdDisk,     \* sectors of the disk
          BdTable,    \* partition table: a sequence of [id, start, length]
          BdMax,      \* largest request, in sectors
          BdVal,      \* contents of a sector
          BdSlow      \* whether a command may outlast the polling loop: a set

VARIABLES driver,   \* the driver in use
          slow,     \* whether the ATA device may be slower than the polling loop
          disk,     \* the sectors on the medium
          ata,      \* the ATA device: busy, drq, err, command, address, data
          vq,       \* the virtio queue
          vreq,     \* ctx->dma and the data descriptors: the request in memory
          req,      \* the call in progress
          sure      \* per partition sector, the content a reader may rely on

bdVars == <<driver, slow, disk, ata, vq, vreq, req, sure>>

Unknown == 0

\* The nonzero entries of the table, in order.
jlos_partition_parse_mbr == SelectSeq(BdTable, LAMBDA p : p.id # 0)

\* jlos_rootfs_init mounts the first FAT32 partition (id 12).
Part == LET t == jlos_partition_parse_mbr IN
        t[CHOOSE i \in DOMAIN t : t[i].id = 12 /\ \A j \in 1..i-1 : t[j].id # 12]

Lbas == 0..Part.length-1
NoReq == [at |-> "idle", op |-> "none", lba |-> 0, n |-> 0, i |-> 0, buf |-> <<>>,
          doubt |-> FALSE, res |-> 0]
AtaIdle == [busy |-> FALSE, drq |-> FALSE, err |-> FALSE, cmd |-> "none", addr |-> 0, data |-> 0]

BdInit ==
  /\ driver \in BdDriver
  /\ slow \in BdSlow
  /\ disk = [s \in 0..BdDisk-1 |-> Unknown]
  /\ ata = AtaIdle
  /\ vq = EmptyQueue
  /\ vreq = [op |-> "none", sector |-> 0, status |-> 255]
  /\ req = NoReq
  /\ sure = [s \in Lbas |-> Unknown]

------------------------------------------------------------------------------
(* A call of jlos_hal_block_read, _write or _flush on the partition.         *)

\* partition_read_sector, partition_write_sector: no check against its length.
Physical(lba) == Part.start + lba

\* The drivers' range checks (JLOS_ATA28_LBA_MAX; the disk's capacity).
InRange(lba, n) ==
  IF driver = "ata" THEN lba + n - 1 < 16 * BdByte * BdByte * BdByte
  ELSE lba + n <= BdDisk

Call(op, lba, n, v) ==
  /\ req.at = "idle"
  /\ LET p == Physical(lba) IN
     req' = [at |-> IF op = "flush" \/ InRange(p, n) THEN "issue" ELSE "done",
             op |-> op, lba |-> p, n |-> n, i |-> 0,
             buf |-> [k \in 1..n |-> v], doubt |-> FALSE,
             res |-> IF op = "flush" \/ InRange(p, n) THEN 0 ELSE -2]
  \* from here on the sectors of a write hold either value
  /\ sure' = IF op = "write" THEN [s \in Lbas |-> IF s \in lba..lba+n-1 THEN Unknown ELSE sure[s]]
             ELSE sure
  /\ UNCHANGED <<driver, slow, disk, ata, vq, vreq>>

\* The caller takes the result: a write that reported success is relied on.
Return ==
  /\ req.at = "done"
  /\ sure' = IF req.op = "write" /\ req.res = 0 /\ ~req.doubt
             THEN [s \in Lbas |-> IF Physical(s) \in req.lba..req.lba+req.n-1
                                  THEN req.buf[Physical(s) - req.lba + 1] ELSE sure[s]]
             ELSE sure
  /\ req' = NoReq
  /\ UNCHANGED <<driver, slow, disk, ata, vq, vreq>>

------------------------------------------------------------------------------
(* ATA PIO: one command per sector.                                          *)

Sector == req.lba + req.i

\* The address as the registers hold it: three bytes; the four bits that the
\* device register should take are masked with 0xF0000000 and always 0.
AtaAddress(s) ==
  LET low == s % BdByte
      mid == (s \div BdByte) % BdByte
      hi  == (s \div (BdByte * BdByte)) % BdByte
  IN  low + BdByte * mid + BdByte * BdByte * hi

\* Registers and command; a busy device ignores them.
AtaIssue ==
  /\ driver = "ata"
  /\ req.at = "issue"
  /\ ata' = IF ata.busy THEN ata
            ELSE [busy |-> TRUE, drq |-> FALSE, err |-> FALSE, cmd |-> req.op,
                  addr |-> AtaAddress(Sector), data |-> 0]
  /\ req' = [req EXCEPT !.at = "wait"]
  /\ UNCHANGED <<driver, slow, disk, vq, vreq, sure>>

\* The device: data or a request for data, an error, the end of a flush.
AtaServes ==
  /\ ata.busy
  /\ ata.cmd # "commit"
  /\ \/ ata' = [ata EXCEPT !.busy = FALSE, !.err = TRUE]
     \/ /\ ata.cmd = "flush"
        /\ ata' = AtaIdle
     \/ /\ ata.cmd = "read"
        /\ ata' = [ata EXCEPT !.busy = FALSE, !.drq = TRUE, !.data = disk[ata.addr]]
     \/ /\ ata.cmd = "write"
        /\ ata' = [ata EXCEPT !.busy = FALSE, !.drq = TRUE]
  /\ UNCHANGED <<driver, slow, disk, vq, vreq, req, sure>>

AtaCommits ==
  /\ ata.busy
  /\ ata.cmd = "commit"
  /\ \/ /\ ata' = AtaIdle
        /\ disk' = [disk EXCEPT ![ata.addr] = ata.data]
     \/ /\ ata' = [AtaIdle EXCEPT !.err = TRUE]
        /\ UNCHANGED disk
  /\ UNCHANGED <<driver, slow, vq, vreq, req, sure>>

\* The next sector of the request, or its end.
NextSector(r) == IF r.i + 1 < r.n THEN [r EXCEPT !.at = "issue", !.i = @ + 1]
                 ELSE [r EXCEPT !.at = "done"]

\* The polling loop of jlos_ata_read28 ends: error, data.
jlos_ata_read28 ==
  /\ driver = "ata"
  /\ req.at = "wait"
  /\ req.op = "read"
  /\ ~ata.busy
  /\ ata.err \/ ata.drq
  /\ req' = IF ata.err THEN [req EXCEPT !.at = "done", !.res = -1]
            ELSE NextSector([req EXCEPT !.buf[req.i + 1] = ata.data])
  /\ ata' = AtaIdle
  /\ UNCHANGED <<driver, slow, disk, vq, vreq, sure>>

\* jlos_ata_write28 returns nothing: an error ends this sector silently.
jlos_ata_write28 ==
  /\ driver = "ata"
  /\ req.at = "wait"
  /\ req.op = "write"
  /\ ~ata.busy
  /\ \/ /\ ata.err
        /\ req' = NextSector([req EXCEPT !.doubt = TRUE])
        /\ ata' = AtaIdle
     \/ /\ ata.drq
        /\ req' = [req EXCEPT !.at = "commit"]
        /\ ata' = IF ata.cmd # "write" THEN AtaIdle    \* not waiting for data
                  ELSE [ata EXCEPT !.busy = TRUE, !.drq = FALSE, !.cmd = "commit",
                                   !.data = req.buf[req.i + 1]]
  /\ UNCHANGED <<driver, slow, disk, vq, vreq, sure>>

AtaWritten ==
  /\ req.at = "commit"
  /\ ~ata.busy
  /\ req' = NextSector([req EXCEPT !.doubt = @ \/ ata.err])
  /\ ata' = AtaIdle
  /\ UNCHANGED <<driver, slow, disk, vq, vreq, sure>>

jlos_ata_flush ==
  /\ driver = "ata"
  /\ req.at = "wait"
  /\ req.op = "flush"
  /\ ~ata.busy
  /\ req' = [req EXCEPT !.at = "done"]
  /\ ata' = AtaIdle
  /\ UNCHANGED <<driver, slow, disk, vq, vreq, sure>>

\* JLOS_ATA_POLL_TIMEOUT polls found the device busy, or without data.
AtaTimeout ==
  /\ slow /\ driver = "ata"
  /\ \/ ata.busy /\ req.at \in {"wait", "commit"}
     \/ ~ata.busy /\ ~ata.err /\ ~ata.drq /\ req.at = "wait" /\ req.op # "flush"
  /\ req' = IF req.op = "read" THEN [req EXCEPT !.at = "done", !.res = -1]
            ELSE IF req.op = "write" THEN NextSector([req EXCEPT !.doubt = TRUE])
            ELSE [req EXCEPT !.at = "done"]
  /\ UNCHANGED <<driver, slow, disk, ata, vq, vreq, sure>>

------------------------------------------------------------------------------
(* virtio-blk: one request for all the sectors.                              *)

\* virtio_blk_transfer up to the notification; a buffer without a physical
\* address ends it before anything is published.
VblkSubmit ==
  /\ driver = "virtio"
  /\ req.at = "issue"
  /\ vreq' = [op |-> req.op, sector |-> req.lba, status |-> 255]
  /\ \/ /\ vq' = Publish(vq, 0)
        /\ req' = [req EXCEPT !.at = "wait"]
     \/ /\ req' = [req EXCEPT !.at = "done", !.res = -1]
        /\ UNCHANGED vq
  /\ UNCHANGED <<driver, slow, disk, ata, sure>>

\* The device moves the data and writes the status byte.
VblkServes ==
  /\ HasAvail(vq)
  /\ vq' = DeviceReturns(vq)
  /\ LET sectors == vreq.sector..vreq.sector + req.n - 1 IN
     \/ /\ vreq' = [vreq EXCEPT !.status = 1]
        /\ UNCHANGED <<disk, req>>
     \/ /\ vreq' = [vreq EXCEPT !.status = 0]
        /\ disk' = IF vreq.op # "write" THEN disk
                   ELSE [s \in DOMAIN disk |-> IF s \in sectors THEN req.buf[s - vreq.sector + 1]
                                               ELSE disk[s]]
        /\ req' = IF vreq.op # "read" THEN req
                  ELSE [req EXCEPT !.buf = [k \in 1..req.n |-> disk[vreq.sector + k - 1]]]
  /\ UNCHANGED <<driver, slow, ata, sure>>

\* Fault: the status byte is not looked at.
VblkDone_StatusIgnored ==
  /\ driver = "virtio"
  /\ req.at = "wait"
  /\ HasUsed(vq)
  /\ vq' = Consume(vq)
  /\ req' = [req EXCEPT !.at = "done"]
  /\ UNCHANGED <<driver, slow, disk, ata, vreq, sure>>

\* The spin on the used index ends; there is no timeout.
VblkDone ==
  /\ driver = "virtio"
  /\ req.at = "wait"
  /\ HasUsed(vq)
  /\ vq' = Consume(vq)
  /\ req' = [req EXCEPT !.at = "done", !.res = IF vreq.status = 0 THEN 0 ELSE -1]
  /\ UNCHANGED <<driver, slow, disk, ata, vreq, sure>>

------------------------------------------------------------------------------
Driven ==
  \/ AtaIssue \/ jlos_ata_read28 \/ jlos_ata_write28 \/ AtaWritten \/ jlos_ata_flush
  \/ VblkSubmit \/ VblkDone \/ Return

BdNext ==
  \/ \E op \in {"read", "write"}, lba \in Lbas, n \in 1..BdMax, v \in BdVal :
       /\ lba + n <= Part.length
       /\ op = "read" => \A w \in BdVal : v <= w   \* a read's buffer is overwritten
       /\ Call(op, lba, n, v)
  \/ Call("flush", 0, 1, Unknown)
  \/ AtaIssue \/ AtaServes \/ AtaCommits
  \/ jlos_ata_read28 \/ jlos_ata_write28 \/ AtaWritten \/ jlos_ata_flush \/ AtaTimeout
  \/ VblkSubmit \/ VblkServes \/ VblkDone
  \/ Return

\* The device ends what it began and the driver's thread goes on.
BdFairness == /\ WF_bdVars(AtaServes) /\ WF_bdVars(AtaCommits) /\ WF_bdVars(VblkServes)
              /\ WF_bdVars(Driven)
              /\ WF_bdVars(AtaTimeout)

BdSpec == BdInit /\ [][BdNext]_bdVars /\ BdFairness

------------------------------------------------------------------------------
(* Properties.                                                               *)

\* The call in progress and the device keep their shape.
BdTypeOK ==
  /\ req.at \in {"idle", "issue", "wait", "commit", "done"}
  /\ req.i \in 0..BdMax-1
  /\ vreq.status \in {0, 1, 255}

\* A read that reports success returns, for every sector, what the last write
\* that reported success (and met no ATA error) put there: partition offset,
\* address registers, multi-sector loops, completion and status agree.
\* (A device slower than the polling loop breaks this: its late answer is
\* taken for the next command's.)
ReadBack ==
  (~slow /\ req.at = "done" /\ req.op = "read" /\ req.res = 0) =>
     \A s \in Lbas : (Physical(s) \in req.lba..req.lba+req.n-1 /\ sure[s] # Unknown)
        => req.buf[Physical(s) - req.lba + 1] = sure[s]

\* Nothing outside the partition is ever written.
OutsideUntouched == \A s \in DOMAIN disk : (s - Part.start \notin Lbas) => disk[s] = Unknown

\* Every call returns.
CallReturns == []<>(req.at = "idle")
==============================================================================
