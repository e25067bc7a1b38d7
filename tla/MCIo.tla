-------------------------------- MODULE MCIo --------------------------------
(***************************************************************************)
(* The network stack and the device drivers, in one run: the behaviours of *)
(* each component are explored on their own, with the others at rest.      *)
(***************************************************************************)
EXTENDS Integers

CONSTANTS
    TcLinks, TcMod, TcFlight, NtLinks, NtServers, NtNames, NtIds, NtPorts,
    NtCache, NtFlight, VqSize, VqMod, VnSenders, VnTx, VnTag, BdDriver,
    BdByte, BdDisk, BdMax, BdVal, BdSlow, NicRx, NicTx, NicFrames, NicLag

VARIABLES
    part, \* the component whose behaviours are explored, fixed
    link, sock, wire, sent, got, broken, ntLink, host, air, asked, told, rx,
    tx, rxbuf, txbuf, in_use, intr, cpu, rq, tq, flip, driver, slow, disk,
    ata, vq, vreq, req, sure, rring, rcur, arrived, csr, irq, nic_got, tring,
    tcur, sender, sentOut

MCSends == [client |-> 2, server |-> 1]

\* An empty entry, a partition of another system, and the one to be mounted.
MCTable == << [id |-> 0, start |-> 0, length |-> 0], [id |-> 131, start |-> 1, length |-> 1],
              [id |-> 12, start |-> 3, length |-> 2] >>

Tcp == INSTANCE Tcp WITH
    TcSends <- MCSends
Net == INSTANCE NetStack
Vn == INSTANCE VirtioNet
Block == INSTANCE BlockDriver WITH
    VqSize <- 4, VqMod <- 4, BdTable <- MCTable
Nic == INSTANCE Nic WITH
    got <- nic_got

tcpVars == <<link, sock, wire, sent, got, broken>>
netVars == <<ntLink, host, air, asked, told>>
virtio_netVars == <<rx, tx, rxbuf, txbuf, in_use, intr, cpu, rq, tq, flip>>
blockVars == <<driver, slow, disk, ata, vq, vreq, req, sure>>
nicVars == <<rring, rcur, arrived, csr, irq, nic_got, tring, tcur, sender, sentOut>>
allVars == <<
    part, tcpVars, netVars, virtio_netVars, blockVars, nicVars>>

\* The components that are not explored keep their initial state.
MCInit ==
    /\ part \in {"tcp", "net", "virtio_net", "block", "nic"}
    /\ Tcp!TcInit /\ (part # "tcp" => link = "fifo")
    /\ Net!NtInit /\ (part # "net" => ntLink = "faulty")
    /\ Vn!VnInit
    /\ Block!BdInit /\ (part # "block" => driver = "ata" /\ slow)
    /\ Nic!NicInit

\* A step of one component.
tcpStep ==
    part = "tcp" /\ UNCHANGED <<part, netVars, virtio_netVars, blockVars, nicVars>>
netStep ==
    part = "net" /\ UNCHANGED <<part, tcpVars, virtio_netVars, blockVars, nicVars>>
virtio_netStep ==
    part = "virtio_net" /\ UNCHANGED <<part, tcpVars, netVars, blockVars, nicVars>>
blockStep ==
    part = "block" /\ UNCHANGED <<part, tcpVars, netVars, virtio_netVars, nicVars>>
nicStep ==
    part = "nic" /\ UNCHANGED <<part, tcpVars, netVars, virtio_netVars, blockVars>>

MCNext ==
    \/ tcpStep /\ Tcp!TcNext
    \/ netStep /\ Net!NtNext
    \/ virtio_netStep /\ Vn!VnNext
    \/ blockStep /\ Block!BdNext
    \/ nicStep /\ Nic!NicNext

\* part never changes: each conjunct is a fairness condition of the component
\* that is explored.
MCFairness ==
    /\ WF_allVars(\/ tcpStep /\ Tcp!Receive("client")
                  \/ netStep /\ Net!jlos_dhcp_client_discover
                  \/ virtio_netStep /\ Vn!DeviceSends
                  \/ blockStep /\ Block!AtaServes
                  \/ nicStep /\ Nic!IrqSteps)
    /\ WF_allVars(\/ tcpStep /\ Tcp!Receive("server")
                  \/ netStep /\ Net!Receive
                  \/ virtio_netStep /\ Vn!virtio_net_handle_irq
                  \/ blockStep /\ Block!AtaCommits)
    /\ WF_allVars(\/ tcpStep /\ Tcp!Closes("client")
                  \/ netStep /\ Net!Answer
                  \/ virtio_netStep /\ Vn!RxStep
                  \/ blockStep /\ Block!VblkServes)
    /\ WF_allVars(\/ tcpStep /\ Tcp!Closes("server")
                  \/ virtio_netStep /\ Vn!Driver(0)
                  \/ blockStep /\ Block!Driven)
    /\ WF_allVars(blockStep /\ Block!AtaTimeout)

MCSpec == MCInit /\ [][MCNext]_allVars /\ MCFairness

-----------------------------------------------------------------------------
\* What TCP delivers is a prefix of what was sent, whatever the link loses,
\* repeats or reorders, and what is acknowledged was taken.
StreamSound ==
    part = "tcp" =>
        /\ Tcp!TcTypeOK /\ Tcp!StreamPrefix
        /\ Tcp!AckedWasTaken

-----------------------------------------------------------------------------
\* Every packet buffer is freed once, packets go where the route says, DHCP
\* takes only an address that is leased to it, and a DNS lookup returns the
\* answer to its own question.
NetSound ==
    part = "net" =>
        /\ Net!NtTypeOK /\ Net!SkbsFreed
        /\ Net!SentToRoute /\ Net!AddressLeased
        /\ Net!DnsAnswersOwn

-----------------------------------------------------------------------------
\* Frames pass the virtio rings unchanged and once, and no buffer is lost or
\* in two places.
RingsIntact ==
    part = "virtio_net" =>
        /\ Vn!VnTypeOK /\ Vn!RxIntact
        /\ Vn!TxIntact /\ Vn!BuffersKept

-----------------------------------------------------------------------------
\* A block read returns what was last written there, and a request touches no
\* sector outside the partition or the range asked for.
SectorsKept ==
    part = "block" =>
        /\ Block!BdTypeOK /\ Block!OutsideUntouched
        /\ Block!ReadBack

-----------------------------------------------------------------------------
\* The Am79C973 driver passes every received frame up once, in order, and the
\* card sends the frames in the order of the calls.
NicSound ==
    part = "nic" =>
        /\ Nic!NicTypeOK /\ Nic!FramesOnce
        /\ Nic!SentInOrder

-----------------------------------------------------------------------------
\* Input and output complete: both ends of a connection close, DHCP settles,
\* received frames are passed up, and block calls return.
IoCompletes ==
    /\ Tcp!CloseCompletes
    /\ Net!DhcpSettles
    /\ Vn!RxPassedUp /\ Nic!FramesPassedUp
    /\ Block!CallReturns
=============================================================================
