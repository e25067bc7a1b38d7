-------------------------------- MODULE Tcp --------------------------------
(***************************************************************************)
(* One connection between two hosts that run this TCP: the socket state    *)
(* machine, sequence numbers modulo 2^w, the handler that is called from   *)
(* the receive path and may send or disconnect there.  There are no timers *)
(* and nothing is retransmitted.                                           *)
(*                                                                         *)
(* net/tcp.c.  A segment carries at most one chunk of data; chunks are     *)
(* numbered in the order in which the application hands them to send.      *)
(***************************************************************************)
EXTENDS Integers, SequencesExt

CONSTANTS
    TcLinks,     \* subset of {"fifo", "faulty"}
    TcMod,       \* sequence numbers are 0 .. TcMod - 1
    TcSends,     \* per end: the chunks it sends
    TcFlight     \* segments for one end that a faulty link holds; it loses the others

End == {"client", "server"}
Peer(e) == IF e = "client" THEN "server" ELSE "client"
ISN == TcMod - 2                    \* stands for 0xbeefcafe

Plus(a, n) == (a + n) % TcMod
State == {"CLOSED", "LISTEN", "SYN_SENT", "SYN_RECEIVED", "ESTABLISHED", "FIN_WAIT1",
          "FIN_WAIT2", "CLOSING", "TIME_WAIT", "CLOSE_WAIT", "LAST_ACK"}
Kind == {"SYN", "SYN_ACK", "ACK", "FIN_ACK", "RST"}     \* PSH is not looked at

VARIABLES
    link,      \* how the network behaves
    sock,      \* per end [state, seq, ack, known]: the remote address is known
    wire,      \* per end: the segments under way to it, a queue on a link that
               \* keeps them in order; otherwise those sent and not lost, each
               \* delivered at any time, repeatedly or never
    sent,      \* per end: chunks sent
    got,       \* per end: the chunks handed to the handler
    broken     \* data met a socket that had sent its FIN, or a reset went out

tcVars == <<link, sock, wire, sent, got, broken>>

\* The fields that no receiver reads are left out: both numbers of a reset, the
\* acknowledgement of a SYN and of a FIN.
Segment(sk, kind, data) ==
    [kind |-> kind, data |-> data, seq |-> IF kind = "RST" THEN 0 ELSE sk.seq,
     ackno |-> IF kind \in {"ACK", "SYN_ACK"} THEN sk.ack ELSE 0]
Size(m) == IF m.data = 0 THEN 0 ELSE 1

Put(w, out) ==
    IF link = "fifo" THEN w \o out
    ELSE IF Cardinality(w \cup ToSet(out)) <= TcFlight THEN w \cup ToSet(out) ELSE w
Ready(w) == IF link = "faulty" THEN w ELSE IF w = <<>> THEN {} ELSE {Head(w)}
Rest(w) == IF link = "faulty" THEN w ELSE Tail(w)

TcInit ==
    /\ link \in TcLinks
    /\ sock = [e \in End |-> [state |-> "CLOSED", seq |-> 0, ack |-> 0, known |-> FALSE]]
    /\ wire = [e \in End |-> IF link = "fifo" THEN <<>> ELSE {}] /\ sent = [e \in End |-> 0] /\ got = [e \in End |-> <<>>]
    /\ broken = FALSE
---------------------------------------------------------------------------
(* The calls of the application                                            *)

\* What e's socket becomes, the segments it emits and the chunks it used.
Step(sk, out, used) == [sk |-> sk, out |-> out, used |-> used]

jlos_tcp_provider_send(sk, kind, data) ==
    Step([sk EXCEPT !.seq = Plus(@, IF data = 0 THEN 0 ELSE 1)], <<Segment(sk, kind, data)>>,
         IF data = 0 THEN 0 ELSE 1)

jlos_tcp_socket_send(e, sk) ==
    IF sk.state # "ESTABLISHED" \/ sent[e] = TcSends[e] THEN Step(sk, <<>>, 0)
    ELSE jlos_tcp_provider_send(sk, "ACK", sent[e] + 1)

jlos_tcp_provider_disconnect(sk) ==
    IF sk.state \notin {"ESTABLISHED", "CLOSE_WAIT"} THEN Step(sk, <<>>, 0)
    ELSE Step([sk EXCEPT !.state = IF @ = "ESTABLISHED" THEN "FIN_WAIT1" ELSE "LAST_ACK",
                         !.seq = Plus(@, 1)],
              <<Segment(sk, "FIN_ACK", 0)>>, 0)

Apply(e, r) ==
    /\ sock' = [sock EXCEPT ![e] = r.sk] /\ sent' = [sent EXCEPT ![e] = @ + r.used]
    /\ wire' = [wire EXCEPT ![Peer(e)] = Put(@, r.out)]
    /\ UNCHANGED <<link, got, broken>>

jlos_tcp_provider_listen ==
    /\ sock["server"].state = "CLOSED" /\ ~sock["server"].known
    /\ Apply("server", Step([sock["server"] EXCEPT !.state = "LISTEN"], <<>>, 0))

jlos_tcp_provider_connect ==
    /\ sock["client"].state = "CLOSED" /\ ~sock["client"].known
    /\ sock["server"].state = "LISTEN"
    /\ LET sk == [state |-> "SYN_SENT", seq |-> ISN, ack |-> 0, known |-> TRUE]
       IN  Apply("client", jlos_tcp_provider_send(sk, "SYN", 0))

Send(e) ==
    LET r == jlos_tcp_socket_send(e, sock[e]) IN r.used = 1 /\ Apply(e, r)

Disconnect(e) ==
    LET r == jlos_tcp_provider_disconnect(sock[e]) IN r.out # <<>> /\ Apply(e, r)
---------------------------------------------------------------------------
(* The receive path                                                        *)

tcp_match_socket(sk, m) ==
    /\ sk.state # "CLOSED"
    /\ sk.known \/ (sk.state = "LISTEN" /\ m.kind = "SYN")

Reset(sk) == Step(sk, <<Segment(sk, "RST", 0)>>, 0)

OnSyn(sk, m) ==
    CASE sk.state = "LISTEN" ->
           LET s == [state |-> "SYN_RECEIVED", seq |-> ISN, ack |-> Plus(m.seq, 1), known |-> TRUE]
           IN  jlos_tcp_provider_send(s, "SYN_ACK", 0)
      [] sk.state = "SYN_RECEIVED" -> jlos_tcp_provider_send(sk, "SYN_ACK", 0)
      [] OTHER -> Reset(sk)

OnSynAck(sk, m) ==
    IF sk.state # "SYN_SENT" THEN Reset(sk)
    ELSE jlos_tcp_provider_send([sk EXCEPT !.state = "ESTABLISHED", !.ack = Plus(m.seq, 1),
                                           !.seq = m.ackno], "ACK", 0)

OnFin(sk0, m) ==
    LET sk == [sk0 EXCEPT !.ack = Plus(m.seq, 1)]
    IN  CASE sk.state = "ESTABLISHED" ->
               jlos_tcp_provider_send([sk EXCEPT !.state = "CLOSE_WAIT"], "ACK", 0)
          [] sk.state \in {"CLOSE_WAIT", "LAST_ACK"} -> jlos_tcp_provider_send(sk, "ACK", 0)
          [] sk.state \in {"FIN_WAIT1", "FIN_WAIT2"} ->
               jlos_tcp_provider_send([sk EXCEPT !.state = "TIME_WAIT"], "ACK", 0)
          [] OTHER -> Reset(sk)

\* What the handler does with a segment: take it, refuse it, answer it, or
\* answer and disconnect as the HTTP server of net/tests does.
HandlerResult == {"take", "refuse", "answer", "answerAndClose"}

jlos_tcp_socket_handle_tcp_message(e, sk, h) ==
    LET a == IF h \in {"answer", "answerAndClose"} THEN jlos_tcp_socket_send(e, sk)
             ELSE Step(sk, <<>>, 0)
        c == IF h = "answerAndClose" THEN jlos_tcp_provider_disconnect(a.sk) ELSE Step(a.sk, <<>>, 0)
    IN  Step(c.sk, a.out \o c.out, a.used)

\* Fault: the sequence number of the payload is not compared.
Payload_AnySeq(e, sk, m, h) ==
    LET r == jlos_tcp_socket_handle_tcp_message(e, sk, h)
        done == [r.sk EXCEPT !.ack = Plus(@, Size(m))]
    IN  IF h = "refuse" THEN Reset(sk)
        ELSE Step(done, r.out \o <<Segment(done, "ACK", 0)>>, r.used)

\* A payload that is not the next one, or is refused, is answered by a reset.
Payload(e, sk, m, h) ==
    LET r == jlos_tcp_socket_handle_tcp_message(e, sk, h)
        done == [r.sk EXCEPT !.ack = Plus(@, Size(m))]
    IN  IF m.seq # sk.ack \/ h = "refuse" THEN Reset(sk)
        ELSE Step(done, r.out \o <<Segment(done, "ACK", 0)>>, r.used)

\* Fault: an acknowledgement does not end LAST_ACK.
OnAck_LastAckStays(e, sk, m, h) ==
    CASE sk.state = "SYN_RECEIVED" -> Step([sk EXCEPT !.state = "ESTABLISHED", !.seq = m.ackno], <<>>, 0)
      [] sk.state = "FIN_WAIT1" -> Step([sk EXCEPT !.state = "FIN_WAIT2"], <<>>, 0)
      [] sk.state = "CLOSING" -> Step([sk EXCEPT !.state = "TIME_WAIT"], <<>>, 0)
      [] sk.state = "LAST_ACK" -> Step(sk, <<>>, 0)
      [] OTHER -> Payload(e, sk, m, h)

OnAck(e, sk, m, h) ==
    CASE sk.state = "SYN_RECEIVED" -> Step([sk EXCEPT !.state = "ESTABLISHED", !.seq = m.ackno], <<>>, 0)
      [] sk.state = "FIN_WAIT1" -> Step([sk EXCEPT !.state = "FIN_WAIT2"], <<>>, 0)
      [] sk.state = "CLOSING" -> Step([sk EXCEPT !.state = "TIME_WAIT"], <<>>, 0)
      [] sk.state = "LAST_ACK" -> Step([sk EXCEPT !.state = "CLOSED"], <<>>, 0)
      [] OTHER -> Payload(e, sk, m, h)

\* The handler is called, and with what it accepts the stream advances.
Handled(sk, m) ==
    /\ tcp_match_socket(sk, m) /\ m.kind = "ACK" /\ m.seq = sk.ack
    /\ sk.state \notin {"SYN_RECEIVED", "FIN_WAIT1", "CLOSING", "LAST_ACK"}

jlos_tcp_provider_on_internet_protocol_received(e, m, h) ==
    LET sk == sock[e]
        r == CASE ~tcp_match_socket(sk, m) -> Step(sk, <<>>, 0)
               [] m.kind = "RST" -> Step([sk EXCEPT !.state = "CLOSED"], <<>>, 0)
               [] m.kind = "SYN" -> OnSyn(sk, m)
               [] m.kind = "SYN_ACK" -> OnSynAck(sk, m)
               [] m.kind = "FIN_ACK" -> OnFin(sk, m)
               [] OTHER -> OnAck(e, sk, m, h)
        end == IF r.sk.state = "TIME_WAIT" THEN [r.sk EXCEPT !.state = "CLOSED"] ELSE r.sk
    IN  /\ Handled(sk, m) \/ h = "take"
        /\ sock' = [sock EXCEPT ![e] = end] /\ sent' = [sent EXCEPT ![e] = @ + r.used]
        /\ wire' = [wire EXCEPT ![e] = Rest(@), ![Peer(e)] = Put(@, r.out)]
        /\ got' = IF Handled(sk, m) /\ h # "refuse" /\ m.data # 0
                  THEN [got EXCEPT ![e] = Append(@, m.data)] ELSE got
        /\ broken' = (broken \/ (sk.state = "FIN_WAIT1" /\ m.data # 0)
                             \/ \E x \in ToSet(r.out) : x.kind = "RST")
        /\ UNCHANGED link

Receive(e) == \E m \in Ready(wire[e]), h \in HandlerResult :
                jlos_tcp_provider_on_internet_protocol_received(e, m, h)

TcNext ==
    \/ jlos_tcp_provider_listen \/ jlos_tcp_provider_connect
    \/ \E e \in End : Send(e) \/ Disconnect(e) \/ Receive(e)

\* The receive path runs whenever a segment arrives, and an application whose
\* peer has closed disconnects too.
Closes(e) == sock[e].state = "CLOSE_WAIT" /\ Disconnect(e)
TcFairness == \A e \in End : WF_tcVars(Receive(e)) /\ WF_tcVars(Closes(e))

TcSpec == TcInit /\ [][TcNext]_tcVars /\ TcFairness
---------------------------------------------------------------------------
TcTypeOK ==
    /\ link \in {"fifo", "faulty"} /\ broken \in BOOLEAN
    /\ \A e \in End : /\ sock[e] \in [state : State \ {"TIME_WAIT"}, seq : 0 .. TcMod - 1,
                                      ack : 0 .. TcMod - 1, known : BOOLEAN]
                      /\ sent[e] \in 0 .. TcSends[e]
                      /\ \A m \in Ready(wire[e]) : m.kind \in Kind

\* Whatever the network loses, repeats or reorders, the handler sees a prefix of
\* what the peer sent: nothing twice, nothing out of order, nothing skipped.
StreamPrefix ==
    \A e \in End : got[e] = [i \in 1 .. Len(got[e]) |-> i] /\ Len(got[e]) <= sent[Peer(e)]

\* On a link that keeps the order, until the peer's FIN, the acknowledgement
\* number covers exactly what the handler took.
AckedWasTaken ==
    link = "fifo" => \A e \in End : sock[e].state \in {"ESTABLISHED", "FIN_WAIT1", "FIN_WAIT2"} =>
        sock[e].ack = Plus(ISN, 1 + Len(got[e]))

\* The end has begun to close, or has closed.
Leaving(e) == sock[e].known /\ sock[e].state \notin {"SYN_SENT", "SYN_RECEIVED", "ESTABLISHED"}

\* On a link that loses nothing a close that no data crosses and no reset
\* precedes completes on both sides.
CloseCompletes ==
    []<>(link = "fifo" => \/ broken \/ \A e \in End : ~Leaving(e)
                          \/ \A e \in End : sock[e].state = "CLOSED")
=============================================================================
