------------------------------ MODULE TcpSession ------------------------------
(***************************************************************************)
(* One TCP session of TunMode: the thread of a TCPSession between the      *)
(* client's kernel (through the session pipe and the TUN device) and the   *)
(* socket that it connected to the server.                                 *)
(*                                                                         *)
(* Each direction is a stream whose bytes are named by their position, and *)
(* a sequence number is relative to the initial one, so that byte i has    *)
(* number i: numbers count from the one in the client's SYN and from the   *)
(* one in the session's SYN|ACK, and do not wrap.  The pipe delivers in    *)
(* order and loses nothing; the TUN device delivers in order, and a write  *)
(* to it may fail when TunFails.  The client is a TCP that resends what is *)
(* not acknowledged; the server is a socket whose other end sends, ends or *)
(* resets at any time.  Both are external: only what the session sees of   *)
(* them is modelled.                                                       *)
(***************************************************************************)
EXTENDS Integers, Sequences

CONSTANTS
    MaxUp,      \* bound: bytes the client application sends
    MaxDown,    \* bound: bytes the server sends
    InFlight,   \* bytes the client sends ahead of what is acknowledged
    MaxSeg,     \* bytes of the client's largest segment
    Wnd,        \* rcv.wnd, the window that recv() checks against
    PipeCap,    \* bound: packets between the client and the session thread
    TunCap,     \* bound: packets written to the TUN device and not read
    TunFails    \* a write to the TUN device may fail with EAGAIN

\* The client of the second first packet has sent a byte.  One segment, of at most
\* 1460 bytes (the device's MTU is 1500), fits recv()'s window of 1500; what the client
\* has in flight need not: the SYN|ACK lets it send 512 * 2^8 bytes.
ASSUME ConstAssumption ==
    /\ MaxUp \in Nat \ {0} /\ MaxDown \in Nat
    /\ InFlight \in Nat \ {0}
    /\ MaxSeg \in Nat \ {0} /\ Wnd \in Nat /\ MaxSeg <= Wnd
    /\ PipeCap \in Nat \ {0} /\ TunCap \in Nat \ {0}
    /\ TunFails \in BOOLEAN

VARIABLES
    pc,       \* where the session thread is
    state,    \* TCPSocket::state
    rnxt,     \* TCPSocket::vars.rcv.nxt
    snxt,     \* TCPSocket::vars.snd.nxt
    rev,      \* revents of the pipe and of the server's socket
    cbuf,     \* client_buffer: bytes of the client to forward
    eagain,   \* errno of the thread is EAGAIN; no call that succeeds clears it
    pipe,     \* packets of the client in the session pipe
    tun,      \* packets of the session on their way to the client
    fwd,      \* history: bytes handed to the server's socket, in order
    acked,    \* history: the largest acknowledgment number sent to the client
    cst,      \* client: see ClientState
    csent,    \* client: next sequence number to send
    cuna,     \* client: first sequence number not acknowledged
    crcv,     \* client: bytes of the server received in order
    sst,      \* server: "open", "eof" or "reset"
    ssent,    \* server: bytes sent
    srv       \* bytes of the server in the receive queue of the socket

sessionVars == <<pc, state, rnxt, snxt, rev, cbuf, eagain, fwd, acked>>
clientVars == <<cst, csent, cuna, crcv>>
serverVars == <<sst, ssent, srv>>
vars == <<sessionVars, pipe, tun, clientVars, serverVars>>

\* The client waits for the handshake, is connected, has sent its FIN, has
\* aborted a connection, has abandoned the handshake, or was reset.
ClientState == {"syn_sent", "estab", "fin", "aborted", "gone", "reset"}

\* Segments.  Of the client: a SYN; an ACK and nothing else ("ack"); an ACK
\* with PSH and data ("psh"); with FIN ("fin"); flags that the session does not
\* know ("odd"); RST alone ("rst") and RST with ACK ("rstack").
Up(kind, seq, len) == [kind |-> kind, seq |-> seq, len |-> len, ack |-> crcv + 1]
UpBytes(seg) == [i \in 1..seg.len |-> seg.seq + i - 1]

\* Of the session: SYN|ACK, ACK, PSH|ACK with bytes ("data"), FIN|ACK, RST.
Down(kind, seq, bytes, ack) ==
    [kind |-> kind, seq |-> seq, bytes |-> bytes, ack |-> ack]

-----------------------------------------------------------------------------
(* The first packet of the session is the client's SYN, or a packet of a   *)
(* connection that the session knows nothing of.                           *)
Init ==
    /\ pc = "first"
    /\ state = "LISTEN"
    /\ rnxt = 0 /\ snxt = 0
    /\ rev = [client |-> "none", server |-> "none"]
    /\ cbuf = <<>> /\ eagain = FALSE
    /\ tun = <<>>
    /\ fwd = <<>> /\ acked = 0
    /\ crcv = 0
    /\ \/ cst = "syn_sent" /\ csent = 1 /\ cuna = 0 /\ pipe = <<Up("syn", 0, 0)>>
       \/ cst = "estab" /\ csent = 2 /\ cuna = 1 /\ pipe = <<Up("psh", 1, 1)>>
       \/ cst = "aborted" /\ csent = 1 /\ cuna = 1 /\ pipe = <<Up("rstack", 1, 0)>>
    /\ sst = "open" /\ ssent = 0 /\ srv = <<>>

-----------------------------------------------------------------------------
(* The client's kernel and application.                                    *)

\* What is sent after the session's end is another session's to answer.
CanSend == pc # "over" /\ Len(pipe) < PipeCap

\* The last byte that the application has written is sent with PSH, and the
\* client sends at most InFlight bytes ahead.
Data(seq, n) ==
    {Up("psh", seq, n)} \cup (IF seq + n > MaxUp THEN {} ELSE {Up("ack", seq, n)})
MayFlow(n) == csent + n - 1 <= MaxUp /\ csent + n - cuna <= InFlight

ClientSend(n) ==
    /\ cst = "estab" /\ CanSend /\ MayFlow(n)
    /\ csent' = csent + n
    /\ \E seg \in Data(csent, n) : pipe' = Append(pipe, seg)
    /\ UNCHANGED <<sessionVars, tun, cst, cuna, crcv, serverVars>>

\* The application closes: FIN, with the rest of its data or bare.
ClientFin(n) ==
    /\ cst = "estab" /\ CanSend /\ MayFlow(n)
    /\ pipe' = Append(pipe, Up("fin", csent, n))
    /\ csent' = csent + n + 1
    /\ cst' = "fin"
    /\ UNCHANGED <<sessionVars, tun, cuna, crcv, serverVars>>

\* The bytes that the client has sent.
SentBytes == IF cst = "fin" THEN csent - 2 ELSE csent - 1

\* The retransmission timer, with the oldest outstanding bytes or the FIN.
ClientRetransmit ==
    /\ cst \in {"estab", "fin"} /\ CanSend /\ cuna < csent
    /\ \/ /\ cuna > SentBytes
          /\ pipe' = Append(pipe, Up("fin", cuna, 0))
       \/ \E n \in 1..MaxSeg : \E seg \in Data(cuna, n) :
              cuna + n <= SentBytes + 1 /\ pipe' = Append(pipe, seg)
    /\ UNCHANGED <<sessionVars, tun, clientVars, serverVars>>

\* The application aborts the connection.
ClientAbort ==
    /\ cst = "estab" /\ CanSend
    /\ pipe' = Append(pipe, Up("rstack", csent, 0))
    /\ cst' = "aborted"
    /\ UNCHANGED <<sessionVars, tun, csent, cuna, crcv, serverVars>>

\* The application closes the socket before the handshake ends, of which the
\* kernel says nothing until the SYN|ACK comes.
ClientAbandon ==
    /\ cst = "syn_sent"
    /\ cst' = "gone"
    /\ UNCHANGED <<sessionVars, pipe, tun, csent, cuna, crcv, serverVars>>

\* Flags that recv does not expect, as PSH without data.
ClientOdd ==
    /\ cst = "estab" /\ CanSend
    /\ pipe' = Append(pipe, Up("odd", csent, 0))
    /\ UNCHANGED <<sessionVars, tun, clientVars, serverVars>>

\* The client takes the next packet from the TUN device.  It need not
\* acknowledge data at once; a socket that is gone answers with RST.
MustAnswer(seg) == pipe' = IF CanSend THEN Append(pipe, seg) ELSE pipe
MayAnswer(seg) == UNCHANGED pipe \/ MustAnswer(seg)
AckOf(n) == [Up("ack", csent, 0) EXCEPT !.ack = n]

ClientReceive ==
    /\ tun # <<>>
    /\ tun' = Tail(tun)
    /\ LET p == Head(tun)
           una == IF p.ack \in cuna..csent THEN p.ack ELSE cuna
           last == p.seq + Len(p.bytes) - 1
           got == IF p.seq <= crcv + 1 /\ last > crcv THEN last ELSE crcv
       IN
       \/ /\ cst = "syn_sent" /\ p.kind = "synack"
          /\ cst' = "estab" /\ cuna' = 1
          /\ MustAnswer(Up("ack", 1, 0))
          /\ UNCHANGED crcv
       \/ \* a reset without ACK means nothing to a client in SYN-SENT
          /\ cst = "syn_sent" /\ p.kind # "synack"
          /\ UNCHANGED <<cst, cuna, crcv, pipe>>
       \/ /\ cst \in {"estab", "fin"} /\ p.kind = "rst"
          /\ cst' = "reset"
          /\ UNCHANGED <<cuna, crcv, pipe>>
       \/ /\ cst \in {"estab", "fin"} /\ p.kind = "ack"
          /\ cuna' = una
          /\ UNCHANGED <<cst, crcv, pipe>>
       \/ /\ cst \in {"estab", "fin"} /\ p.kind = "data"
          /\ cuna' = una /\ crcv' = got
          /\ MayAnswer(AckOf(got + 1))
          /\ UNCHANGED cst
       \/ /\ cst \in {"estab", "fin"} /\ p.kind = "fin"
          /\ cuna' = una
          /\ MustAnswer(AckOf(IF p.seq = crcv + 1 THEN p.seq + 1 ELSE crcv + 1))
          /\ UNCHANGED <<cst, crcv>>
       \/ /\ cst \in {"aborted", "gone", "reset"}
          /\ IF p.kind = "rst" THEN UNCHANGED pipe
             ELSE MustAnswer([Up("rst", csent, 0) EXCEPT !.seq = p.ack])
          /\ UNCHANGED <<cst, cuna, crcv>>
    /\ UNCHANGED <<sessionVars, csent, serverVars>>

-----------------------------------------------------------------------------
(* The server's end of the socket.                                         *)

Connected == pc \notin {"first", "dial", "over"}

ServerSend ==
    /\ sst = "open" /\ Connected /\ ssent < MaxDown
    /\ ssent' = ssent + 1
    /\ srv' = Append(srv, ssent + 1)
    /\ UNCHANGED <<sessionVars, pipe, tun, clientVars, sst>>

ServerEnds(how) ==
    /\ sst # "reset" /\ sst # how /\ Connected
    /\ sst' = how
    /\ UNCHANGED <<sessionVars, pipe, tun, clientVars, ssent, srv>>

\* What ::poll reports of the socket: "err" is POLLERR and POLLHUP, and POLLIN with
\* them, for a socket that was reset keeps the bytes it has received.
ServerReady ==
    IF sst = "reset" THEN "err"
    ELSE IF srv # <<>> \/ sst = "eof" THEN "in" ELSE "none"

-----------------------------------------------------------------------------
(* TCPSocket: what it reads and writes.                                    *)

\* *this > packet: a blocking read of the pipe.
Read == pipe # <<>> /\ pipe' = Tail(pipe)
Packet == Head(pipe)

\* send_tun.  A failed write loses the segment and leaves EAGAIN in errno.
TunRoomForOneMore == Len(tun) <= TunCap                    \* mutant: off by one
TunRoom == Len(tun) < TunCap

Send(seg) ==
    \/ /\ TunRoom
       /\ tun' = Append(tun, seg)
       /\ acked' = IF seg.kind = "rst" \/ seg.ack < acked THEN acked ELSE seg.ack
       /\ UNCHANGED eagain
    \/ /\ TunFails
       /\ eagain' = TRUE
       /\ UNCHANGED <<tun, acked>>

SendNothing == UNCHANGED <<tun, acked, eagain>>
Sent == tun' # tun

\* reset(): an RST segment with the packet's acknowledgment number as sequence
\* number, and never an ACK flag; a closed socket does not answer an RST.
Reset(closed, p) ==
    IF closed /\ p.kind \in {"rst", "rstack"}
    THEN SendNothing
    ELSE Send(Down("rst", p.ack, <<>>, 0))

\* The window check of recv.
NotBeyond(x) == x < rnxt + Wnd                \* mutant: a repeated segment passes
InWindow(x) == rnxt <= x /\ x < rnxt + Wnd
Acceptable(p) == InWindow(p.seq) /\ (p.len > 0 => InWindow(p.seq + p.len - 1))

-----------------------------------------------------------------------------
(* connect().                                                              *)

\* The first packet of the pipe; anything but a SYN is answered with a reset.
ReadFirst ==
    /\ pc = "first"
    /\ Read
    /\ rnxt' = Packet.seq + 1
    /\ \/ /\ Packet.kind = "syn"
          /\ state' = "SYN_RECEIVED" /\ pc' = "dial"
          /\ SendNothing
       \/ /\ Packet.kind # "syn"
          /\ state' = "CLOSED" /\ pc' = "over"
          /\ Reset(TRUE, Packet)
    /\ UNCHANGED <<snxt, rev, cbuf, fwd, clientVars, serverVars>>

\* ::connect to the server, then SYN|ACK to the client, or a reset.
Dial ==
    /\ pc = "dial"
    /\ \/ /\ Send(Down("synack", snxt, <<>>, rnxt))
          /\ pc' = "shake"
          /\ UNCHANGED state
       \/ /\ Send(Down("rst", 0, <<>>, 0))
          /\ state' = "CLOSED" /\ pc' = "over"
    /\ UNCHANGED <<rnxt, snxt, rev, cbuf, fwd, pipe, clientVars, serverVars>>

\* The third packet of the handshake: ACK or RST alone establish the connection.
\* (A repeated SYN would be skipped here; send() never lets one into the pipe.)
Shake ==
    /\ pc = "shake"
    /\ Read
    /\ \/ /\ Packet.kind \in {"ack", "rst"}
          /\ snxt' = snxt + 1
          /\ state' = "ESTABLISHED" /\ pc' = "poll"
          /\ SendNothing
       \/ /\ Packet.kind \notin {"ack", "rst"}
          /\ state' = "CLOSED" /\ pc' = "over"
          /\ Reset(TRUE, Packet)
          /\ UNCHANGED snxt
    /\ UNCHANGED <<rnxt, rev, cbuf, fwd, clientVars, serverVars>>

-----------------------------------------------------------------------------
(* poll2(): the client's packet.                                           *)

ClientRev(e) == rev' = [client |-> e,
                        server |-> IF state = "CLOSED" THEN "none" ELSE ServerReady]

\* recv returned -1, which ends the loop unless errno is EAGAIN, be it from an
\* earlier call of this thread.
Failed == ClientRev(IF eagain' THEN "none" ELSE "err")

\* Out of the window, or an ACK and no more: nothing for the loop.
RecvNothing(p) ==
    /\ cbuf' = <<>> /\ ClientRev("none")
    /\ SendNothing
    /\ UNCHANGED <<state, rnxt>>

RecvDataAndFin(p) ==                       \* mutant: the FIN ends the loop at once
    /\ rnxt' = rnxt + p.len + 1
    /\ cbuf' = UpBytes(p)
    /\ Send(Down("ack", snxt, <<>>, rnxt'))
    /\ IF p.kind = "fin" THEN state' = "CLOSE_WAIT" /\ ClientRev("hup")
       ELSE ClientRev("in") /\ UNCHANGED state

RecvDataAcksOld(p) ==                      \* mutant: acknowledged before it is counted
    /\ rnxt' = rnxt + p.len
    /\ cbuf' = UpBytes(p)
    /\ \/ p.kind = "ack" /\ SendNothing /\ ClientRev("in")
       \/ /\ p.kind # "ack" /\ Send(Down("ack", snxt, <<>>, rnxt))
          /\ IF Sent THEN ClientRev("in") ELSE Failed
    /\ UNCHANGED state

\* Data: a packet with more than the ACK flag is acknowledged, and recv returns
\* what the write of the acknowledgment returned.
RecvData(p) ==
    /\ rnxt' = rnxt + p.len
    /\ cbuf' = UpBytes(p)
    /\ \/ p.kind = "ack" /\ SendNothing /\ ClientRev("in")
       \/ /\ p.kind # "ack" /\ Send(Down("ack", snxt, <<>>, rnxt'))
          /\ IF Sent THEN ClientRev("in") ELSE Failed
    /\ UNCHANGED state

RecvFinGoesOn(p) ==                        \* mutant: the loop is not told of the FIN
    /\ rnxt' = rnxt + 1
    /\ state' = "CLOSE_WAIT"
    /\ cbuf' = <<>> /\ ClientRev("none")
    /\ Send(Down("ack", p.ack, <<>>, p.seq + 1))

\* A FIN without data ends the loop.
RecvFin(p) ==
    /\ rnxt' = rnxt + 1
    /\ state' = "CLOSE_WAIT"
    /\ cbuf' = <<>> /\ ClientRev("hup")
    /\ Send(Down("ack", p.ack, <<>>, p.seq + 1))

\* Unknown flags.  Only a packet without RST is answered, and only then does
\* the state change.
RecvUnknown(p) ==
    /\ cbuf' = <<>>
    /\ IF p.kind \in {"rst", "rstack"}
       THEN SendNothing /\ UNCHANGED state
       ELSE Reset(FALSE, p) /\ state' = "CLOSED"
    /\ Failed
    /\ UNCHANGED rnxt

\* A packet in CLOSED, where a reset did not end the loop.
RecvClosed(p) ==
    /\ rnxt' = rnxt + p.len
    /\ Reset(TRUE, p)
    /\ Failed
    /\ UNCHANGED <<state, cbuf>>

PollClient ==
    /\ pc = "poll"
    /\ Read
    /\ \/ ~Acceptable(Packet) /\ RecvNothing(Packet)
       \/ /\ Acceptable(Packet) /\ state = "ESTABLISHED"
          /\ \/ Packet.len > 0 /\ RecvData(Packet)
             \/ Packet.len = 0 /\ Packet.kind = "ack" /\ RecvNothing(Packet)
             \/ Packet.len = 0 /\ Packet.kind = "fin" /\ RecvFin(Packet)
             \/ Packet.len = 0 /\ Packet.kind \notin {"ack", "fin"} /\ RecvUnknown(Packet)
       \/ Acceptable(Packet) /\ state = "CLOSED" /\ RecvClosed(Packet)
    /\ pc' = "relay"
    /\ UNCHANGED <<snxt, fwd, clientVars, serverVars>>

\* Nothing from the client; the server's socket is readable or in error.
PollServer ==
    /\ pc = "poll" /\ pipe = <<>>
    /\ state # "CLOSED" /\ ServerReady # "none"
    /\ ClientRev("none")
    /\ pc' = "relay"
    /\ UNCHANGED <<state, rnxt, snxt, cbuf, eagain, fwd, acked, pipe, tun,
                   clientVars, serverVars>>

\* 15 seconds of a closed socket without a packet.
PollTimeout ==
    /\ pc = "poll" /\ pipe = <<>> /\ state = "CLOSED"
    /\ pc' = "close"
    /\ UNCHANGED <<state, rnxt, snxt, rev, cbuf, eagain, fwd, acked, pipe, tun,
                   clientVars, serverVars>>

-----------------------------------------------------------------------------
(* poll2() and _loop(): the server's bytes, and what the turn relays.      *)

\* recv of the server's socket takes what is queued, up to a buffer.
TakeServer(n) == srv' = SubSeq(srv, n + 1, Len(srv))
Taken(n) == SubSeq(srv, 1, n)

\* sv_socket->send, in which a socket that was reset loses the bytes.
ForwardAlone ==                            \* mutant: else if, for the two sockets
    fwd' = IF rev = [client |-> "in", server |-> "none"] /\ sst # "reset"
           THEN fwd \o cbuf ELSE fwd
ForwardClient ==
    fwd' = IF rev.client = "in" /\ sst # "reset" THEN fwd \o cbuf ELSE fwd

\* vars.snd.nxt += size
AdvanceNot(n) == snxt' = snxt                       \* mutant: snd.nxt is not moved
Advance(n) == snxt' = snxt + n

\* The server's bytes of a turn that breaks were received all the same, and are in a
\* buffer that nobody reads any more.
TakeAndDrop ==
    \/ srv = <<>> /\ UNCHANGED srv
    \/ \E n \in 1..Len(srv) : TakeServer(n)

\* The client's revents end the loop.
RelayBreaks ==
    /\ pc = "relay" /\ rev.client \in {"err", "hup"}
    /\ pc' = "close"
    /\ IF rev.server = "none" THEN UNCHANGED srv ELSE TakeAndDrop
    /\ UNCHANGED <<state, rnxt, snxt, rev, cbuf, eagain, fwd, acked, pipe, tun,
                   clientVars, sst, ssent>>

\* The server's error ends it, with what was received; or its end, when nothing is
\* left to receive.  The client's bytes are forwarded before.
RelayEndsEarly ==                          \* mutant: the end, with bytes still queued
    /\ pc = "relay" /\ rev.client \notin {"err", "hup"}
    /\ rev.server # "none" /\ (rev.server = "err" \/ sst # "open")
    /\ ForwardClient
    /\ TakeAndDrop
    /\ pc' = "close"
    /\ UNCHANGED <<state, rnxt, snxt, rev, cbuf, eagain, acked, pipe, tun,
                   clientVars, sst, ssent>>
RelayEnds ==
    /\ pc = "relay" /\ rev.client \notin {"err", "hup"}
    /\ rev.server = "err" \/ (rev.server = "in" /\ srv = <<>>)
    /\ ForwardClient
    /\ TakeAndDrop
    /\ pc' = "close"
    /\ UNCHANGED <<state, rnxt, snxt, rev, cbuf, eagain, acked, pipe, tun,
                   clientVars, sst, ssent>>

\* A whole turn; the next one begins with empty revents.
Relay ==
    /\ pc = "relay" /\ rev.client \notin {"err", "hup"}
    /\ ForwardClient
    /\ pc' = "poll" /\ rev' = [client |-> "none", server |-> "none"]
    /\ \/ /\ rev.server = "none"
          /\ SendNothing
          /\ UNCHANGED <<snxt, srv>>
       \/ /\ rev.server = "in"
          /\ \E n \in 1..Len(srv) :
                /\ TakeServer(n)
                /\ Send(Down("data", snxt, Taken(n), rnxt))
                /\ Advance(n)
    /\ UNCHANGED <<state, rnxt, cbuf, pipe, clientVars, sst, ssent>>

\* The loop reads stop_flag, or ::poll fails.
Stop ==
    /\ pc = "poll"
    /\ pc' = "close"
    /\ UNCHANGED <<state, rnxt, snxt, rev, cbuf, eagain, fwd, acked, pipe, tun,
                   clientVars, serverVars>>

-----------------------------------------------------------------------------
(* close().                                                                *)

\* FIN|ACK from ESTABLISHED or CLOSE_WAIT.
CloseFin(from, to, next) ==
    /\ pc = "close" /\ state = from
    /\ Send(Down("fin", snxt, <<>>, rnxt))
    /\ state' = to /\ pc' = next
    /\ UNCHANGED <<rnxt, snxt, rev, cbuf, fwd, pipe, clientVars, serverVars>>

\* In any other state there is nothing to do.
CloseNothing ==
    /\ pc = "close" /\ state \notin {"ESTABLISHED", "CLOSE_WAIT"}
    /\ pc' = "over"
    /\ UNCHANGED <<state, rnxt, snxt, rev, cbuf, eagain, fwd, acked, pipe, tun,
                   clientVars, serverVars>>

\* The end of an active close: the packet is taken for the client's FIN.
Finish(p) ==
    /\ \/ p.seq > rnxt /\ rnxt' = p.seq + 1 /\ snxt' = p.ack
       \/ p.seq <= rnxt /\ rnxt' = rnxt + 1 /\ snxt' = snxt + 1
    /\ state' = "TIME_WAIT" /\ pc' = "over"
    /\ Send(Down("ack", snxt', <<>>, rnxt'))

\* The next packet is taken for the ACK of the FIN, if it has no other flag.
FinWait1 ==
    /\ pc = "fin1"
    /\ Read
    /\ \/ /\ Packet.kind = "ack"
          /\ state' = "FIN_WAIT_2" /\ pc' = "fin2"
          /\ SendNothing
          /\ UNCHANGED <<rnxt, snxt>>
       \/ Packet.kind # "ack" /\ Finish(Packet)
    /\ UNCHANGED <<rev, cbuf, fwd, clientVars, serverVars>>

FinWait2 ==
    /\ pc = "fin2"
    /\ Read
    /\ Finish(Packet)
    /\ UNCHANGED <<rev, cbuf, fwd, clientVars, serverVars>>

LastAck ==
    /\ pc = "last"
    /\ Read
    /\ state' = "CLOSED" /\ pc' = "over"
    /\ SendNothing
    /\ UNCHANGED <<rnxt, snxt, rev, cbuf, fwd, clientVars, serverVars>>

-----------------------------------------------------------------------------
Client ==
    \/ \E n \in 1..MaxSeg : ClientSend(n)
    \/ \E n \in 0..MaxSeg : ClientFin(n)
    \/ ClientRetransmit \/ ClientAbort \/ ClientAbandon \/ ClientOdd \/ ClientReceive
Server == ServerSend \/ (\E how \in {"eof", "reset"} : ServerEnds(how))

\* The steps that the thread takes on its own, and so sooner or later.
Session ==
    \/ ReadFirst \/ Dial \/ Shake
    \/ PollClient \/ PollServer \/ PollTimeout
    \/ RelayBreaks \/ RelayEnds \/ Relay
    \/ CloseFin("ESTABLISHED", "FIN_WAIT_1", "fin1")
    \/ CloseFin("CLOSE_WAIT", "LAST_ACK", "last")
    \/ CloseNothing \/ FinWait1 \/ FinWait2 \/ LastAck

Next == Client \/ Server \/ Session \/ Stop

Spec == Init /\ [][Next]_vars

\* The thread runs on, the client's kernel takes its packets and resends what
\* is not acknowledged, and its application goes on to send what it has.  No
\* application need close, and no server need answer or end.
Fairness ==
    /\ WF_vars(Session)
    /\ WF_vars(ClientReceive)
    /\ SF_vars(ClientRetransmit)
    /\ SF_vars(\E n \in 1..MaxSeg : ClientSend(n))

FairSpec == Spec /\ Fairness

-----------------------------------------------------------------------------
TypeOK ==
    /\ pc \in {"first", "dial", "shake", "poll", "relay", "close", "fin1", "fin2",
               "last", "over"}
    /\ state \in {"LISTEN", "SYN_RECEIVED", "ESTABLISHED", "CLOSE_WAIT", "FIN_WAIT_1",
                  "FIN_WAIT_2", "LAST_ACK", "TIME_WAIT", "CLOSED"}
    /\ rnxt \in Nat /\ snxt \in Nat /\ acked \in Nat /\ eagain \in BOOLEAN
    /\ rev \in [client : {"none", "in", "hup", "err"}, server : {"none", "in", "err"}]
    /\ cbuf \in Seq(1..MaxUp) /\ fwd \in Seq(1..MaxUp) /\ srv \in Seq(1..MaxDown)
    /\ Len(pipe) <= PipeCap /\ Len(tun) <= TunCap
    /\ cst \in ClientState /\ csent \in Nat /\ cuna \in 0..csent
    /\ crcv \in 0..MaxDown /\ sst \in {"open", "eof", "reset"} /\ ssent \in 0..MaxDown

\* The server is sent the client's bytes in order and none twice, however often
\* the client resends them and however it cuts them, and none is left out as
\* long as no write to the TUN device failed.
UploadIntegrity ==
    /\ \A i \in 1..Len(fwd) : i > 1 => fwd[i - 1] < fwd[i]
    /\ ~eagain => \A i \in 1..Len(fwd) : fwd[i] = i

\* Every byte of a data segment has the number of its position in the server's
\* stream, so a client that takes segments by their numbers gets that stream.
DownloadIntegrity ==
    \A i \in 1..Len(tun) : \A j \in 1..Len(tun[i].bytes) :
        tun[i].bytes[j] = tun[i].seq + j - 1

\* Between two turns of the loop no byte is acknowledged that was not handed to
\* a living server: the client forgets nothing that the session still holds.
AckedIsForwarded ==
    pc = "poll" /\ sst # "reset" /\ ~eagain => \A i \in 1..SentBytes :
        i < acked => i <= Len(fwd)

\* When the client's FIN ends the loop, all that the client sent before it has
\* been forwarded.
FinAfterData ==
    state = "CLOSE_WAIT" /\ sst # "reset" /\ ~eagain => Len(fwd) = SentBytes

\* A FIN to the client is behind the whole stream of a server that has ended it, and
\* behind every byte that was taken when the tunnel's end stopped the loop.  (A loop
\* that the client's own end or an error broke may have dropped bytes, and so may one
\* that the server's reset ended, whose client takes a cut stream for a whole one.)
FinAfterDownload ==
    rev.client \notin {"hup", "err"} => \A i \in 1..Len(tun) : tun[i].kind = "fin" =>
        /\ rev.server = "in" => tun[i].seq = ssent + 1
        /\ rev.server = "none" => tun[i].seq + Len(srv) = ssent + 1

\* A client that has sent its FIN, bare or behind data, or has aborted the
\* established connection sees the session end, whatever the server does.
ClientEnds == cst \in {"fin", "aborted"} ~> pc = "over"

\* A client that could send all it has is acknowledged all of it, unless the
\* connection ends.  (One that has to wait for an acknowledgment of segments
\* without PSH waits for ever: they are acknowledged with later ones only, and
\* their retransmissions are dropped.)
UploadAcked ==
    cst = "estab" /\ csent = MaxUp + 1
        ~> cuna = MaxUp + 1 \/ cst # "estab" \/ pc = "over"

\* The session as its two ends see it (StreamProxy): the turn's bytes are in hand
\* from recv to send.
Phase ==
    IF pc \in {"first", "dial", "shake"} THEN "opening"
    ELSE IF pc \in {"poll", "relay"} THEN "relaying" ELSE "ended"
SP == INSTANCE StreamProxy WITH
    phase    <- Phase,
    hand     <- IF pc = "relay" /\ rev.client = "in" THEN cbuf ELSE <<>>,
    lost     <- sst = "reset",
    full     <- eagain,
    taken    <- ssent - Len(srv),
    received <- crcv

\* However its client cuts, resends and ends the stream and however its server
\* ends, the session is one that takes bytes in order, hands over what it took
\* before it takes more and before it ends, and relays nothing outside its loop.
ImplementsStreamProxy == SP!Spec

-----------------------------------------------------------------------------
(* What the comments and the RFC in the repository lead one to expect, and *)
(* what the session does not do.                                           *)

\* close() takes a packet to be the ACK of its FIN and the next to be the FIN:
\* were they, no byte would be acknowledged that was not forwarded.
AckedForwardedAtClose ==
    pc = "over" /\ sst # "reset" => \A i \in 1..SentBytes : i < acked => i <= Len(fwd)

\* A reset in answer to the SYN|ACK ends the session.
AbandonEnds == cst = "gone" ~> pc = "over"
=============================================================================
