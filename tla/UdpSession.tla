------------------------------ MODULE UdpSession ------------------------------
(***************************************************************************)
(* One UDP session of TunMode: its thread between the session pipe and the *)
(* socket connected to the server, its two timeouts, and its descriptors   *)
(* from the end of the loop to the end of the destructors.                 *)
(*                                                                         *)
(* A datagram is its rank among those of its direction; datagram 0 is the  *)
(* empty buffer that nothing was received into.  Time passes in ticks.  An *)
(* ICMP error of the server waits in the socket until poll, send or recv   *)
(* reports it; send and recv clear it.                                     *)
(***************************************************************************)
EXTENDS Integers, Sequences

CONSTANTS
    MaxUp,      \* bound: datagrams the client sends
    MaxDown,    \* bound: datagrams the server sends
    Long,       \* 60 s, in ticks
    Short,      \* 10 s, in ticks
    MaxFd       \* bound: descriptor numbers of the process

PipeR == 1                      \* the numbers that the constructors got
PipeW == 2
Skt == 3

ASSUME ConstAssumption ==
    /\ MaxUp \in Nat \ {0} /\ MaxDown \in Nat
    /\ Long \in Nat \ {0} /\ Short \in 1..Long
    /\ MaxFd \in Nat /\ MaxFd > Skt

Numbers == 1..MaxFd

VARIABLES
    pc,             \* where the session thread is
    stop_flag,      \* params::stop_flag
    poll_timeout,   \* UDPSession::poll_timeout
    waited,         \* ticks that ::poll has waited
    rev,            \* revents of the pipe and of the server's socket
    server_buffer,  \* the datagram in server_buffer
    connected,      \* ::connect of the server's socket succeeded
    pipe,           \* datagrams of the client in the session pipe
    csent,          \* datagrams the client has sent
    srv,            \* datagrams in the receive queue of the server's socket
    ssent,          \* datagrams the server has sent
    icmp,           \* the socket has an error pending
    errors,         \* ICMP errors so far, at most one for each datagram sent
    fwd,            \* history: datagrams sent to the server
    got,            \* history: datagrams written to the TUN device
    refused,        \* history: the calls that reported the error, "send" and "recv"
    quiet,          \* history: ticks since a datagram came from either side
    idle,           \* history: quiet when ::poll returned 0, else -1
    fd,             \* whose each descriptor number is: "own", "other" or "free"
    stolen          \* history: numbers of others that this thread closed

loopVars == <<poll_timeout, waited, rev, server_buffer, connected>>
clientVars == <<pipe, csent>>
serverVars == <<srv, ssent, icmp, errors>>
historyVars == <<fwd, got, refused, idle>>
fdVars == <<fd, stolen>>
vars == <<pc, stop_flag, loopVars, clientVars, serverVars, historyVars, quiet, fdVars>>

Init ==
    /\ pc = "init" /\ stop_flag = FALSE
    /\ poll_timeout = Long /\ waited = 0
    /\ rev = [client |-> FALSE, server |-> "none"]
    /\ server_buffer = 0 /\ connected = FALSE
    /\ pipe = <<>> /\ csent = 0
    /\ srv = <<>> /\ ssent = 0 /\ icmp = FALSE /\ errors = 0
    /\ fwd = <<>> /\ got = <<>> /\ refused = {} /\ idle = -1
    /\ quiet = 0
    /\ fd = [n \in Numbers |-> IF n \in {PipeR, PipeW, Skt} THEN "own" ELSE "free"]
    /\ stolen = {}

-----------------------------------------------------------------------------
(* What happens around the thread.                                         *)

InLoop == pc \in {"check", "poll", "client", "server"}

\* handle_packet writes to the pipe as long as the session is in the map.
ClientSend ==
    /\ InLoop \/ pc \in {"init", "close", "remove"}
    /\ csent < MaxUp
    /\ csent' = csent + 1
    /\ pipe' = Append(pipe, csent + 1)
    /\ quiet' = 0
    /\ UNCHANGED <<pc, stop_flag, loopVars, serverVars, historyVars, fdVars>>

\* The server answers what reached it, or its host refuses.
Reached == connected /\ fwd # <<>> /\ (InLoop \/ pc = "close")
ServerSend ==
    /\ Reached /\ ssent < MaxDown
    /\ ssent' = ssent + 1
    /\ srv' = Append(srv, ssent + 1)
    /\ quiet' = 0
    /\ UNCHANGED <<pc, stop_flag, loopVars, clientVars, icmp, errors, historyVars,
                   fdVars>>
ServerRefuses ==
    /\ Reached /\ errors < Len(fwd)
    /\ icmp' = TRUE /\ errors' = errors + 1
    /\ UNCHANGED <<pc, stop_flag, loopVars, clientVars, srv, ssent, historyVars, quiet,
                   fdVars>>

\* Time passes wherever the thread is; ::poll counts it while it waits.
Tick ==
    /\ InLoop /\ (quiet < Long \/ (pc = "poll" /\ waited < poll_timeout))
    /\ quiet' = IF quiet < Long THEN quiet + 1 ELSE quiet
    /\ waited' = IF pc = "poll" /\ waited < poll_timeout THEN waited + 1 ELSE waited
    /\ UNCHANGED <<pc, stop_flag, poll_timeout, rev, server_buffer, connected, clientVars,
                   serverVars, historyVars, fdVars>>

CloseTunnel ==
    /\ stop_flag' = TRUE
    /\ UNCHANGED <<pc, loopVars, clientVars, serverVars, historyVars, quiet, fdVars>>

\* Another thread opens a file, a pipe or a socket and gets the lowest number
\* that is free, or closes one of its own.
OtherOpens ==
    /\ \E n \in Numbers :
          /\ fd[n] = "free" /\ \A o \in Numbers : fd[o] = "free" => n <= o
          /\ fd' = [fd EXCEPT ![n] = "other"]
    /\ UNCHANGED <<pc, stop_flag, loopVars, clientVars, serverVars, historyVars, quiet,
                   stolen>>
OtherCloses ==
    /\ \E n \in Numbers : fd[n] = "other" /\ fd' = [fd EXCEPT ![n] = "free"]
    /\ UNCHANGED <<pc, stop_flag, loopVars, clientVars, serverVars, historyVars, quiet,
                   stolen>>

-----------------------------------------------------------------------------
(* Socket::send and Socket::recv of the server's socket.                   *)

\* send: a pending error is reported and cleared, and the datagram is lost; so
\* it is when the socket has no peer.
SendServer(d) ==
    /\ fwd' = IF connected /\ ~icmp THEN Append(fwd, d) ELSE fwd
    /\ refused' = IF icmp THEN refused \cup {"send"} ELSE refused
    /\ icmp' = FALSE

\* recv: an error is reported before what is queued, and leaves the buffer alone.
RecvPeeks ==                                  \* mutant: the datagram stays queued
    server_buffer' = Head(srv) /\ UNCHANGED <<srv, icmp, refused>>
RecvServer ==
    \/ /\ icmp
       /\ icmp' = FALSE
       /\ refused' = refused \cup {"recv"}
       /\ UNCHANGED <<server_buffer, srv>>
    \/ /\ ~icmp
       /\ server_buffer' = Head(srv) /\ srv' = Tail(srv)
       /\ UNCHANGED <<icmp, refused>>

-----------------------------------------------------------------------------
(* The session thread.                                                     *)

\* UDPSocket::init: the first packet, bind and connect, whose results nobody
\* looks at, and the packet's datagram.
Open ==
    /\ pc = "init" /\ pipe # <<>>
    /\ pipe' = Tail(pipe)
    /\ connected' \in BOOLEAN
    /\ fwd' = IF connected' THEN <<Head(pipe)>> ELSE <<>>
    /\ pc' = "check"
    /\ UNCHANGED <<stop_flag, poll_timeout, waited, rev, server_buffer, csent, serverVars,
                   got, refused, idle, quiet, fdVars>>

CheckStop ==
    /\ pc = "check"
    /\ pc' = IF stop_flag THEN "close" ELSE "poll"
    /\ UNCHANGED <<stop_flag, loopVars, clientVars, serverVars, historyVars, quiet, fdVars>>

SameDeadline == UNCHANGED waited              \* mutant: the clock runs on
NewWait == waited' = 0

Ready == pipe # <<>> \/ srv # <<>> \/ icmp
Poll ==
    /\ pc = "poll" /\ Ready
    /\ rev' = [client |-> pipe # <<>>,
               server |-> IF icmp THEN "err" ELSE IF srv # <<>> THEN "in" ELSE "none"]
    /\ NewWait /\ pc' = "client"
    /\ UNCHANGED <<stop_flag, poll_timeout, server_buffer, connected, clientVars,
                   serverVars, historyVars, quiet, fdVars>>

PollsAgain ==                                 \* mutant: continue, not break
    /\ pc = "poll" /\ ~Ready /\ waited >= poll_timeout
    /\ pc' = "check"
    /\ UNCHANGED <<stop_flag, loopVars, clientVars, serverVars, historyVars, quiet, fdVars>>
PollTimeout ==
    /\ pc = "poll" /\ ~Ready /\ waited >= poll_timeout
    /\ idle' = quiet
    /\ pc' = "close"
    /\ UNCHANGED <<stop_flag, loopVars, clientVars, serverVars, fwd, got, refused, quiet,
                   fdVars>>

\* ::poll is interrupted.
PollFails ==
    /\ pc = "poll"
    /\ pc' = "close"
    /\ UNCHANGED <<stop_flag, loopVars, clientVars, serverVars, historyVars, quiet, fdVars>>

ReadUnlessError ==                            \* mutant: the error is looked at first
    \/ rev.client /\ rev.server # "err" /\ pipe' = Tail(pipe) /\ SendServer(Head(pipe))
    \/ rev.client /\ rev.server = "err" /\ pipe' = Tail(pipe) /\ UNCHANGED <<fwd, refused, icmp>>
    \/ ~rev.client /\ UNCHANGED <<pipe, fwd, refused, icmp>>
ReadAndSend ==
    \/ rev.client /\ pipe' = Tail(pipe) /\ SendServer(Head(pipe))
    \/ ~rev.client /\ UNCHANGED <<pipe, fwd, refused, icmp>>
RelayClient ==
    /\ pc = "client"
    /\ pc' = "server"
    /\ ReadAndSend
    /\ UNCHANGED <<stop_flag, loopVars, csent, srv, ssent, errors, got, idle, quiet,
                   fdVars>>

\* The error that poll saw ends the loop, though send may have cleared it.
BreakOnError ==
    /\ pc = "server" /\ rev.server = "err"
    /\ pc' = "close"
    /\ UNCHANGED <<stop_flag, loopVars, clientVars, serverVars, historyVars, quiet, fdVars>>

\* Whatever recv returned, the buffer is sent to the client, unless the TUN
\* device has no room, and the timeout gets shorter.
ToClient(d) == got' = Append(got, d) \/ UNCHANGED got
MilliTimeout == poll_timeout' = 0             \* mutant: 10 ms
ShortenTimeout == poll_timeout' = Short
RelayServer ==
    /\ pc = "server" /\ rev.server # "err"
    /\ pc' = "check"
    /\ \/ rev.server = "in" /\ RecvServer /\ ToClient(server_buffer') /\ ShortenTimeout
       \/ rev.server = "none"
          /\ UNCHANGED <<server_buffer, srv, icmp, refused, got, poll_timeout>>
    /\ UNCHANGED <<stop_flag, waited, rev, connected, clientVars, ssent, errors, fwd, idle,
                   quiet, fdVars>>

-----------------------------------------------------------------------------
(* The end: close, remove, and the destructors.                            *)

\* ::close(n): whoever has the number loses it; a free number is an error.
Close(n) ==
    /\ fd' = [fd EXCEPT ![n] = "free"]
    /\ stolen' = IF fd[n] = "other" THEN stolen \cup {n} ELSE stolen

EndStep(from, to) ==
    /\ pc = from /\ pc' = to
    /\ UNCHANGED <<stop_flag, loopVars, clientVars, serverVars, historyVars, quiet>>

\* cl_socket->close() does nothing; sv_socket->close() sets closed.
CloseSocketNot == EndStep("close", "remove") /\ UNCHANGED fdVars    \* mutant: no ::close
CloseSocket == EndStep("close", "remove") /\ Close(Skt)

\* remove: under the manager's mutex, to the end of ~Session.
Remove == EndStep("remove", "read1") /\ UNCHANGED fdVars

\* ~UDPSocket calls ~SessionSocket, which then runs again as the base's.
ClosePipe ==
    \/ EndStep("read1", "write1") /\ Close(PipeR)
    \/ EndStep("write1", "read2") /\ Close(PipeW)
    \/ EndStep("read2", "write2") /\ Close(PipeR)
    \/ EndStep("write2", "socket") /\ Close(PipeW)

\* ~Socket, of a socket that is closed.
DeleteClosed == EndStep("socket", "over") /\ Close(Skt)    \* mutant: closed is not looked at
DeleteSocket == EndStep("socket", "over") /\ UNCHANGED fdVars

-----------------------------------------------------------------------------
Thread ==
    \/ Open \/ CheckStop \/ Poll \/ PollTimeout
    \/ RelayClient \/ BreakOnError \/ RelayServer
    \/ CloseSocket \/ Remove \/ ClosePipe \/ DeleteSocket

Next ==
    \/ Thread \/ PollFails
    \/ ClientSend \/ ServerSend \/ ServerRefuses \/ Tick
    \/ CloseTunnel \/ OtherOpens \/ OtherCloses

Spec == Init /\ [][Next]_vars

\* The thread runs, and time passes.  Nobody need send, stop or refuse.
FairSpec == Spec /\ WF_vars(Thread) /\ WF_vars(Tick)

-----------------------------------------------------------------------------
TypeOK ==
    /\ pc \in {"init", "check", "poll", "client", "server", "close", "remove", "read1",
               "write1", "read2", "write2", "socket", "over"}
    /\ stop_flag \in BOOLEAN /\ poll_timeout \in {Short, Long} /\ waited \in 0..Long
    /\ rev \in [client : BOOLEAN, server : {"none", "in", "err"}]
    /\ server_buffer \in 0..MaxDown /\ connected \in BOOLEAN
    /\ pipe \in Seq(1..MaxUp) /\ csent \in 0..MaxUp
    /\ srv \in Seq(1..MaxDown) /\ ssent \in 0..MaxDown
    /\ icmp \in BOOLEAN /\ errors \in 0..MaxUp
    /\ fwd \in Seq(1..MaxUp) /\ got \in Seq(0..MaxDown)
    /\ refused \subseteq {"send", "recv"} /\ idle \in -1..Long /\ quiet \in 0..Long
    /\ fd \in [Numbers -> {"own", "other", "free"}] /\ stolen \subseteq Numbers

\* The server gets the client's datagrams in order and none twice, and as long
\* as the socket has a peer and no send reported an error it gets them all: what
\* is missing is in the pipe.
UploadInOrder ==
    /\ \A i \in 2..Len(fwd) : fwd[i - 1] < fwd[i]
    /\ connected /\ "send" \notin refused =>
          \A i \in 1..(csent - Len(pipe)) : i <= Len(fwd) /\ fwd[i] = i

\* The client gets the server's datagrams in order.  One is repeated, or an empty
\* one made up, only after a recv that reported an error.
DownloadOnce ==
    /\ \A i \in 2..Len(got) : got[i - 1] <= got[i]
    /\ "recv" \notin refused =>
          \A i \in 1..Len(got) : got[i] > 0 /\ (i > 1 => got[i - 1] < got[i])

\* A timeout ends only a session that neither side has used for 60 s, or for 10 s
\* if the server has answered at least once: an answer that comes sooner still
\* finds the session, however slow its thread.
TimesOutQuiet ==
    idle # -1 => idle >= IF ssent = 0 THEN Long ELSE Short

\* The thread closes its own descriptors and nobody else's, but for the second
\* run of ~SessionSocket, which may take a number that was given out again.
ClosesOwn ==
    stolen # {} => stolen \subseteq {PipeR, PipeW} /\ pc \in {"write2", "socket", "over"}

\* A session that is deleted has no descriptor left.
NothingLeaks == pc = "over" => \A n \in Numbers : fd[n] # "own"

\* A session whose client and server fall silent ends, and so does one that an
\* ICMP error or the end of the tunnel finds.
SessionEnds == InLoop ~> pc = "over"
=============================================================================
