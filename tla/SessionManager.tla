---------------------------- MODULE SessionManager ----------------------------
(***************************************************************************)
(* The two session managers of TunMode, the tunnel thread that feeds them  *)
(* and the detached thread that every session runs.                        *)
(*                                                                         *)
(* The tunnel thread reads a packet from the TUN device, takes the mutex   *)
(* of the manager of its protocol, finds or creates the session of the     *)
(* packet's flow and writes the packet to the pipe of that session, all    *)
(* with the mutex held.  A session thread reads packets from its own pipe  *)
(* without any lock; when it leaves its loop it takes the mutex to erase   *)
(* the map entry and to delete the Session object, its own.                *)
(*                                                                         *)
(* What a session does with a packet, its sockets and its timeouts are     *)
(* abstracted to when it reads its pipe and when it leaves its loop.       *)
(***************************************************************************)
EXTENDS Naturals, Sequences

CONSTANTS
    TcpFlows,    \* the ids (server address and both ports) of TCP packets
    UdpFlows,    \* the ids of UDP packets
    Objects,     \* addresses that the allocator returns for Session objects
    PipeCap,     \* packets that fit in a session pipe (pipe2 with O_DIRECT)
    MaxPackets,  \* bound: packets the TUN device delivers in a behaviour
    None         \* no flow, no object, no holder

Flows == TcpFlows \cup UdpFlows

\* A packet: its flow, whether its flags are exactly SYN, and its rank in the
\* order of reading from the TUN device.
Packet == [flow : Flows, syn : BOOLEAN, num : 1..MaxPackets]

ASSUME ConstAssumption ==
    /\ TcpFlows \cap UdpFlows = {}
    /\ PipeCap \in Nat \ {0}
    /\ MaxPackets \in Nat
    /\ None \notin Flows
    /\ None \notin Objects
    /\ None \notin Packet
    /\ "tunnel" \notin Objects
    /\ "tunnel" # None

Managers == {"tcp", "udp"}

\* The manager that _tunnel_loop hands a packet of the flow to.
ManagerOf(f) == IF f \in TcpFlows THEN "tcp" ELSE "udp"

VARIABLES
    mtx,         \* per manager: who holds SessionManager::mtx
    sessions,    \* per flow: the entry of SessionManager::sessions, or None
    tpc,         \* where the tunnel thread is
    packet,      \* the packet in the tunnel thread's hands, or None
    session,     \* the Session* the tunnel thread got from the map, or None
    count,       \* packets read from the TUN device so far
    pc,          \* per object: where its session thread is; "free": no object
    id,          \* per object: Session::id
    pipe,        \* per object: packets in session_pipe, written and not read
    syn_recved,  \* per object: TCPSocket::syn_recved
    protected,   \* per object: protect_socket has returned for its server socket
    reads,       \* per object: reads that TCPSocket::close still waits for
    victim       \* per object: the pointer that remove() took from the map

tunVars == <<tpc, packet, session, count>>
objVars == <<pc, id, pipe, syn_recved, protected, reads, victim>>
vars == <<mtx, sessions, tunVars, objVars>>

TunnelPC == {"poll", "lock", "get_or_add", "protect", "insert", "write", "unlock"}
SessionPC == {"free", "first", "dial", "shake", "loop", "closing",
              "remove", "erase", "delete"}

Allocated(s) == pc[s] # "free"

-----------------------------------------------------------------------------
(* Nothing is allocated and the tunnel thread waits in TunSocket::poll.    *)
Init ==
    /\ mtx = [m \in Managers |-> None]
    /\ sessions = [f \in Flows |-> None]
    /\ tpc = "poll"
    /\ packet = None
    /\ session = None
    /\ count = 0
    /\ pc = [s \in Objects |-> "free"]
    /\ id = [s \in Objects |-> None]
    /\ pipe = [s \in Objects |-> <<>>]
    /\ syn_recved = [s \in Objects |-> FALSE]
    /\ protected = [s \in Objects |-> FALSE]
    /\ reads = [s \in Objects |-> 0]
    /\ victim = [s \in Objects |-> None]

-----------------------------------------------------------------------------
(* The tunnel thread: _tunnel_loop and the manager's handle_packet.        *)

\* A lock_guard on the manager's mutex can be constructed.
LockNotTaken(m) == TRUE                       \* mutant: no lock_guard
LockFree(m) == mtx[m] = None

\* sessions.contains(id).
ContainsNot(f) == FALSE                       \* mutant: add() at every packet
Contains(f) == sessions[f] # None

\* poll, params::tun > packet, and the switch on the protocol.
ReadTun(f, syn) ==
    /\ tpc = "poll"
    /\ count < MaxPackets
    /\ syn => f \in TcpFlows
    /\ count' = count + 1
    /\ packet' = [flow |-> f, syn |-> syn, num |-> count + 1]
    /\ tpc' = "lock"
    /\ UNCHANGED <<mtx, sessions, session, objVars>>

\* handle_packet takes the mutex of its manager.
HandlePacket ==
    /\ tpc = "lock"
    /\ LockFree(ManagerOf(packet.flow))
    /\ mtx' = [mtx EXCEPT ![ManagerOf(packet.flow)] = "tunnel"]
    /\ tpc' = "get_or_add"
    /\ UNCHANGED <<sessions, packet, session, count, objVars>>

\* get_or_add when the map has the flow.
GetSameManager ==                             \* mutant: ids of two flows collide
    /\ tpc = "get_or_add"
    /\ \E f \in Flows :
          /\ ManagerOf(f) = ManagerOf(packet.flow)
          /\ Contains(f)
          /\ session' = sessions[f]
    /\ tpc' = "write"
    /\ UNCHANGED <<mtx, sessions, packet, count, objVars>>
GetSession ==
    /\ tpc = "get_or_add"
    /\ Contains(packet.flow)
    /\ session' = sessions[packet.flow]
    /\ tpc' = "write"
    /\ UNCHANGED <<mtx, sessions, packet, count, objVars>>

\* get_or_add when it has not: add() creates the Session, whose constructor
\* makes the pipe and starts the detached session thread.
AddSession(s) ==
    /\ tpc = "get_or_add"
    /\ ~Contains(packet.flow)
    /\ ~Allocated(s)
    /\ session' = s
    /\ pc' = [pc EXCEPT ![s] = "first"]
    /\ id' = [id EXCEPT ![s] = packet.flow]
    /\ pipe' = [pipe EXCEPT ![s] = <<>>]
    /\ syn_recved' = [syn_recved EXCEPT ![s] = FALSE]
    /\ protected' = [protected EXCEPT ![s] = FALSE]
    /\ tpc' = "protect"
    /\ UNCHANGED <<mtx, sessions, packet, count, reads, victim>>

\* add(): utils::protect_socket, with the session thread already running.
ProtectSocket ==
    /\ tpc = "protect"
    /\ protected' = [protected EXCEPT ![session] = TRUE]
    /\ tpc' = "insert"
    /\ UNCHANGED <<mtx, sessions, packet, session, count, pc, id, pipe,
                   syn_recved, reads, victim>>

\* add(): sessions.insert.
InsertNothing ==                              \* mutant: add() forgets the map
    /\ tpc = "insert"
    /\ tpc' = "write"
    /\ UNCHANGED <<mtx, sessions, packet, session, count, objVars>>
InsertSession ==
    /\ tpc = "insert"
    /\ sessions' = [sessions EXCEPT ![packet.flow] = session]
    /\ tpc' = "write"
    /\ UNCHANGED <<mtx, packet, session, count, objVars>>

\* TCPSocket::send drops a SYN after the first one of the session.
DropsNoSyn(s) == FALSE                        \* mutant: no syn_recved filter
DropsIfFull(s) ==                             \* mutant: O_NONBLOCK pipe
    \/ packet.syn /\ syn_recved[s]
    \/ Len(pipe[s]) = PipeCap
DropsSyn(s) == packet.syn /\ syn_recved[s]

\* A write to session_pipe[1] does not block.
HasRoomForOneMore(s) == Len(pipe[s]) <= PipeCap    \* mutant: off by one
HasRoom(s) == Len(pipe[s]) < PipeCap

\* SessionSocket::operator< into TCPSocket::send or SessionSocket::send: the
\* write blocks, with the mutex held, while the pipe is full.
WritePipe ==
    /\ tpc = "write"
    /\ ~DropsSyn(session)
    /\ HasRoom(session)
    /\ pipe' = [pipe EXCEPT ![session] = Append(@, packet)]
    /\ syn_recved' = [syn_recved EXCEPT ![session] = @ \/ packet.syn]
    /\ tpc' = "unlock"
    /\ UNCHANGED <<mtx, sessions, packet, session, count, pc, id, protected,
                   reads, victim>>

SkipSyn ==
    /\ tpc = "write"
    /\ DropsSyn(session)
    /\ tpc' = "unlock"
    /\ UNCHANGED <<mtx, sessions, packet, session, count, objVars>>

\* handle_packet returns: the lock_guard releases the mutex.
ReturnsLocked ==                              \* mutant: the mutex stays locked
    /\ tpc = "unlock"
    /\ packet' = None
    /\ session' = None
    /\ tpc' = "poll"
    /\ UNCHANGED <<mtx, sessions, count, objVars>>
HandlePacketReturns ==
    /\ tpc = "unlock"
    /\ mtx' = [mtx EXCEPT ![ManagerOf(packet.flow)] = None]
    /\ packet' = None
    /\ session' = None
    /\ tpc' = "poll"
    /\ UNCHANGED <<sessions, count, objVars>>

TunnelStep ==
    \/ HandlePacket
    \/ GetSession
    \/ \E s \in Objects : AddSession(s)
    \/ ProtectSocket
    \/ InsertSession
    \/ WritePipe
    \/ SkipSyn
    \/ HandlePacketReturns

-----------------------------------------------------------------------------
(* A session thread: TCPSession::loop or UDPSession::loop.                 *)

IsTcp(s) == id[s] \in TcpFlows

Goto(s, label) == pc' = [pc EXCEPT ![s] = label]

\* ::read on session_pipe[0]: blocks while the pipe is empty.
ReadPipe(s) ==
    /\ pipe[s] # <<>>
    /\ pipe' = [pipe EXCEPT ![s] = Tail(@)]

\* TCPSocket::connect and UDPSocket::init begin with a read.  A TCP session
\* whose first packet is no SYN resets it and ends.
DialUnread(s) ==                              \* mutant: dials at construction
    /\ pc[s] = "first"
    /\ Goto(s, "dial")
    /\ UNCHANGED <<mtx, sessions, tunVars, id, pipe, syn_recved, protected,
                   reads, victim>>
ReadFirst(s) ==
    /\ pc[s] = "first"
    /\ ReadPipe(s)
    /\ Goto(s, IF IsTcp(s) /\ ~Head(pipe[s]).syn THEN "remove" ELSE "dial")
    /\ UNCHANGED <<mtx, sessions, tunVars, id, syn_recved, protected, reads,
                   victim>>

\* bind and ::connect of the server socket.  A TCP session that is refused
\* resets the client and ends; a UDP session ignores the result.
Dial(s) ==
    /\ pc[s] = "dial"
    /\ \/ IsTcp(s) /\ Goto(s, "shake")
       \/ IsTcp(s) /\ Goto(s, "remove")
       \/ ~IsTcp(s) /\ Goto(s, "loop")
    /\ UNCHANGED <<mtx, sessions, tunVars, id, pipe, syn_recved, protected,
                   reads, victim>>

\* TCPSocket::connect reads the third packet of the handshake: ACK or RST
\* establish the connection, anything else ends the session.
Shake(s) ==
    /\ pc[s] = "shake"
    /\ ReadPipe(s)
    /\ \/ Goto(s, "loop")
       \/ Goto(s, "remove")
    /\ UNCHANGED <<mtx, sessions, tunVars, id, syn_recved, protected, reads,
                   victim>>

\* One turn of _loop that finds a packet in the pipe.
Recv(s) ==
    /\ pc[s] = "loop"
    /\ ReadPipe(s)
    /\ UNCHANGED <<mtx, sessions, tunVars, pc, id, syn_recved, protected, reads,
                   victim>>

\* _loop is left: stop_flag, a poll error or timeout, a FIN, an end of file of
\* the server.  TCPSocket::close reads no packet when the connection is closed
\* already, one in CLOSE_WAIT, one or two in ESTABLISHED; UDPSocket::close none.
Break(s, k) ==
    /\ pc[s] = "loop"
    /\ IsTcp(s) \/ k = 0
    /\ reads' = [reads EXCEPT ![s] = k]
    /\ Goto(s, IF k = 0 THEN "remove" ELSE "closing")
    /\ UNCHANGED <<mtx, sessions, tunVars, id, pipe, syn_recved, protected,
                   victim>>

CloseRead(s) ==
    /\ pc[s] = "closing"
    /\ ReadPipe(s)
    /\ reads' = [reads EXCEPT ![s] = @ - 1]
    /\ Goto(s, IF reads[s] = 1 THEN "remove" ELSE "closing")
    /\ UNCHANGED <<mtx, sessions, tunVars, id, syn_recved, protected, victim>>

\* SessionManager::remove(id), from the session's own thread.
RemoveLock(s) ==
    /\ pc[s] = "remove"
    /\ LockFree(ManagerOf(id[s]))
    /\ mtx' = [mtx EXCEPT ![ManagerOf(id[s])] = s]
    /\ Goto(s, "erase")
    /\ UNCHANGED <<sessions, tunVars, id, pipe, syn_recved, protected, reads,
                   victim>>

Erase(s) ==
    /\ pc[s] = "erase"
    /\ victim' = [victim EXCEPT ![s] = sessions[id[s]]]
    /\ sessions' = [sessions EXCEPT ![id[s]] = None]
    /\ Goto(s, "delete")
    /\ UNCHANGED <<mtx, tunVars, id, pipe, syn_recved, protected, reads>>

\* delete session closes the pipe with the packets in it; the thread then
\* unlocks and ends.
DeleteLocked(s) ==                            \* mutant: the mutex stays locked
    /\ pc[s] = "delete"
    /\ Goto(s, "free")
    /\ id' = [id EXCEPT ![s] = None]
    /\ pipe' = [pipe EXCEPT ![s] = <<>>]
    /\ victim' = [victim EXCEPT ![s] = None]
    /\ UNCHANGED <<mtx, sessions, tunVars, syn_recved, protected, reads>>
Delete(s) ==
    /\ pc[s] = "delete"
    /\ LET freed == {s, victim[s]} IN
       /\ pc' = [o \in Objects |-> IF o \in freed THEN "free" ELSE pc[o]]
       /\ id' = [o \in Objects |-> IF o \in freed THEN None ELSE id[o]]
       /\ pipe' = [o \in Objects |-> IF o \in freed THEN <<>> ELSE pipe[o]]
    /\ victim' = [victim EXCEPT ![s] = None]
    /\ mtx' = [mtx EXCEPT ![ManagerOf(id[s])] = None]
    /\ UNCHANGED <<sessions, tunVars, syn_recved, protected, reads>>

SessionStep(s) ==
    \/ ReadFirst(s)
    \/ Dial(s)
    \/ Shake(s)
    \/ Recv(s)
    \/ CloseRead(s)
    \/ RemoveLock(s)
    \/ Erase(s)
    \/ Delete(s)

-----------------------------------------------------------------------------
Next ==
    \/ \E f \in Flows, syn \in BOOLEAN : ReadTun(f, syn)
    \/ TunnelStep
    \/ \E s \in Objects : SessionStep(s) \/ \E k \in 0..2 : Break(s, k)

Spec == Init /\ [][Next]_vars

\* Every thread runs while it can: ::connect returns and ::send to a server
\* does not block for ever.  Nothing makes a client send, a session end or a
\* contended mutex go to one of its waiters: a waiter gets it only because
\* finitely many packets arrive.
FairSpec ==
    /\ Spec
    /\ WF_vars(TunnelStep)
    /\ \A s \in Objects : WF_vars(SessionStep(s))

-----------------------------------------------------------------------------
(* Properties.                                                             *)

\* Every variable has the type of its field; a full pipe holds PipeCap packets.
TypeOK ==
    /\ mtx \in [Managers -> Objects \cup {"tunnel", None}]
    /\ sessions \in [Flows -> Objects \cup {None}]
    /\ tpc \in TunnelPC
    /\ packet \in Packet \cup {None}
    /\ session \in Objects \cup {None}
    /\ count \in 0..MaxPackets
    /\ pc \in [Objects -> SessionPC]
    /\ id \in [Objects -> Flows \cup {None}]
    /\ pipe \in [Objects -> Seq(Packet)]
    /\ \A s \in Objects : Len(pipe[s]) <= PipeCap
    /\ syn_recved \in [Objects -> BOOLEAN]
    /\ protected \in [Objects -> BOOLEAN]
    /\ reads \in [Objects -> 0..2]
    /\ victim \in [Objects -> Objects \cup {None}]

\* The Session* that handle_packet uses after get_or_add is never that of a
\* session being deleted, and is the one of the packet's flow: no packet is
\* written to a freed object or to another flow's pipe.
NoDangling ==
    tpc \in {"protect", "insert", "write"} =>
        /\ session # None
        /\ pc[session] \notin {"free", "erase", "delete"}
        /\ id[session] = packet.flow

\* At any time a flow has at most one Session object, from its constructor to
\* its destructor: two would share the client's sequence numbers.
OneSessionPerFlow ==
    \A s, o \in Objects :
        Allocated(s) /\ Allocated(o) /\ id[s] = id[o] => s = o

\* The pointer that remove() finds under the thread's own id is the thread's
\* own session: a session never deletes another one, nor a null pointer.
RemoveOwn == \A s \in Objects : pc[s] = "delete" => victim[s] = s

\* The server socket is connected only after protect_socket returned for it,
\* although the session thread starts before: else its packets would be routed
\* back into the TUN device.
ProtectBeforeConnect ==
    \A s \in Objects : pc[s] \notin {"free", "first"} => protected[s]

\* A TCP session that reads past its first packet never reads a SYN: the loop
\* of connect() over repeated SYNs, recv() and close() are not met by one.
SynFiltered ==
    \A s \in Objects : pc[s] \in {"dial", "shake", "loop", "closing"} =>
        \A i \in DOMAIN pipe[s] : ~pipe[s][i].syn

\* A pipe holds packets of its session's flow only, in the order in which they
\* were read from the TUN device, none twice.
RoutedInOrder ==
    \A s \in Objects : \A i \in DOMAIN pipe[s] :
        /\ pipe[s][i].flow = id[s]
        /\ \A j \in 1..(i - 1) : pipe[s][j].num < pipe[s][i].num

\* The session of a flow: its object from constructor to destructor.
HasOwner(f) == \E s \in Objects : id[s] = f
Owner(f) == IF HasOwner(f) THEN CHOOSE s \in Objects : id[s] = f ELSE None

\* The packet that handle_packet still has to write.
InHand == IF tpc \in {"poll", "unlock"} THEN None ELSE packet

FT == INSTANCE FlowTable WITH
          Packets <- Packet,
          hand <- InHand,
          owner <- [f \in Flows |-> Owner(f)],
          queue <- [f \in Flows |-> IF HasOwner(f) THEN pipe[Owner(f)] ELSE <<>>]

\* The managers, the map, the mutexes and the threads implement the flow table:
\* one session per flow, each packet delivered once and in order.
ImplementsFlowTable == FT!Spec

\* The tunnel thread holds the mutex and waits for room in the pipe of a
\* session that waits for the mutex to remove itself.
Wedged ==
    /\ tpc = "write"
    /\ ~DropsSyn(session)
    /\ ~HasRoom(session)
    /\ pc[session] = "remove"

\* A session that left its loop is deleted, unless the threads get wedged.
RemovalCompletes ==
    \A s \in Objects : pc[s] = "remove" ~> (pc[s] = "free" \/ Wedged)

\* The tunnel thread comes back to poll the TUN device after each packet,
\* unless the threads get wedged.
TunnelReturns == tpc # "poll" ~> (tpc = "poll" \/ Wedged)

\* README: TunMode acts as a proxy "without editing or blocking any packets".
NotWedged == ~Wedged

\* Nothing ends a wedge: no thread of the program can release either of the two.
WedgeStays == [][Wedged => Wedged']_vars

\* The thread that must go on before thread t can, or None: the holder of the mutex
\* that t wants, the reader of the full pipe that it writes, the writer of the empty
\* pipe that it reads outside its loop.
TunnelWaitsFor ==
    CASE tpc = "lock" -> mtx[ManagerOf(packet.flow)]
      [] tpc = "write" /\ ~DropsSyn(session) /\ ~HasRoom(session) -> session
      [] OTHER -> None
SessionWaitsFor(s) ==
    CASE pc[s] = "remove" -> mtx[ManagerOf(id[s])]
      [] pc[s] \in {"first", "shake", "closing"} /\ pipe[s] = <<>> -> "tunnel"
      [] OTHER -> None
WaitsFor(t) ==
    CASE t = "tunnel" -> TunnelWaitsFor
      [] t \in Objects -> SessionWaitsFor(t)
      [] OTHER -> None

\* A chain of threads that wait for one another ends after three at one that waits
\* for none, unless they are wedged, for which it takes PipeCap packets in the pipe,
\* one in hand and one that the session has read: there is no other deadlock, and
\* the managers get through any burst that is shorter.
OnlyBurstsDeadlock ==
    (\E t \in Objects \cup {"tunnel"} : WaitsFor(WaitsFor(WaitsFor(t))) # None) =>
        Wedged /\ count >= PipeCap + 2

=============================================================================
