---------------------------- MODULE TunnelSessions ----------------------------
(***************************************************************************)
(* The lifecycle of the tunnel with the sessions that it carries.  A       *)
(* session is started by the tunnel thread, runs in a thread of its own,   *)
(* and writes to whatever descriptor params::tun holds; nothing waits for  *)
(* it when the tunnel is closed, and the same flag stops it that the next  *)
(* open_tunnel clears.                                                     *)
(*                                                                         *)
(* Of a session only its place is kept, and whether its pipe is empty; a   *)
(* pipe never fills here (SessionManager says what happens then).          *)
(***************************************************************************)
EXTENDS TunnelLifecycle

CONSTANTS TcpFlows, UdpFlows

Flows == TcpFlows \cup UdpFlows

ASSUME FlowAssumption == TcpFlows \cap UdpFlows = {}

VARIABLES
    where,     \* per flow: "none", or where its session's thread is
    inbox,     \* per flow: the session's pipe is not empty
    born       \* per flow: the open whose packet the session was started for

sessionVars == <<where, inbox, born>>
allVars == <<vars, sessionVars>>

InitSessions ==
    /\ Init
    /\ where = [f \in Flows |-> "none"]
    /\ inbox = [f \in Flows |-> FALSE]
    /\ born = [f \in Flows |-> None]

-----------------------------------------------------------------------------
(* The tunnel thread hands a packet to the session of its flow, which it   *)
(* starts if there is none.                                                *)

PacketIn(k, f) ==
    /\ LoopStep(k, "poll", "check")
    /\ tun \in Opens /\ fd[tun] = "open"
    /\ inbox' = [inbox EXCEPT ![f] = TRUE]
    /\ \/ /\ where[f] = "none"
          /\ where' = [where EXCEPT ![f] = "first"]
          /\ born' = [born EXCEPT ![f] = tun]
       \/ where[f] # "none" /\ UNCHANGED <<where, born>>
    /\ UNCHANGED <<javaVars, cpc, nativeVars>>

-----------------------------------------------------------------------------
(* A session thread.                                                       *)

\* From one place to another.  A session that ends takes its pipe with it.
Goes(f, from, to) ==
    /\ where[f] = from /\ where' = [where EXCEPT ![f] = to]
    /\ born' = [born EXCEPT ![f] = IF to = "none" THEN None ELSE @]
    /\ UNCHANGED vars

\* A read takes one packet, maybe the last, maybe not.
Read(f) == inbox[f] /\ inbox' \in {inbox, [inbox EXCEPT ![f] = FALSE]}
NoRead(f, to) == inbox' = [inbox EXCEPT ![f] = @ /\ to # "none"]
ReadAndEnd(f, to) ==
    IF to = "none" THEN inbox[f] /\ NoRead(f, to) ELSE Read(f)

\* The first packet of a UDP session leads into its loop; that of a TCP session
\* to ::connect, if it is a SYN.
ReadFirst(f) ==
    \E to \in (IF f \in UdpFlows THEN {"loop"} ELSE {"dial", "none"}) :
        Goes(f, "first", to) /\ ReadAndEnd(f, to)

\* SYN|ACK or a reset, and the third packet of the handshake: no timeout, and no
\* look at stop_flag.
Dial(f) == \E to \in {"shake", "none"} : Goes(f, "dial", to) /\ NoRead(f, to)
Shake(f) == \E to \in {"loop", "none"} : Goes(f, "shake", to) /\ ReadAndEnd(f, to)

\* The head of the loop, when the flag is set.  A TCP session then sends its FIN
\* and reads one or two packets.
AfterLoop(f) == IF f \in UdpFlows THEN "none" ELSE "close"
LoopLooksAway(f) == FALSE                     \* mutant: while (true)
LoopStops(f) ==
    stop_flag /\ Goes(f, "loop", AfterLoop(f)) /\ NoRead(f, AfterLoop(f))

\* The loop's end for a reason of its own: timeout, error, or the peers.
LoopEnds(f) == Goes(f, "loop", AfterLoop(f)) /\ NoRead(f, AfterLoop(f))
LoopReads(f) == where[f] = "loop" /\ Read(f) /\ UNCHANGED <<vars, where, born>>

CloseRead(f) ==
    \E to \in {"close", "none"} : Goes(f, "close", to) /\ ReadAndEnd(f, to)

SessionThread(f) ==
    \/ ReadFirst(f) \/ Dial(f) \/ Shake(f) \/ LoopStops(f) \/ CloseRead(f)

-----------------------------------------------------------------------------
NextSessions ==
    \/ Next /\ UNCHANGED sessionVars
    \/ \E k \in Opens, f \in Flows : PacketIn(k, f)
    \/ \E f \in Flows : SessionThread(f) \/ LoopEnds(f) \/ LoopReads(f)

SpecSessions == InitSessions /\ [][NextSessions]_allVars

\* As in TunnelLifecycle, and session threads run: their ::poll returns after 120
\* seconds at most, and ::connect some time.  Nobody need send a packet.
FairSessions ==
    /\ SpecSessions
    /\ WF_allVars(UI /\ UNCHANGED sessionVars)
    /\ \A k \in Opens :
          /\ WF_allVars(ConnectThread(k) /\ UNCHANGED sessionVars)
          /\ WF_allVars(\/ TunnelThread(k) /\ UNCHANGED sessionVars
                        \/ \E f \in Flows : PacketIn(k, f))
    /\ \A f \in Flows : WF_allVars(SessionThread(f))

-----------------------------------------------------------------------------
TypeOKSessions ==
    /\ TypeOK
    /\ where \in [Flows -> {"none", "first", "dial", "shake", "loop", "close"}]
    /\ inbox \in [Flows -> BOOLEAN] /\ born \in [Flows -> 0..MaxOpens]

Alive(f) == where[f] # "none"

\* As long as the device that a session's packets came from is open, the session
\* writes to that device and to no other; and one that outlives its tunnel never
\* writes to a number that was closed and may be another file's by now, but for the
\* moment between close() and the assignment of 0 in _tunnel_closed.
WritesToOwnTun == \A f \in Flows : Alive(f) =>
    /\ fd[born[f]] \in {"open", "dead"} => tun = born[f]
    /\ tun \in Opens /\ fd[tun] = "closed" => \E k \in Opens : cpc[k] = "zero"

\* A tunnel that was told to stop, and is not opened again before its sessions
\* have looked at the flag, leaves only sessions behind that wait in a read for a
\* packet that nobody will write; no UDP session is among them.
Blocked(f) == f \in TcpFlows /\ where[f] \in {"shake", "close"} /\ ~inbox[f]
OnlyBlockedRemain ==
    <>[]stop_flag => <>[](\A f \in Flows : Alive(f) => Blocked(f))
=============================================================================
