------------------------- MODULE SessionManagerProofs -------------------------
(***************************************************************************)
(* Proofs about SessionManager for every set of flows and objects, every   *)
(* pipe capacity and every number of packets.                              *)
(***************************************************************************)
EXTENDS SessionManager, TLAPS

-----------------------------------------------------------------------------
(* The inductive invariant, in parts.                                      *)

\* An object has a flow exactly while it is allocated.
IdInv == \A s \in Objects : pc[s] = "free" <=> id[s] = None

\* The tunnel thread has a packet between poll and the end of handle_packet.
PacketInv == packet = None <=> tpc = "poll"

\* The mutex of a manager is held by the tunnel thread inside handle_packet,
\* and by a session thread inside remove().
TunnelHolds(m) == tpc \notin {"poll", "lock"} /\ ManagerOf(packet.flow) = m
SessionHolds(s, m) == pc[s] \in {"erase", "delete"} /\ ManagerOf(id[s]) = m

MutexInv ==
    \A m \in Managers :
        /\ mtx[m] = "tunnel" <=> TunnelHolds(m)
        /\ \A s \in Objects : mtx[m] = s <=> SessionHolds(s, m)

\* The session in the tunnel thread's hands: new and unknown to the map until
\* InsertSession, the map's entry for the packet's flow after it.
Fresh(s) == tpc \in {"protect", "insert"} /\ session = s

SessionInv ==
    /\ tpc \in {"protect", "insert", "write"} =>
           session # None /\ id[session] = packet.flow
    /\ tpc \in {"protect", "insert"} =>
           /\ pc[session] = "first"
           /\ pipe[session] = <<>>
           /\ sessions[packet.flow] = None
    /\ tpc = "write" => sessions[packet.flow] = session

\* An entry of the map is a live session of that flow, and each live session is
\* in the map unless it is new or being deleted.
MapInv ==
    /\ \A f \in Flows : Contains(f) =>
           id[sessions[f]] = f /\ pc[sessions[f]] # "delete"
    /\ \A s \in Objects : Allocated(s) =>
           \/ sessions[id[s]] = s
           \/ pc[s] = "delete"
           \/ Fresh(s)
    /\ \A s \in Objects : pc[s] = "delete" =>
           victim[s] = s /\ sessions[id[s]] = None

ProtectInv ==
    \A s \in Objects : Allocated(s) =>
        protected[s] \/ (tpc = "protect" /\ session = s)

-----------------------------------------------------------------------------
(* Type correctness.                                                       *)

\* Every flow has a manager.
LEMMA ManagerType == \A f : ManagerOf(f) \in Managers
BY DEF ManagerOf, Managers

\* Reading and writing keep a pipe a sequence of packets within its capacity.
PipesOK(p) ==
    /\ p \in [Objects -> Seq(Packet)]
    /\ \A s \in Objects : Len(p[s]) <= PipeCap

\* Reading from a session's pipe keeps the types.
LEMMA ReadPipeType ==
  ASSUME PipesOK(pipe), NEW s \in Objects, ReadPipe(s)
  PROVE  PipesOK(pipe')
<1>1. pipe[s] \in Seq(Packet) /\ pipe[s] # <<>>
  BY DEF PipesOK, ReadPipe
<1>2. Tail(pipe[s]) \in Seq(Packet) /\ Len(Tail(pipe[s])) = Len(pipe[s]) - 1
  BY <1>1
<1> QED
  BY <1>1, <1>2, ConstAssumption DEF PipesOK, ReadPipe

\* Writing to a session's pipe keeps the types.
LEMMA WritePipeType ==
  ASSUME PipesOK(pipe), NEW s \in Objects, HasRoom(s), packet \in Packet,
         pipe' = [pipe EXCEPT ![s] = Append(@, packet)]
  PROVE  PipesOK(pipe')
<1>1. pipe[s] \in Seq(Packet) /\ Len(pipe[s]) < PipeCap
  BY DEF PipesOK, HasRoom
<1>2. /\ Append(pipe[s], packet) \in Seq(Packet)
      /\ Len(Append(pipe[s], packet)) = Len(pipe[s]) + 1
  BY <1>1
<1> QED
  BY <1>1, <1>2, ConstAssumption DEF PipesOK

\* close() waits for one or two packets.
ReadsInv == \A s \in Objects : pc[s] = "closing" => reads[s] \in 1..2

TypeInv == TypeOK /\ IdInv /\ PacketInv /\ ReadsInv

\* The first states have the types.
LEMMA TypeInit == Init => TypeInv
BY ConstAssumption
   DEF Init, TypeInv, TypeOK, IdInv, PacketInv, ReadsInv, TunnelPC, SessionPC

\* Every step keeps the types.
LEMMA TypeNext == TypeInv /\ [Next]_vars => TypeInv'
<1> SUFFICES ASSUME TypeInv, [Next]_vars PROVE TypeInv'
  OBVIOUS
<1> USE ConstAssumption, ManagerType DEF TypeInv, TypeOK, IdInv, PacketInv, ReadsInv
<1>p. PipesOK(pipe)
  BY DEF PipesOK
<1>1. ASSUME NEW f \in Flows, NEW syn \in BOOLEAN, ReadTun(f, syn) PROVE TypeInv'
  <2>1. packet' \in Packet
    BY <1>1 DEF ReadTun, Packet
  <2> QED
    BY <1>1, <2>1 DEF ReadTun, objVars, TunnelPC
<1>2. ASSUME HandlePacket PROVE TypeInv'
  BY <1>2 DEF HandlePacket, objVars, TunnelPC
<1>3. ASSUME GetSession PROVE TypeInv'
  BY <1>3 DEF GetSession, objVars, TunnelPC, Contains, Packet
<1>4. ASSUME NEW s \in Objects, AddSession(s) PROVE TypeInv'
  <2>1. packet.flow \in Flows /\ packet.flow # None
    BY <1>4 DEF AddSession, Packet
  <2> QED
    BY <1>4, <2>1 DEF AddSession, TunnelPC, SessionPC, Allocated
<1>5. ASSUME ProtectSocket PROVE TypeInv'
  BY <1>5 DEF ProtectSocket, TunnelPC
<1>6. ASSUME InsertSession PROVE TypeInv'
  BY <1>6 DEF InsertSession, objVars, TunnelPC
<1>7. ASSUME WritePipe PROVE TypeInv'
  <2>1. CASE session = None
    BY <1>7, <2>1 DEF WritePipe, TunnelPC
  <2>2. CASE session # None
    <3>1. PipesOK(pipe')
      BY <1>7, <1>p, <2>2, WritePipeType DEF WritePipe
    <3> QED
      BY <1>7, <2>2, <3>1 DEF WritePipe, TunnelPC, PipesOK, Packet
  <2> QED
    BY <2>1, <2>2
<1>8. ASSUME SkipSyn PROVE TypeInv'
  BY <1>8 DEF SkipSyn, objVars, TunnelPC
<1>9. ASSUME HandlePacketReturns PROVE TypeInv'
  BY <1>9 DEF HandlePacketReturns, objVars, TunnelPC
<1>10. ASSUME NEW s \in Objects, ReadFirst(s) PROVE TypeInv'
  <2>1. PipesOK(pipe')
    BY <1>10, <1>p, ReadPipeType DEF ReadFirst
  <2> QED
    BY <1>10, <2>1 DEF ReadFirst, PipesOK, Goto, SessionPC, tunVars
<1>11. ASSUME NEW s \in Objects, Dial(s) PROVE TypeInv'
  BY <1>11 DEF Dial, Goto, SessionPC, tunVars
<1>12. ASSUME NEW s \in Objects, Shake(s) PROVE TypeInv'
  <2>1. PipesOK(pipe')
    BY <1>12, <1>p, ReadPipeType DEF Shake
  <2> QED
    BY <1>12, <2>1 DEF Shake, PipesOK, Goto, SessionPC, tunVars
<1>13. ASSUME NEW s \in Objects, Recv(s) PROVE TypeInv'
  <2>1. PipesOK(pipe')
    BY <1>13, <1>p, ReadPipeType DEF Recv
  <2> QED
    BY <1>13, <2>1 DEF Recv, PipesOK, tunVars
<1>14. ASSUME NEW s \in Objects, CloseRead(s) PROVE TypeInv'
  <2>1. PipesOK(pipe')
    BY <1>14, <1>p, ReadPipeType DEF CloseRead
  <2>2. reads' \in [Objects -> 0..2] /\ ReadsInv'
    BY <1>14 DEF CloseRead, Goto
  <2> QED
    BY <1>14, <2>1, <2>2 DEF CloseRead, PipesOK, Goto, SessionPC, tunVars
<1>15. ASSUME NEW s \in Objects, RemoveLock(s) PROVE TypeInv'
  BY <1>15 DEF RemoveLock, Goto, SessionPC, tunVars
<1>16. ASSUME NEW s \in Objects, Erase(s) PROVE TypeInv'
  BY <1>16 DEF Erase, Goto, SessionPC, tunVars
<1>17. ASSUME NEW s \in Objects, Delete(s) PROVE TypeInv'
  BY <1>17 DEF Delete, SessionPC, tunVars
<1>18. ASSUME NEW s \in Objects, NEW k \in 0..2, Break(s, k) PROVE TypeInv'
  BY <1>18 DEF Break, Goto, SessionPC, tunVars
<1>19. CASE UNCHANGED vars
  BY <1>19 DEF vars, tunVars, objVars
<1> QED
  BY <1>1, <1>2, <1>3, <1>4, <1>5, <1>6, <1>7, <1>8, <1>9, <1>10, <1>11, <1>12, <1>13, <1>14,
     <1>15, <1>16, <1>17, <1>18, <1>19
     DEF Next, TunnelStep, SessionStep

-----------------------------------------------------------------------------
(* The invariant of the mutexes, the map and the session objects.          *)

TableInv == MutexInv /\ SessionInv /\ MapInv /\ OneSessionPerFlow /\ ProtectInv

\* The first states satisfy the table's invariant.
LEMMA TableInit == Init => TableInv
BY ConstAssumption
   DEF Init, TableInv, MutexInv, TunnelHolds, SessionHolds, SessionInv, MapInv,
       Contains, Allocated, OneSessionPerFlow, ProtectInv, Managers

\* A session thread that reads its pipe, connects, or leaves its loop changes
\* nothing that the managers rely on.
Quiet(s, label) ==
    /\ pc[s] \notin {"free", "erase", "delete"}
    /\ label \notin {"free", "erase", "delete"}
    /\ ~Fresh(s)
    /\ pc' = [pc EXCEPT ![s] = label]
    /\ \A o \in Objects \ {s} : pipe'[o] = pipe[o]
    /\ UNCHANGED <<mtx, sessions, tpc, packet, session, id, protected, victim>>

\* A step of a session thread that touches no map, mutex or field keeps the table's invariant.
LEMMA QuietStep ==
  ASSUME TypeInv, TableInv, NEW s \in Objects, NEW label, Quiet(s, label)
  PROVE  TableInv'
<1> USE DEF TypeInv, TypeOK, TableInv, Quiet
<1>1. MutexInv'
  BY DEF MutexInv, TunnelHolds, SessionHolds
<1>2. SessionInv'
  BY DEF SessionInv, Fresh
<1>3. MapInv'
  BY DEF MapInv, Contains, Allocated, Fresh
<1>4. OneSessionPerFlow'
  BY DEF OneSessionPerFlow, Allocated
<1>5. ProtectInv'
  BY DEF ProtectInv, Allocated
<1> QED
  BY <1>1, <1>2, <1>3, <1>4, <1>5

\* While the tunnel thread is inside handle_packet no session of the packet's
\* flow is being removed.
LEMMA Exclusion ==
  ASSUME TypeInv, TableInv, NEW s \in Objects, pc[s] \in {"erase", "delete"},
         tpc \notin {"poll", "lock"}
  PROVE  /\ id[s] # packet.flow
         /\ tpc \in {"protect", "insert", "write"} => session # s
<1>1. ManagerOf(id[s]) # ManagerOf(packet.flow)
  BY ConstAssumption, ManagerType
     DEF TypeInv, TypeOK, TableInv, MutexInv, TunnelHolds, SessionHolds
<1> QED
  BY <1>1 DEF TableInv, SessionInv

\* When get_or_add finds no entry, the flow has no session object at all.
LEMMA NoObject ==
  ASSUME TypeInv, TableInv, tpc = "get_or_add", ~Contains(packet.flow)
  PROVE  \A o \in Objects : Allocated(o) => id[o] # packet.flow
<1> SUFFICES ASSUME NEW o \in Objects, Allocated(o), id[o] = packet.flow
             PROVE FALSE
  OBVIOUS
<1>1. pc[o] # "delete"
  BY Exclusion
<1>2. sessions[id[o]] = o
  BY <1>1 DEF TableInv, MapInv, Fresh
<1> QED
  BY <1>2, ConstAssumption DEF Contains

\* Every step keeps the table's invariant.
LEMMA TableNext == TypeInv /\ TypeInv' /\ TableInv /\ [Next]_vars => TableInv'
<1> SUFFICES ASSUME TypeInv, TypeInv', TableInv, [Next]_vars PROVE TableInv'
  OBVIOUS
<1> USE ConstAssumption, ManagerType DEF TypeInv, TypeOK, TableInv
<1>1. ASSUME NEW f \in Flows, NEW syn \in BOOLEAN, ReadTun(f, syn) PROVE TableInv'
  <2> USE <1>1 DEF ReadTun, objVars
  <2>1. MutexInv'
    BY DEF MutexInv, TunnelHolds, SessionHolds
  <2>2. SessionInv'
    BY DEF SessionInv
  <2>3. MapInv'
    BY DEF MapInv, Contains, Allocated, Fresh
  <2>4. OneSessionPerFlow'
    BY DEF OneSessionPerFlow, Allocated
  <2>5. ProtectInv'
    BY DEF ProtectInv, Allocated
  <2> QED
    BY <2>1, <2>2, <2>3, <2>4, <2>5
<1>2. ASSUME HandlePacket PROVE TableInv'
  <2> USE <1>2 DEF HandlePacket, objVars, LockFree
  <2>1. MutexInv'
    BY DEF MutexInv, TunnelHolds, SessionHolds
  <2>2. SessionInv'
    BY DEF SessionInv
  <2>3. MapInv'
    BY DEF MapInv, Contains, Allocated, Fresh
  <2>4. OneSessionPerFlow'
    BY DEF OneSessionPerFlow, Allocated
  <2>5. ProtectInv'
    BY DEF ProtectInv, Allocated
  <2> QED
    BY <2>1, <2>2, <2>3, <2>4, <2>5
<1>3. ASSUME GetSession PROVE TableInv'
  <2> USE <1>3 DEF GetSession, objVars
  <2>1. MutexInv'
    BY DEF MutexInv, TunnelHolds, SessionHolds
  <2>2. SessionInv'
    BY DEF SessionInv, MapInv, Contains, Packet, PacketInv
  <2>3. MapInv'
    BY DEF MapInv, Contains, Allocated, Fresh
  <2>4. OneSessionPerFlow'
    BY DEF OneSessionPerFlow, Allocated
  <2>5. ProtectInv'
    BY DEF ProtectInv, Allocated
  <2> QED
    BY <2>1, <2>2, <2>3, <2>4, <2>5
<1>4. ASSUME NEW s \in Objects, AddSession(s) PROVE TableInv'
  <2> USE <1>4 DEF AddSession
  <2>a. packet.flow \in Flows
    BY DEF Packet, PacketInv
  <2>b. \A o \in Objects : Allocated(o) => id[o] # packet.flow
    BY NoObject
  <2>c. \A o \in Objects :
           /\ pc'[o] = IF o = s THEN "first" ELSE pc[o]
           /\ id'[o] = IF o = s THEN packet.flow ELSE id[o]
           /\ pipe'[o] = IF o = s THEN <<>> ELSE pipe[o]
    OBVIOUS
  <2>1. MutexInv'
    <3>1. \A m \in Managers : TunnelHolds(m)' <=> TunnelHolds(m)
      BY DEF TunnelHolds
    <3>2. \A m \in Managers, o \in Objects : SessionHolds(o, m)' <=> SessionHolds(o, m)
      BY <2>c DEF SessionHolds, Allocated
    <3> QED
      BY <3>1, <3>2 DEF MutexInv
  <2>2. SessionInv'
    BY <2>a, <2>b, <2>c DEF SessionInv, Contains
  <2>3. MapInv'
    <3>1. ASSUME NEW f \in Flows, Contains(f)
          PROVE  id'[sessions[f]] = f /\ pc'[sessions[f]] # "delete"
      BY <2>c, <3>1 DEF MapInv, IdInv, Contains, Allocated
    <3>2. ASSUME NEW o \in Objects, pc'[o] # "free"
          PROVE  \/ sessions[id'[o]] = o
                 \/ pc'[o] = "delete"
                 \/ o = s
      BY <2>c, <3>2 DEF MapInv, Allocated, Fresh
    <3>3. ASSUME NEW o \in Objects, pc'[o] = "delete"
          PROVE  victim[o] = o /\ sessions[id'[o]] = None
      BY <2>c, <3>3 DEF MapInv
    <3> QED
      BY <3>1, <3>2, <3>3 DEF MapInv, Contains, Allocated, Fresh
  <2>4. OneSessionPerFlow'
    BY <2>a, <2>b, <2>c DEF OneSessionPerFlow, Allocated
  <2>5. ProtectInv'
    BY <2>a, <2>b, <2>c DEF ProtectInv, Allocated
  <2> QED
    BY <2>1, <2>2, <2>3, <2>4, <2>5
<1>5. ASSUME ProtectSocket PROVE TableInv'
  <2> USE <1>5 DEF ProtectSocket
  <2>1. MutexInv'
    BY DEF MutexInv, TunnelHolds, SessionHolds
  <2>2. SessionInv'
    BY DEF SessionInv
  <2>3. MapInv'
    BY DEF MapInv, Contains, Allocated, Fresh
  <2>4. OneSessionPerFlow'
    BY DEF OneSessionPerFlow, Allocated
  <2>5. ProtectInv'
    BY DEF ProtectInv, Allocated
  <2> QED
    BY <2>1, <2>2, <2>3, <2>4, <2>5
<1>6. ASSUME InsertSession PROVE TableInv'
  <2> USE <1>6 DEF InsertSession, objVars
  <2>a. packet.flow \in Flows /\ session \in Objects /\ id[session] = packet.flow
    BY DEF Packet, PacketInv, SessionInv
  <2>1. MutexInv'
    BY <2>a DEF MutexInv, TunnelHolds, SessionHolds
  <2>2. SessionInv'
    BY <2>a DEF SessionInv
  <2>3. MapInv'
    <3>1. \A f \in Flows :
             sessions'[f] = IF f = packet.flow THEN session ELSE sessions[f]
      OBVIOUS
    <3>2. ASSUME NEW f \in Flows, sessions'[f] # None
          PROVE  id[sessions'[f]] = f /\ pc[sessions'[f]] # "delete"
      BY <2>a, <3>1, <3>2 DEF MapInv, SessionInv, Contains
    <3>3. ASSUME NEW o \in Objects, Allocated(o)
          PROVE  sessions'[id[o]] = o \/ pc[o] = "delete"
      BY <2>a, <3>1, <3>3 DEF MapInv, IdInv, SessionInv, OneSessionPerFlow,
            Allocated, Fresh
    <3>4. ASSUME NEW o \in Objects, pc[o] = "delete"
          PROVE  victim[o] = o /\ sessions'[id[o]] = None
      <4>1. id[o] # packet.flow /\ id[o] \in Flows
        BY <3>4, Exclusion DEF IdInv
      <4> QED
        BY <3>1, <3>4, <4>1 DEF MapInv
    <3> QED
      BY <3>2, <3>3, <3>4 DEF MapInv, Contains, Allocated, Fresh
  <2>4. OneSessionPerFlow'
    BY <2>a DEF OneSessionPerFlow, Allocated
  <2>5. ProtectInv'
    BY <2>a DEF ProtectInv, Allocated
  <2> QED
    BY <2>1, <2>2, <2>3, <2>4, <2>5
<1>7. ASSUME WritePipe PROVE TableInv'
  <2> USE <1>7 DEF WritePipe
  <2>1. MutexInv'
    BY DEF MutexInv, TunnelHolds, SessionHolds
  <2>2. SessionInv'
    BY DEF SessionInv
  <2>3. MapInv'
    BY DEF MapInv, Contains, Allocated, Fresh
  <2>4. OneSessionPerFlow'
    BY DEF OneSessionPerFlow, Allocated
  <2>5. ProtectInv'
    BY DEF ProtectInv, Allocated
  <2> QED
    BY <2>1, <2>2, <2>3, <2>4, <2>5
<1>8. ASSUME SkipSyn PROVE TableInv'
  <2> USE <1>8 DEF SkipSyn, objVars
  <2>1. MutexInv'
    BY DEF MutexInv, TunnelHolds, SessionHolds
  <2>2. SessionInv'
    BY DEF SessionInv
  <2>3. MapInv'
    BY DEF MapInv, Contains, Allocated, Fresh
  <2>4. OneSessionPerFlow'
    BY DEF OneSessionPerFlow, Allocated
  <2>5. ProtectInv'
    BY DEF ProtectInv, Allocated
  <2> QED
    BY <2>1, <2>2, <2>3, <2>4, <2>5
<1>9. ASSUME HandlePacketReturns PROVE TableInv'
  <2> USE <1>9 DEF HandlePacketReturns, objVars
  <2>1. MutexInv'
    BY DEF MutexInv, TunnelHolds, SessionHolds
  <2>2. SessionInv'
    BY DEF SessionInv
  <2>3. MapInv'
    BY DEF MapInv, Contains, Allocated, Fresh
  <2>4. OneSessionPerFlow'
    BY DEF OneSessionPerFlow, Allocated
  <2>5. ProtectInv'
    BY DEF ProtectInv, Allocated
  <2> QED
    BY <2>1, <2>2, <2>3, <2>4, <2>5
<1>10. ASSUME NEW s \in Objects, ReadFirst(s) PROVE TableInv'
  <2> DEFINE label == IF IsTcp(s) /\ ~Head(pipe[s]).syn THEN "remove" ELSE "dial"
  <2>1. Quiet(s, label)
    BY <1>10 DEF ReadFirst, Quiet, ReadPipe, Goto, Fresh, SessionInv, tunVars
  <2> QED
    BY <2>1, QuietStep
<1>11. ASSUME NEW s \in Objects, Dial(s) PROVE TableInv'
  <2>1. PICK label \in {"shake", "remove", "loop"} : Quiet(s, label)
    BY <1>11 DEF Dial, Quiet, Goto, Fresh, SessionInv, tunVars
  <2> QED
    BY <2>1, QuietStep
<1>12. ASSUME NEW s \in Objects, Shake(s) PROVE TableInv'
  <2>1. PICK label \in {"loop", "remove"} : Quiet(s, label)
    BY <1>12 DEF Shake, Quiet, ReadPipe, Goto, Fresh, SessionInv, tunVars
  <2> QED
    BY <2>1, QuietStep
<1>13. ASSUME NEW s \in Objects, Recv(s) PROVE TableInv'
  <2> DEFINE label == "loop"
  <2>1. Quiet(s, label)
    BY <1>13 DEF Recv, Quiet, ReadPipe, Fresh, SessionInv, tunVars
  <2> QED
    BY <2>1, QuietStep
<1>14. ASSUME NEW s \in Objects, CloseRead(s) PROVE TableInv'
  <2> DEFINE label == IF reads[s] = 1 THEN "remove" ELSE "closing"
  <2>1. Quiet(s, label)
    BY <1>14 DEF CloseRead, Quiet, ReadPipe, Goto, Fresh, SessionInv, tunVars
  <2> QED
    BY <2>1, QuietStep
<1>15. ASSUME NEW s \in Objects, RemoveLock(s) PROVE TableInv'
  <2> USE <1>15 DEF RemoveLock, tunVars, Goto, LockFree
  <2>1. MutexInv'
    BY DEF MutexInv, TunnelHolds, SessionHolds
  <2>2. SessionInv'
    BY DEF SessionInv
  <2>3. MapInv'
    BY DEF MapInv, Contains, Allocated, Fresh
  <2>4. OneSessionPerFlow'
    BY DEF OneSessionPerFlow, Allocated
  <2>5. ProtectInv'
    BY DEF ProtectInv, Allocated
  <2> QED
    BY <2>1, <2>2, <2>3, <2>4, <2>5
<1>16. ASSUME NEW s \in Objects, Erase(s) PROVE TableInv'
  <2> USE <1>16 DEF Erase, tunVars, Goto
  <2>a. tpc \notin {"poll", "lock"} =>
           /\ id[s] # packet.flow
           /\ tpc \in {"protect", "insert", "write"} => session # s
    BY Exclusion
  <2>b. id[s] \in Flows /\ sessions[id[s]] = s
    BY <2>a DEF MapInv, IdInv, Allocated, Fresh
  <2>1. MutexInv'
    BY <2>a, <2>b DEF MutexInv, TunnelHolds, SessionHolds
  <2>2. SessionInv'
    BY <2>a, <2>b DEF SessionInv
  <2>3. MapInv'
    BY <2>a, <2>b DEF MapInv, Contains, Allocated, Fresh
  <2>4. OneSessionPerFlow'
    BY <2>a, <2>b DEF OneSessionPerFlow, Allocated
  <2>5. ProtectInv'
    BY <2>a, <2>b DEF ProtectInv, Allocated
  <2> QED
    BY <2>1, <2>2, <2>3, <2>4, <2>5
<1>17. ASSUME NEW s \in Objects, Delete(s) PROVE TableInv'
  <2> USE <1>17 DEF Delete, tunVars
  <2>a. tpc \notin {"poll", "lock"} =>
           /\ id[s] # packet.flow
           /\ tpc \in {"protect", "insert", "write"} => session # s
    BY Exclusion
  <2>b. id[s] \in Flows /\ sessions[id[s]] = None /\ victim[s] = s
    BY DEF MapInv, IdInv
  <2>c. \A o \in Objects :
           /\ pc'[o] = IF o = s THEN "free" ELSE pc[o]
           /\ id'[o] = IF o = s THEN None ELSE id[o]
           /\ pipe'[o] = IF o = s THEN <<>> ELSE pipe[o]
    BY <2>b
  <2>1. MutexInv'
    BY <2>a, <2>b, <2>c DEF MutexInv, TunnelHolds, SessionHolds
  <2>2. SessionInv'
    BY <2>a, <2>b, <2>c DEF SessionInv
  <2>3. MapInv'
    BY <2>a, <2>b, <2>c DEF MapInv, Contains, Allocated, Fresh
  <2>4. OneSessionPerFlow'
    BY <2>a, <2>b, <2>c DEF OneSessionPerFlow, Allocated
  <2>5. ProtectInv'
    BY <2>a, <2>b, <2>c DEF ProtectInv, Allocated
  <2> QED
    BY <2>1, <2>2, <2>3, <2>4, <2>5
<1>18. ASSUME NEW s \in Objects, NEW k \in 0..2, Break(s, k) PROVE TableInv'
  <2> DEFINE label == IF k = 0 THEN "remove" ELSE "closing"
  <2>1. Quiet(s, label)
    BY <1>18 DEF Break, Quiet, Goto, Fresh, SessionInv, tunVars
  <2> QED
    BY <2>1, QuietStep
<1>19. CASE UNCHANGED vars
  BY <1>19 DEF vars, tunVars, objVars, MutexInv, TunnelHolds, SessionHolds, SessionInv,
     MapInv, Contains, Allocated, Fresh, OneSessionPerFlow, ProtectInv
<1> QED
  BY <1>1, <1>2, <1>3, <1>4, <1>5, <1>6, <1>7, <1>8, <1>9, <1>10, <1>11, <1>12, <1>13, <1>14,
     <1>15, <1>16, <1>17, <1>18, <1>19
     DEF Next, TunnelStep, SessionStep

-----------------------------------------------------------------------------
(* The theorems.                                                           *)

IInv == TypeInv /\ TableInv

\* Types and table: the inductive invariant holds in every state.
THEOREM IInvariant == Spec => []IInv
<1>1. Init => IInv
  BY TypeInit, TableInit DEF IInv
<1>2. IInv /\ [Next]_vars => IInv'
  BY TypeNext, TableNext DEF IInv
<1> QED
  BY <1>1, <1>2, PTL DEF Spec

\* Every variable keeps the type of its field; no pipe holds more than PipeCap
\* packets.
THEOREM TypeCorrect == Spec => []TypeOK
<1>1. IInv => TypeOK
  BY DEF IInv, TypeInv
<1> QED
  BY <1>1, IInvariant, PTL

\* handle_packet never uses a session that is being deleted or was, nor one of
\* another flow (sessionmanager.cxx get_or_add and remove under one mutex).
THEOREM NoUseAfterFree == Spec => []NoDangling
<1>1. IInv => NoDangling
  <2> SUFFICES ASSUME IInv, tpc \in {"protect", "insert", "write"}
               PROVE  /\ session # None
                      /\ pc[session] \notin {"free", "erase", "delete"}
                      /\ id[session] = packet.flow
    BY DEF NoDangling
  <2> USE DEF IInv, TypeInv, TypeOK
  <2>1. session \in Objects /\ id[session] = packet.flow /\ packet.flow \in Flows
    BY DEF TableInv, SessionInv, PacketInv, Packet
  <2>2. pc[session] # "free"
    BY <2>1, ConstAssumption DEF IdInv
  <2>3. pc[session] \notin {"erase", "delete"}
    BY <2>1, Exclusion
  <2> QED
    BY <2>1, <2>2, <2>3, ConstAssumption
<1> QED
  BY <1>1, IInvariant, PTL

\* A flow never has two Session objects, not even while one is being deleted.
THEOREM OneSession == Spec => []OneSessionPerFlow
<1>1. IInv => OneSessionPerFlow
  BY DEF IInv, TableInv
<1> QED
  BY <1>1, IInvariant, PTL

\* A session thread deletes its own Session object and no other.
THEOREM DeletesItself == Spec => []RemoveOwn
<1>1. IInv => RemoveOwn
  BY DEF IInv, TableInv, MapInv, RemoveOwn
<1> QED
  BY <1>1, IInvariant, PTL

\* No server socket is connected before protect_socket has returned for it.
THEOREM ProtectedFirst == Spec => []ProtectBeforeConnect
<1>1. IInv => ProtectBeforeConnect
  BY DEF IInv, TableInv, SessionInv, ProtectInv, ProtectBeforeConnect, Allocated
<1> QED
  BY <1>1, IInvariant, PTL
=============================================================================
