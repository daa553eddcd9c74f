----------------------- MODULE SessionManagerRefinement -----------------------
(***************************************************************************)
(* The managers, their map, their mutexes and the threads implement the    *)
(* flow table: each step of SessionManager is a step of FlowTable under    *)
(* the mapping of FT, or leaves the mapped variables as they are.          *)
(***************************************************************************)
EXTENDS SessionManagerProofs

-----------------------------------------------------------------------------
(* The mapped variables.                                                   *)

\* The owner of a flow is the one object with that id.
LEMMA OwnerIs ==
  ASSUME TypeInv, OneSessionPerFlow, NEW f \in Flows, NEW s \in Objects, id[s] = f
  PROVE  HasOwner(f) /\ Owner(f) = s
<1>1. \A o \in Objects : id[o] = f => o = s
  BY ConstAssumption DEF TypeInv, IdInv, OneSessionPerFlow, Allocated
<1> QED
  BY <1>1 DEF HasOwner, Owner

\* A flow without a session has no owner.
LEMMA NoOwner ==
  ASSUME NEW f \in Flows, ~HasOwner(f)
  PROVE  Owner(f) = None
BY DEF Owner

\* The owner of a flow is an object with its id.
LEMMA OwnerType ==
  ASSUME NEW f \in Flows, HasOwner(f)
  PROVE  Owner(f) \in Objects /\ id[Owner(f)] = f
BY DEF HasOwner, Owner

AbsOwner == [f \in Flows |-> Owner(f)]
AbsQueue == [f \in Flows |-> IF HasOwner(f) THEN pipe[Owner(f)] ELSE <<>>]

\* A step that changes no id changes no owner.
LEMMA SameOwner ==
  ASSUME UNCHANGED id
  PROVE  /\ AbsOwner' = AbsOwner
         /\ \A f \in Flows : HasOwner(f)' = HasOwner(f) /\ Owner(f)' = Owner(f)
BY DEF AbsOwner, HasOwner, Owner

\* A step that changes no id and no pipe changes no queue either.
LEMMA SameTable ==
  ASSUME UNCHANGED <<id, pipe>>
  PROVE  AbsOwner' = AbsOwner /\ AbsQueue' = AbsQueue
<1>1. AbsQueue' = AbsQueue
  BY SameOwner DEF AbsQueue
<1> QED
  BY <1>1, SameOwner

\* A step that changes one pipe changes the queue of its flow alone.
LEMMA OnePipe ==
  ASSUME TypeInv, OneSessionPerFlow, UNCHANGED id,
         NEW s \in Objects, id[s] \in Flows, NEW q, pipe' = [pipe EXCEPT ![s] = q]
  PROVE  /\ AbsOwner' = AbsOwner
         /\ AbsQueue' = [AbsQueue EXCEPT ![id[s]] = q]
         /\ AbsQueue[id[s]] = pipe[s]
         /\ AbsOwner[id[s]] = s
<1>1. HasOwner(id[s]) /\ Owner(id[s]) = s
  BY OwnerIs
<1>2. \A f \in Flows : f # id[s] /\ HasOwner(f) => Owner(f) # s
  BY OwnerType
<1>3. ASSUME NEW f \in Flows
      PROVE  AbsQueue'[f] = IF f = id[s] THEN q ELSE AbsQueue[f]
  <2>1. HasOwner(f)' = HasOwner(f) /\ Owner(f)' = Owner(f)
    BY SameOwner
  <2>2. HasOwner(f) => pipe'[Owner(f)] = IF f = id[s] THEN q ELSE pipe[Owner(f)]
    BY <1>1, <1>2, OwnerType DEF TypeInv, TypeOK
  <2> QED
    BY <1>1, <2>1, <2>2 DEF AbsQueue
<1>4. AbsQueue' = [AbsQueue EXCEPT ![id[s]] = q]
  BY <1>3 DEF AbsQueue
<1> QED
  BY <1>1, <1>4, SameOwner DEF AbsOwner, AbsQueue

\* An object that gets its id owns its flow, with an empty queue.
LEMMA Opened ==
  ASSUME TypeInv, NEW s \in Objects, NEW f \in Flows,
         id[s] = None, ~HasOwner(f),
         id' = [id EXCEPT ![s] = f], pipe' = [pipe EXCEPT ![s] = <<>>]
  PROVE  /\ AbsOwner' = [AbsOwner EXCEPT ![f] = s]
         /\ AbsQueue' = AbsQueue
<1>1. ASSUME NEW g \in Flows, g # f
      PROVE  HasOwner(g)' = HasOwner(g) /\ Owner(g)' = Owner(g)
  <2>1. \A o \in Objects : (id'[o] = g) <=> (id[o] = g)
    BY <1>1, ConstAssumption DEF TypeInv, TypeOK
  <2> QED
    BY <2>1 DEF HasOwner, Owner
<1>2. \A o \in Objects : id'[o] = f <=> o = s
  BY DEF HasOwner, TypeInv, TypeOK
<1>3. HasOwner(f)' /\ Owner(f)' = s
  BY <1>2 DEF HasOwner, Owner
<1>4. \A g \in Flows : g # f /\ HasOwner(g) => pipe'[Owner(g)] = pipe[Owner(g)]
  BY OwnerType, ConstAssumption DEF TypeInv, TypeOK
<1>5. pipe'[s] = <<>>
  BY DEF TypeInv, TypeOK
<1>6. AbsQueue' = AbsQueue
  BY <1>1, <1>3, <1>4, <1>5 DEF AbsQueue
<1>7. AbsOwner' = [AbsOwner EXCEPT ![f] = s]
  BY <1>1, <1>3 DEF AbsOwner
<1> QED
  BY <1>6, <1>7

\* An object that loses its id leaves its flow without owner.
LEMMA Closed ==
  ASSUME TypeInv, OneSessionPerFlow, NEW s \in Objects, NEW f \in Flows, id[s] = f,
         id' = [id EXCEPT ![s] = None], pipe' = [pipe EXCEPT ![s] = <<>>]
  PROVE  /\ AbsOwner[f] = s
         /\ AbsOwner' = [AbsOwner EXCEPT ![f] = None]
         /\ AbsQueue' = [AbsQueue EXCEPT ![f] = <<>>]
<1>1. ASSUME NEW g \in Flows, g # f
      PROVE  HasOwner(g)' = HasOwner(g) /\ Owner(g)' = Owner(g)
  <2>1. \A o \in Objects : (id'[o] = g) <=> (id[o] = g)
    BY <1>1, ConstAssumption DEF TypeInv, TypeOK
  <2> QED
    BY <2>1 DEF HasOwner, Owner
<1>2. HasOwner(f) /\ Owner(f) = s
  BY OwnerIs
<1>3. \A o \in Objects : id'[o] # f
  <2>1. \A o \in Objects : id[o] = f => o = s
    BY ConstAssumption DEF TypeInv, IdInv, OneSessionPerFlow, Allocated
  <2> QED
    BY <2>1, ConstAssumption DEF TypeInv, TypeOK
<1>4. ~HasOwner(f)' /\ Owner(f)' = None
  BY <1>3 DEF HasOwner, Owner
<1>5. \A g \in Flows : g # f /\ HasOwner(g) => pipe'[Owner(g)] = pipe[Owner(g)]
  BY OwnerType DEF TypeInv, TypeOK
<1>6. AbsQueue' = [AbsQueue EXCEPT ![f] = <<>>]
  BY <1>1, <1>4, <1>5 DEF AbsQueue
<1>7. AbsOwner' = [AbsOwner EXCEPT ![f] = None]
  BY <1>1, <1>4 DEF AbsOwner
<1> QED
  BY <1>2, <1>6, <1>7 DEF AbsOwner

-----------------------------------------------------------------------------
\* The first states are first states of FlowTable.
LEMMA RefineInit == Init => FT!Init
<1> SUFFICES ASSUME Init PROVE FT!Init
  OBVIOUS
<1>1. \A f \in Flows : ~HasOwner(f)
  BY ConstAssumption DEF Init, HasOwner
<1>2. \A f \in Flows : Owner(f) = None
  BY <1>1 DEF Owner
<1> QED
  BY <1>1, <1>2 DEF Init, FT!Init, InHand

AbsVars == <<InHand, AbsOwner, AbsQueue>>

\* Every step is one of FlowTable, or none.
LEMMA RefineNext == IInv /\ [Next]_vars => [FT!Next]_AbsVars
<1> SUFFICES ASSUME IInv, [Next]_vars PROVE [FT!Next]_AbsVars
  OBVIOUS
<1>t. TypeInv /\ TableInv /\ OneSessionPerFlow
  BY DEF IInv, TableInv
<1> USE DEF AbsVars
<1>1. ASSUME NEW f \in Flows, NEW syn \in BOOLEAN, ReadTun(f, syn) PROVE [FT!Next]_AbsVars
  <2>a. packet' \in Packet
    BY <1>t, <1>1, ConstAssumption DEF ReadTun, TypeInv, TypeOK, Packet
  <2>1. InHand = None /\ InHand' \in Packet
    BY <1>1, <2>a DEF ReadTun, InHand
  <2>2. FT!Arrive(InHand')
    BY <1>1, <2>1, SameTable DEF ReadTun, objVars, FT!Arrive, AbsOwner, AbsQueue
  <2> QED
    BY <2>1, <2>2 DEF FT!Next
<1>2. ASSUME HandlePacket PROVE [FT!Next]_AbsVars
  BY <1>2, SameTable DEF HandlePacket, InHand, objVars
<1>3. ASSUME GetSession PROVE [FT!Next]_AbsVars
  BY <1>3, SameTable DEF GetSession, InHand, objVars
<1>4. ASSUME NEW s \in Objects, AddSession(s) PROVE [FT!Next]_AbsVars
  <2>1. packet \in Packet /\ packet.flow \in Flows
    BY <1>t, <1>4 DEF AddSession, TypeInv, TypeOK, PacketInv, Packet
  <2>2. ~HasOwner(packet.flow) /\ id[s] = None
    BY <1>t, <1>4, <2>1, NoObject, ConstAssumption
       DEF AddSession, HasOwner, TypeInv, IdInv, Allocated
  <2>3. \A f \in Flows : Owner(f) # s
    BY <2>2, OwnerType, ConstAssumption DEF Owner
  <2>4. AbsOwner' = [AbsOwner EXCEPT ![packet.flow] = s] /\ AbsQueue' = AbsQueue
    BY <1>t, <1>4, <2>1, <2>2, Opened DEF AddSession
  <2>5. FT!Open(s)
    BY <1>4, <2>1, <2>2, <2>3, <2>4, ConstAssumption, NoOwner
       DEF AddSession, FT!Open, InHand, AbsOwner, AbsQueue
  <2> QED
    BY <2>5 DEF FT!Next
<1>5. ASSUME ProtectSocket PROVE [FT!Next]_AbsVars
  BY <1>5, SameTable DEF ProtectSocket, InHand, objVars
<1>6. ASSUME InsertSession PROVE [FT!Next]_AbsVars
  BY <1>6, SameTable DEF InsertSession, InHand, objVars
<1>7. ASSUME WritePipe PROVE [FT!Next]_AbsVars
  <2>1. /\ packet \in Packet /\ packet # None
        /\ session \in Objects /\ id[session] = packet.flow /\ id[session] \in Flows
    BY <1>t, <1>7, ConstAssumption
       DEF WritePipe, TypeInv, TypeOK, PacketInv, Packet, TableInv, SessionInv
  <2>2. InHand = packet /\ InHand' = None
    BY <1>7 DEF WritePipe, InHand
  <2>3. /\ AbsOwner' = AbsOwner
        /\ AbsQueue' = [AbsQueue EXCEPT ![packet.flow] = Append(pipe[session], packet)]
        /\ AbsQueue[packet.flow] = pipe[session]
        /\ AbsOwner[packet.flow] = session
    BY <1>t, <1>7, <2>1, OnePipe DEF WritePipe
  <2>4. FT!Deliver
    BY <2>1, <2>2, <2>3, ConstAssumption DEF FT!Deliver, AbsOwner, AbsQueue
  <2> QED
    BY <2>4 DEF FT!Next
<1>8. ASSUME SkipSyn PROVE [FT!Next]_AbsVars
  <2>1. /\ packet \in Packet /\ packet # None
        /\ session \in Objects /\ id[session] = packet.flow /\ id[session] \in Flows
    BY <1>t, <1>8, ConstAssumption
       DEF SkipSyn, TypeInv, TypeOK, PacketInv, Packet, TableInv, SessionInv
  <2>2. InHand = packet /\ InHand' = None
    BY <1>8 DEF SkipSyn, InHand
  <2>3. Owner(packet.flow) = session
    BY <1>t, <2>1, OwnerIs
  <2>4. FT!Discard
    BY <1>8, <2>1, <2>2, <2>3, SameTable, ConstAssumption
       DEF SkipSyn, objVars, DropsSyn, FT!Discard, AbsOwner, AbsQueue
  <2> QED
    BY <2>4 DEF FT!Next
<1>9. ASSUME HandlePacketReturns PROVE [FT!Next]_AbsVars
  BY <1>9, SameTable DEF HandlePacketReturns, InHand, objVars
<1>10. ASSUME NEW s \in Objects, ReadFirst(s) PROVE [FT!Next]_AbsVars
  <2>1. id[s] \in Flows
    BY <1>t, <1>10 DEF ReadFirst, TypeInv, TypeOK, IdInv
  <2>2. pipe[s] # <<>> /\ pipe' = [pipe EXCEPT ![s] = Tail(pipe[s])]
    BY <1>10 DEF ReadFirst, ReadPipe
  <2>3. FT!Consume(id[s])
    BY <1>t, <1>10, <2>1, <2>2, OnePipe
       DEF ReadFirst, tunVars, InHand, FT!Consume, AbsOwner, AbsQueue
  <2> QED
    BY <2>1, <2>3 DEF FT!Next
<1>11. ASSUME NEW s \in Objects, Dial(s) PROVE [FT!Next]_AbsVars
  BY <1>11, SameTable DEF Dial, InHand, tunVars
<1>12. ASSUME NEW s \in Objects, Shake(s) PROVE [FT!Next]_AbsVars
  <2>1. id[s] \in Flows
    BY <1>t, <1>12 DEF Shake, TypeInv, TypeOK, IdInv
  <2>2. pipe[s] # <<>> /\ pipe' = [pipe EXCEPT ![s] = Tail(pipe[s])]
    BY <1>12 DEF Shake, ReadPipe
  <2>3. FT!Consume(id[s])
    BY <1>t, <1>12, <2>1, <2>2, OnePipe
       DEF Shake, tunVars, InHand, FT!Consume, AbsOwner, AbsQueue
  <2> QED
    BY <2>1, <2>3 DEF FT!Next
<1>13. ASSUME NEW s \in Objects, Recv(s) PROVE [FT!Next]_AbsVars
  <2>1. id[s] \in Flows
    BY <1>t, <1>13 DEF Recv, TypeInv, TypeOK, IdInv
  <2>2. pipe[s] # <<>> /\ pipe' = [pipe EXCEPT ![s] = Tail(pipe[s])]
    BY <1>13 DEF Recv, ReadPipe
  <2>3. FT!Consume(id[s])
    BY <1>t, <1>13, <2>1, <2>2, OnePipe
       DEF Recv, tunVars, InHand, FT!Consume, AbsOwner, AbsQueue
  <2> QED
    BY <2>1, <2>3 DEF FT!Next
<1>14. ASSUME NEW s \in Objects, CloseRead(s) PROVE [FT!Next]_AbsVars
  <2>1. id[s] \in Flows
    BY <1>t, <1>14 DEF CloseRead, TypeInv, TypeOK, IdInv
  <2>2. pipe[s] # <<>> /\ pipe' = [pipe EXCEPT ![s] = Tail(pipe[s])]
    BY <1>14 DEF CloseRead, ReadPipe
  <2>3. FT!Consume(id[s])
    BY <1>t, <1>14, <2>1, <2>2, OnePipe
       DEF CloseRead, tunVars, InHand, FT!Consume, AbsOwner, AbsQueue
  <2> QED
    BY <2>1, <2>3 DEF FT!Next
<1>15. ASSUME NEW s \in Objects, RemoveLock(s) PROVE [FT!Next]_AbsVars
  BY <1>15, SameTable DEF RemoveLock, InHand, tunVars
<1>16. ASSUME NEW s \in Objects, Erase(s) PROVE [FT!Next]_AbsVars
  BY <1>16, SameTable DEF Erase, InHand, tunVars
<1>17. ASSUME NEW s \in Objects, Delete(s) PROVE [FT!Next]_AbsVars
  <2>1. victim[s] = s /\ id[s] \in Flows
    BY <1>t, <1>17 DEF Delete, TableInv, MapInv, TypeInv, IdInv, TypeOK
  <2>2. id' = [id EXCEPT ![s] = None] /\ pipe' = [pipe EXCEPT ![s] = <<>>]
    BY <1>t, <1>17, <2>1 DEF Delete, TypeInv, TypeOK
  <2>3. PICK f \in Flows : id[s] = f
    BY <2>1
  <2>4. /\ AbsOwner[f] = s
        /\ AbsOwner' = [AbsOwner EXCEPT ![f] = None]
        /\ AbsQueue' = [AbsQueue EXCEPT ![f] = <<>>]
    BY <1>t, <2>2, <2>3, Closed
  <2>5. InHand' = InHand
    BY <1>17 DEF Delete, tunVars, InHand
  <2>6. FT!Close(f)
    BY <2>4, <2>5, ConstAssumption DEF FT!Close, AbsOwner, AbsQueue
  <2> QED
    BY <2>6 DEF FT!Next
<1>18. ASSUME NEW s \in Objects, NEW k \in 0..2, Break(s, k) PROVE [FT!Next]_AbsVars
  BY <1>18, SameTable DEF Break, InHand, tunVars
<1>19. CASE UNCHANGED vars
  BY <1>19, SameTable DEF vars, tunVars, objVars, InHand
<1> QED
  BY <1>1, <1>2, <1>3, <1>4, <1>5, <1>6, <1>7, <1>8, <1>9, <1>10, <1>11, <1>12, <1>13, <1>14, <1>15, <1>16, <1>17, <1>18, <1>19
     DEF Next, TunnelStep, SessionStep

\* One session per flow, each packet delivered once and in order to it.
THEOREM Refinement == Spec => ImplementsFlowTable
<1>1. Init => FT!Init
  BY RefineInit
<1>2. IInv /\ [Next]_vars => [FT!Next]_(FT!vars)
  BY RefineNext DEF FT!vars, AbsVars, AbsOwner, AbsQueue
<1> QED
  BY <1>1, <1>2, IInvariant, PTL DEF Spec, FT!Spec, ImplementsFlowTable
=============================================================================
