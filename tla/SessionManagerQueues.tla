------------------------- MODULE SessionManagerQueues -------------------------
(***************************************************************************)
(* What the session pipes hold, proved for every instance of               *)
(* SessionManager: packets of the session's flow in order of arrival, and  *)
(* no SYN for a TCP session that has read its first packet.                *)
(***************************************************************************)
EXTENDS SessionManagerProofs

\* The packet in the tunnel thread's hands is the last one that was read.
HandInv ==
    packet # None => packet.num = count /\ (packet.syn => packet.flow \in TcpFlows)

Undelivered == tpc \in {"lock", "get_or_add", "protect", "insert", "write"}

\* A packet that may be in the pipe of session s.
Fits(s, p) ==
    /\ p.flow = id[s]
    /\ p.num <= count
    /\ Undelivered => p.num < packet.num
    /\ p.syn => p.flow \in TcpFlows /\ syn_recved[s]

ContentInv == \A s \in Objects : \A i \in DOMAIN pipe[s] : Fits(s, pipe[s][i])

\* Packets are in order, and at most one of them is a SYN.
OrderInv ==
    \A s \in Objects : \A i, j \in DOMAIN pipe[s] :
        i < j => /\ pipe[s][i].num < pipe[s][j].num
                 /\ ~(pipe[s][i].syn /\ pipe[s][j].syn)

PastFirst(s) == pc[s] \in {"dial", "shake", "loop", "closing"}

SynInv ==
    \A s \in Objects : PastFirst(s) =>
        /\ IsTcp(s) => syn_recved[s]
        /\ \A i \in DOMAIN pipe[s] : ~pipe[s][i].syn

QueueInv == HandInv /\ ContentInv /\ OrderInv /\ SynInv

\* Every pipe is empty at first.
LEMMA QueueInit == Init => QueueInv
BY DEF Init, QueueInv, HandInv, ContentInv, OrderInv, SynInv, PastFirst

-----------------------------------------------------------------------------
(* Steps of a session thread.                                              *)

\* A thread may get past its first packet only by reading it, and a TCP thread
\* only if it is a SYN.
Advances(s, label) ==
    /\ pc' = [pc EXCEPT ![s] = label]
    /\ label \in {"dial", "shake", "loop", "closing"} =>
           \/ PastFirst(s)
           \/ /\ pc[s] = "first"
              /\ pipe[s] # <<>>
              /\ pipe'[s] = Tail(pipe[s])
              /\ IsTcp(s) => Head(pipe[s]).syn

\* The head of a pipe and the packets behind it.
LEMMA TailFacts ==
  ASSUME TypeInv, NEW s \in Objects, pipe[s] # <<>>
  PROVE  /\ Head(pipe[s]) = pipe[s][1]
         /\ 1 \in DOMAIN pipe[s]
         /\ \A i \in DOMAIN Tail(pipe[s]) :
               /\ i \in Nat
               /\ i + 1 \in DOMAIN pipe[s]
               /\ Tail(pipe[s])[i] = pipe[s][i + 1]
<1>1. pipe[s] \in Seq(Packet)
  BY DEF TypeInv, TypeOK
<1> QED
  BY <1>1

\* A step of a session thread keeps the invariant of the pipes, reading or not.
LEMMA SessionQueue ==
  ASSUME TypeInv, QueueInv, NEW s \in Objects, NEW label,
         Advances(s, label),
         UNCHANGED pipe \/ ReadPipe(s),
         UNCHANGED <<id, count, tpc, packet, syn_recved>>
  PROVE  QueueInv'
<1> USE DEF QueueInv
<1>1. HandInv'
  BY DEF HandInv
<1>2. \A o \in Objects : o # s => pipe'[o] = pipe[o]
  BY DEF ReadPipe, TypeInv, TypeOK
<1>3. CASE UNCHANGED pipe
  <2>1. ContentInv'
    BY <1>3 DEF ContentInv, Fits, Undelivered
  <2>2. OrderInv'
    BY <1>3 DEF OrderInv
  <2>3. \A o \in Objects : PastFirst(o)' => PastFirst(o)
    <3>1. pipe[s] \in Seq(Packet)
      BY DEF TypeInv, TypeOK
    <3>2. ASSUME pipe[s] # <<>>, pipe[s] = Tail(pipe[s]) PROVE FALSE
      <4> DEFINE q == pipe[s]
      <4>1. Len(q) \in Nat /\ Len(Tail(q)) = Len(q) - 1
        BY <3>1, <3>2
      <4> HIDE DEF q
      <4>2. Len(q) = Len(q) - 1
        BY <3>2, <4>1 DEF q
      <4> QED
        BY <4>1, <4>2
    <3> QED
      BY <1>3, <3>2 DEF Advances, PastFirst, TypeInv, TypeOK
  <2>4. SynInv'
    BY <1>3, <2>3 DEF SynInv, IsTcp
  <2> QED
    BY <1>1, <2>1, <2>2, <2>4
<1>4. CASE ReadPipe(s)
  <2>1. pipe[s] # <<>> /\ pipe'[s] = Tail(pipe[s])
    BY <1>4 DEF ReadPipe, TypeInv, TypeOK
  <2>2. ContentInv'
    <3> SUFFICES ASSUME NEW o \in Objects, NEW i \in DOMAIN pipe'[o]
                 PROVE  Fits(o, pipe[o][i])'
      BY DEF ContentInv
    <3>1. CASE o = s
      <4>1. i \in DOMAIN Tail(pipe[s])
        BY <2>1, <3>1
      <4>2. i + 1 \in DOMAIN pipe[s] /\ Tail(pipe[s])[i] = pipe[s][i + 1]
        BY <2>1, <4>1, TailFacts
      <4>3. Fits(s, pipe[s][i + 1])
        BY <4>2 DEF ContentInv
      <4> QED
        BY <2>1, <3>1, <4>2, <4>3 DEF Fits, Undelivered
    <3>2. CASE o # s
      BY <1>2, <3>2 DEF ContentInv, Fits, Undelivered
    <3> QED
      BY <3>1, <3>2
  <2>3. OrderInv'
    <3> SUFFICES ASSUME NEW o \in Objects,
                        NEW i \in DOMAIN pipe'[o], NEW j \in DOMAIN pipe'[o], i < j
                 PROVE  /\ pipe'[o][i].num < pipe'[o][j].num
                        /\ ~(pipe'[o][i].syn /\ pipe'[o][j].syn)
      BY DEF OrderInv
    <3>1. CASE o = s
      <4>1. i \in DOMAIN Tail(pipe[s]) /\ j \in DOMAIN Tail(pipe[s])
        BY <2>1, <3>1
      <4>2. /\ i + 1 \in DOMAIN pipe[s] /\ j + 1 \in DOMAIN pipe[s] /\ i + 1 < j + 1
            /\ Tail(pipe[s])[i] = pipe[s][i + 1]
            /\ Tail(pipe[s])[j] = pipe[s][j + 1]
        BY <2>1, <4>1, TailFacts
      <4> QED
        BY <2>1, <3>1, <4>2 DEF OrderInv
    <3>2. CASE o # s
      BY <1>2, <3>2 DEF OrderInv
    <3> QED
      BY <3>1, <3>2
  <2>4. SynInv'
    <3> SUFFICES ASSUME NEW o \in Objects, PastFirst(o)'
                 PROVE  /\ IsTcp(o)' => syn_recved'[o]
                        /\ \A i \in DOMAIN pipe'[o] : ~pipe'[o][i].syn
      BY DEF SynInv
    <3>1. CASE o # s
      <4>1. PastFirst(o)
        BY <3>1 DEF PastFirst, Advances, TypeInv, TypeOK
      <4> QED
        BY <1>2, <3>1, <4>1 DEF SynInv, IsTcp
    <3>2. CASE o = s /\ PastFirst(s)
      <4>1. \A i \in DOMAIN Tail(pipe[s]) : ~Tail(pipe[s])[i].syn
        BY <2>1, <3>2, TailFacts DEF SynInv
      <4> QED
        BY <2>1, <3>2, <4>1 DEF SynInv, IsTcp
    <3>3. CASE o = s /\ ~PastFirst(s)
      <4>1. IsTcp(s) => pipe[s][1].syn
        BY <2>1, <3>3, TailFacts DEF Advances, PastFirst, TypeInv, TypeOK
      <4>2. IsTcp(s) => syn_recved[s]
        BY <2>1, <4>1, TailFacts DEF ContentInv, Fits
      <4>3. ASSUME NEW i \in DOMAIN pipe'[s], pipe'[s][i].syn PROVE FALSE
        <5>1. pipe[s][i + 1].syn /\ i + 1 \in DOMAIN pipe[s] /\ 1 < i + 1
          <6>1. i \in 1..Len(Tail(pipe[s]))
            BY <2>1 DEF TypeInv, TypeOK
          <6> QED
            BY <2>1, <4>3, <6>1, TailFacts
        <5>2. IsTcp(s)
          BY <5>1 DEF ContentInv, Fits, IsTcp
        <5> QED
          BY <2>1, <4>1, <5>1, <5>2, TailFacts DEF OrderInv
      <4> QED
        BY <3>3, <4>2, <4>3 DEF IsTcp
    <3> QED
      BY <3>1, <3>2, <3>3
  <2> QED
    BY <1>1, <2>2, <2>3, <2>4
<1> QED
  BY <1>3, <1>4

-----------------------------------------------------------------------------
(* Steps of the tunnel thread, and the two of them that write a pipe.      *)

\* The packet in the tunnel thread's hands goes behind those of its flow.
LEMMA WriteQueue ==
  ASSUME TypeInv, TableInv, QueueInv, WritePipe
  PROVE  QueueInv'
<1> DEFINE q == pipe[session]
<1> USE DEF QueueInv
<1>1. /\ session \in Objects
      /\ id[session] = packet.flow
      /\ packet \in Packet /\ packet.num = count
      /\ packet.syn => packet.flow \in TcpFlows /\ ~syn_recved[session]
      /\ count \in Nat
  BY ConstAssumption
     DEF WritePipe, TypeInv, TypeOK, PacketInv, TableInv, SessionInv, HandInv, DropsSyn
<1>2. /\ q \in Seq(Packet)
      /\ pipe'[session] = Append(q, packet)
      /\ \A o \in Objects : o # session => pipe'[o] = pipe[o]
  BY <1>1 DEF WritePipe, TypeInv, TypeOK
<1>3. /\ DOMAIN Append(q, packet) = 1..(Len(q) + 1)
      /\ DOMAIN q = 1..Len(q)
      /\ Len(q) \in Nat
      /\ \A i \in DOMAIN q : Append(q, packet)[i] = q[i]
      /\ Append(q, packet)[Len(q) + 1] = packet
  BY <1>1, <1>2
<1>4. /\ \A o \in Objects : syn_recved[o] => syn_recved'[o]
      /\ packet.syn => syn_recved'[session]
      /\ ~Undelivered' /\ Undelivered
      /\ UNCHANGED <<id, count, packet, pc>>
  BY <1>1 DEF WritePipe, TypeInv, TypeOK, Undelivered
<1>5. HandInv'
  BY <1>4 DEF HandInv
<1>6. ContentInv'
  <2> SUFFICES ASSUME NEW o \in Objects, NEW i \in DOMAIN pipe'[o]
               PROVE  Fits(o, pipe[o][i])'
    BY DEF ContentInv
  <2>1. CASE o # session
    BY <1>2, <1>4, <2>1 DEF ContentInv, Fits
  <2>2. CASE o = session /\ i \in DOMAIN q
    BY <1>2, <1>3, <1>4, <2>2 DEF ContentInv, Fits
  <2>3. CASE o = session /\ i = Len(q) + 1
    BY <1>1, <1>2, <1>3, <1>4, <2>3 DEF Fits
  <2> QED
    BY <1>2, <1>3, <2>1, <2>2, <2>3
<1>7. OrderInv'
  <2> SUFFICES ASSUME NEW o \in Objects,
                      NEW i \in DOMAIN pipe'[o], NEW j \in DOMAIN pipe'[o], i < j
               PROVE  /\ pipe'[o][i].num < pipe'[o][j].num
                      /\ ~(pipe'[o][i].syn /\ pipe'[o][j].syn)
    BY DEF OrderInv
  <2>1. CASE o # session
    BY <1>2, <2>1 DEF OrderInv
  <2>2. CASE o = session /\ j \in DOMAIN q
    <3>1. i \in DOMAIN q
      BY <1>2, <1>3, <2>2
    <3> QED
      BY <1>2, <1>3, <2>2, <3>1 DEF OrderInv
  <2>3. CASE o = session /\ j = Len(q) + 1
    <3>1. i \in DOMAIN q
      BY <1>2, <1>3, <2>3
    <3>2. Fits(session, q[i])
      BY <1>1, <3>1 DEF ContentInv
    <3> QED
      BY <1>1, <1>2, <1>3, <1>4, <2>3, <3>1, <3>2 DEF Fits
  <2> QED
    BY <1>2, <1>3, <2>1, <2>2, <2>3
<1>8. SynInv'
  <2> SUFFICES ASSUME NEW o \in Objects, PastFirst(o)'
               PROVE  /\ IsTcp(o)' => syn_recved'[o]
                      /\ \A i \in DOMAIN pipe'[o] : ~pipe'[o][i].syn
    BY DEF SynInv
  <2>1. PastFirst(o) /\ IsTcp(o)' = IsTcp(o)
    BY <1>4 DEF PastFirst, IsTcp
  <2>2. CASE o # session
    BY <1>2, <1>4, <2>1, <2>2 DEF SynInv
  <2>3. CASE o = session
    <3>1. ~packet.syn
      BY <1>1, <2>1, <2>3 DEF SynInv, IsTcp
    <3> QED
      BY <1>1, <1>2, <1>3, <1>4, <2>1, <2>3, <3>1, SMTT(30) DEF SynInv
  <2> QED
    BY <2>2, <2>3
<1> QED
  BY <1>5, <1>6, <1>7, <1>8

\* A step that gives an object an empty pipe, or takes its pipe away.
LEMMA EmptyQueue ==
  ASSUME TypeInv, QueueInv, NEW s \in Objects,
         \A o \in Objects : o # s =>
             /\ pipe'[o] = pipe[o]
             /\ pc'[o] = pc[o]
             /\ id'[o] = id[o]
             /\ syn_recved'[o] = syn_recved[o],
         pipe'[s] = <<>>,
         pc'[s] \in {"free", "first"},
         Undelivered' => Undelivered,
         UNCHANGED <<count, packet>>
  PROVE  QueueInv'
<1> USE DEF QueueInv
<1>1. HandInv'
  BY DEF HandInv
<1>2. ContentInv'
  BY DEF ContentInv, Fits
<1>3. OrderInv'
  BY DEF OrderInv
<1>4. SynInv'
  BY DEF SynInv, PastFirst, IsTcp
<1> QED
  BY <1>1, <1>2, <1>3, <1>4

\* A step of the tunnel thread that writes no pipe.
LEMMA IdleQueue ==
  ASSUME QueueInv, UNCHANGED <<pc, id, pipe, syn_recved, count>>,
         packet' \in {packet, None},
         Undelivered' => Undelivered /\ packet' = packet
  PROVE  QueueInv'
<1> USE DEF QueueInv
<1>1. HandInv'
  BY DEF HandInv
<1>2. ContentInv'
  BY DEF ContentInv, Fits
<1>3. OrderInv'
  BY DEF OrderInv
<1>4. SynInv'
  BY DEF SynInv, PastFirst, IsTcp
<1> QED
  BY <1>1, <1>2, <1>3, <1>4

\* The packet that is read from the TUN device is later than all in the pipes.
LEMMA ReadTunQueue ==
  ASSUME TypeInv, QueueInv, NEW f \in Flows, NEW syn \in BOOLEAN, ReadTun(f, syn)
  PROVE  QueueInv'
<1> USE DEF QueueInv, ReadTun
<1>1. /\ count \in Nat /\ count' = count + 1
      /\ packet'.num = count + 1 /\ packet'.flow = f /\ packet'.syn = syn
      /\ UNCHANGED <<pc, id, pipe, syn_recved>>
  BY DEF TypeInv, TypeOK, objVars
<1>2. HandInv'
  BY <1>1 DEF HandInv
<1>3. ContentInv'
  <2> SUFFICES ASSUME NEW o \in Objects, NEW i \in DOMAIN pipe[o]
               PROVE  Fits(o, pipe[o][i])'
    BY <1>1 DEF ContentInv
  <2>1. pipe[o][i] \in Packet
    <3>1. pipe[o] \in Seq(Packet)
      BY DEF TypeInv, TypeOK
    <3> QED
      BY <3>1
  <2>2. pipe[o][i].num \in Nat
    BY <2>1 DEF Packet
  <2> QED
    BY <1>1, <2>2 DEF ContentInv, Fits
<1>4. OrderInv'
  BY <1>1 DEF OrderInv
<1>5. SynInv'
  BY <1>1 DEF SynInv, PastFirst, IsTcp
<1> QED
  BY <1>2, <1>3, <1>4, <1>5

-----------------------------------------------------------------------------
\* Every step keeps the invariant of the pipes.
LEMMA QueueNext == IInv /\ QueueInv /\ [Next]_vars => QueueInv'
<1> SUFFICES ASSUME IInv, QueueInv, [Next]_vars PROVE QueueInv'
  OBVIOUS
<1>t. TypeInv /\ TableInv
  BY DEF IInv
<1>1. ASSUME NEW f \in Flows, NEW syn \in BOOLEAN, ReadTun(f, syn) PROVE QueueInv'
  BY <1>t, <1>1, ReadTunQueue
<1>2. ASSUME HandlePacket PROVE QueueInv'
  BY <1>2, IdleQueue DEF HandlePacket, Undelivered, objVars
<1>3. ASSUME GetSession PROVE QueueInv'
  BY <1>3, IdleQueue DEF GetSession, Undelivered, objVars
<1>4. ASSUME NEW s \in Objects, AddSession(s) PROVE QueueInv'
  <2>1. /\ pipe'[s] = <<>> /\ pc'[s] = "first"
        /\ \A o \in Objects : o # s =>
               /\ pipe'[o] = pipe[o]
               /\ pc'[o] = pc[o]
               /\ id'[o] = id[o]
               /\ syn_recved'[o] = syn_recved[o]
    BY <1>t, <1>4 DEF AddSession, TypeInv, TypeOK
  <2> QED
    BY <1>t, <1>4, <2>1, EmptyQueue DEF AddSession, Undelivered
<1>5. ASSUME ProtectSocket PROVE QueueInv'
  BY <1>5, IdleQueue DEF ProtectSocket, Undelivered, objVars
<1>6. ASSUME InsertSession PROVE QueueInv'
  BY <1>6, IdleQueue DEF InsertSession, Undelivered, objVars
<1>7. ASSUME WritePipe PROVE QueueInv'
  BY <1>t, <1>7, WriteQueue
<1>8. ASSUME SkipSyn PROVE QueueInv'
  BY <1>8, IdleQueue DEF SkipSyn, Undelivered, objVars
<1>9. ASSUME HandlePacketReturns PROVE QueueInv'
  BY <1>9, IdleQueue DEF HandlePacketReturns, Undelivered, objVars
<1>10. ASSUME NEW s \in Objects, ReadFirst(s) PROVE QueueInv'
  <2> DEFINE label == IF IsTcp(s) /\ ~Head(pipe[s]).syn THEN "remove" ELSE "dial"
  <2>1. Advances(s, label)
    BY <1>t, <1>10 DEF ReadFirst, Advances, PastFirst, Goto, ReadPipe, TypeInv, TypeOK
  <2> QED
    BY <1>t, <1>10, <2>1, SessionQueue DEF ReadFirst, tunVars
<1>11. ASSUME NEW s \in Objects, Dial(s) PROVE QueueInv'
  <2>1. PICK label \in {"shake", "remove", "loop"} : Advances(s, label)
    BY <1>t, <1>11 DEF Dial, Advances, PastFirst, Goto, TypeInv, TypeOK
  <2> QED
    BY <1>t, <1>11, <2>1, SessionQueue DEF Dial, tunVars
<1>12. ASSUME NEW s \in Objects, Shake(s) PROVE QueueInv'
  <2>1. PICK label \in {"loop", "remove"} : Advances(s, label)
    BY <1>t, <1>12 DEF Shake, Advances, PastFirst, Goto, ReadPipe, TypeInv, TypeOK
  <2> QED
    BY <1>t, <1>12, <2>1, SessionQueue DEF Shake, tunVars
<1>13. ASSUME NEW s \in Objects, Recv(s) PROVE QueueInv'
  <2> DEFINE label == "loop"
  <2>1. Advances(s, label)
    BY <1>t, <1>13 DEF Recv, Advances, PastFirst, ReadPipe, TypeInv, TypeOK
  <2> QED
    BY <1>t, <1>13, <2>1, SessionQueue DEF Recv, tunVars
<1>14. ASSUME NEW s \in Objects, CloseRead(s) PROVE QueueInv'
  <2> DEFINE label == IF reads[s] = 1 THEN "remove" ELSE "closing"
  <2>1. Advances(s, label)
    BY <1>t, <1>14 DEF CloseRead, Advances, PastFirst, Goto, ReadPipe, TypeInv, TypeOK
  <2> QED
    BY <1>t, <1>14, <2>1, SessionQueue DEF CloseRead, tunVars
<1>15. ASSUME NEW s \in Objects, RemoveLock(s) PROVE QueueInv'
  <2> DEFINE label == "erase"
  <2>1. Advances(s, label)
    BY <1>t, <1>15 DEF RemoveLock, Advances, PastFirst, Goto, TypeInv, TypeOK
  <2> QED
    BY <1>t, <1>15, <2>1, SessionQueue DEF RemoveLock, tunVars
<1>16. ASSUME NEW s \in Objects, Erase(s) PROVE QueueInv'
  <2> DEFINE label == "delete"
  <2>1. Advances(s, label)
    BY <1>t, <1>16 DEF Erase, Advances, PastFirst, Goto, TypeInv, TypeOK
  <2> QED
    BY <1>t, <1>16, <2>1, SessionQueue DEF Erase, tunVars
<1>17. ASSUME NEW s \in Objects, Delete(s) PROVE QueueInv'
  <2>1. victim[s] = s
    BY <1>t, <1>17 DEF Delete, TableInv, MapInv
  <2>2. /\ pipe'[s] = <<>> /\ pc'[s] = "free"
        /\ \A o \in Objects : o # s =>
               /\ pipe'[o] = pipe[o]
               /\ pc'[o] = pc[o]
               /\ id'[o] = id[o]
               /\ syn_recved'[o] = syn_recved[o]
    BY <1>17, <2>1 DEF Delete
  <2> QED
    BY <1>t, <1>17, <2>2, EmptyQueue DEF Delete, Undelivered, tunVars
<1>18. ASSUME NEW s \in Objects, NEW k \in 0..2, Break(s, k) PROVE QueueInv'
  <2> DEFINE label == IF k = 0 THEN "remove" ELSE "closing"
  <2>1. Advances(s, label)
    BY <1>t, <1>18 DEF Break, Advances, PastFirst, Goto, TypeInv, TypeOK
  <2> QED
    BY <1>t, <1>18, <2>1, SessionQueue DEF Break, tunVars
<1>19. CASE UNCHANGED vars
  BY <1>19, IdleQueue DEF vars, tunVars, objVars, Undelivered
<1> QED
  BY <1>1, <1>2, <1>3, <1>4, <1>5, <1>6, <1>7, <1>8, <1>9, <1>10, <1>11, <1>12, <1>13, <1>14, <1>15, <1>16, <1>17, <1>18, <1>19
     DEF Next, TunnelStep, SessionStep

\* Types, table and pipes: the inductive invariant holds in every state.
THEOREM QueueInvariant == Spec => [](IInv /\ QueueInv)
<1>1. Init => IInv /\ QueueInv
  BY TypeInit, TableInit, QueueInit DEF IInv
<1>2. IInv /\ QueueInv /\ [Next]_vars => (IInv /\ QueueInv)'
  BY TypeNext, TableNext, QueueNext DEF IInv
<1> QED
  BY <1>1, <1>2, PTL DEF Spec

\* A TCP session that has read its first packet never reads a SYN.
THEOREM SynsFiltered == Spec => []SynFiltered
<1>1. QueueInv => SynFiltered
  BY DEF QueueInv, SynInv, SynFiltered, PastFirst
<1> QED
  BY <1>1, QueueInvariant, PTL

\* Packets reach the session of their flow in the order of the TUN device.
THEOREM InOrder == Spec => []RoutedInOrder
<1>1. IInv /\ QueueInv => RoutedInOrder
  <2> SUFFICES ASSUME IInv, QueueInv, NEW s \in Objects, NEW i \in DOMAIN pipe[s]
               PROVE  /\ pipe[s][i].flow = id[s]
                      /\ \A j \in 1..(i - 1) : pipe[s][j].num < pipe[s][i].num
    BY DEF RoutedInOrder
  <2>1. DOMAIN pipe[s] = 1..Len(pipe[s]) /\ Len(pipe[s]) \in Nat
    BY DEF IInv, TypeInv, TypeOK
  <2>2. \A j \in 1..(i - 1) : j \in DOMAIN pipe[s] /\ j < i
    BY <2>1
  <2> QED
    BY <2>2 DEF QueueInv, ContentInv, OrderInv, Fits
<1> QED
  BY <1>1, QueueInvariant, PTL

-----------------------------------------------------------------------------
(* Full pipes: the wedge of the tunnel thread and a session thread.        *)

\* Whether session s has read its first packet, as a number; the packets that
\* handle_packet is done with.
Past(s) == IF pc[s] \in {"free", "first"} THEN 0 ELSE 1
Delivered == IF Undelivered THEN count - 1 ELSE count

\* A pipe holds packets that were delivered, beside the first that its session read.
BurstInv == \A s \in Objects : Len(pipe[s]) + Past(s) <= Delivered

\* Nothing is delivered while there is no packet in hand.
LEMMA DeliveredType == TypeInv /\ HandInv => Delivered \in Nat
<1> SUFFICES ASSUME TypeInv, HandInv PROVE Delivered \in Nat
  OBVIOUS
<1>1. count \in Nat
  BY DEF TypeInv, TypeOK
<1>2. Undelivered => count >= 1
  <2>1. Undelivered => packet # None
    BY DEF Undelivered, TypeInv, PacketInv
  <2>2. packet # None => packet.num \in 1..MaxPackets
    BY DEF TypeInv, TypeOK, Packet
  <2> QED
    BY <2>1, <2>2 DEF HandInv
<1> QED
  BY <1>1, <1>2 DEF Delivered

\* A step that lengthens no pipe, makes no session read its first packet and takes
\* no delivery back.
LEMMA QuietBurst ==
  ASSUME TypeInv, TypeInv', HandInv, BurstInv, Delivered' \in {Delivered, Delivered + 1},
         \A s \in Objects : /\ Len(pipe'[s]) <= Len(pipe[s])
                            /\ Past(s)' <= Past(s)
  PROVE  BurstInv'
<1> SUFFICES ASSUME NEW s \in Objects
             PROVE  Len(pipe'[s]) + Past(s)' <= Delivered'
  BY DEF BurstInv
<1>1. Delivered \in Nat
  BY DeliveredType
<1>2. /\ Len(pipe[s]) \in Nat /\ Len(pipe'[s]) \in Nat
      /\ Past(s) \in Nat /\ Past(s)' \in Nat
  BY DEF TypeInv, TypeOK, Past
<1>3. Len(pipe[s]) + Past(s) <= Delivered
  BY DEF BurstInv
<1>4. Len(pipe'[s]) <= Len(pipe[s]) /\ Past(s)' <= Past(s)
  OBVIOUS
<1> QED
  BY <1>1, <1>2, <1>3, <1>4

\* A packet that a session reads leaves its pipe and is its first, or not.
LEMMA ReadBurst ==
  ASSUME TypeInv, HandInv, BurstInv, NEW s \in Objects, NEW label,
         ReadPipe(s), Goto(s, label), UNCHANGED <<count, tpc>>
  PROVE  BurstInv'
<1>1. Len(pipe'[s]) = Len(pipe[s]) - 1 /\ Len(pipe[s]) \in Nat
  <2>1. pipe[s] \in Seq(Packet) /\ pipe[s] # <<>> /\ pipe'[s] = Tail(pipe[s])
    BY DEF ReadPipe, TypeInv, TypeOK
  <2> QED
    BY <2>1
<1>2. \A o \in Objects : o # s => pipe'[o] = pipe[o] /\ Past(o)' = Past(o)
  BY DEF ReadPipe, Goto, Past, TypeInv, TypeOK
<1>3. Delivered' = Delivered /\ Delivered \in Nat
  <2>1. Delivered' = Delivered
    BY DEF Delivered, Undelivered
  <2> QED
    BY <2>1, DeliveredType
<1>4. Past(s) \in 0..1 /\ Past(s)' \in 0..1
  BY DEF Past
<1> SUFFICES ASSUME NEW o \in Objects
             PROVE  Len(pipe'[o]) + Past(o)' <= Delivered'
  BY DEF BurstInv
<1>5. Len(pipe[o]) + Past(o) <= Delivered
  BY DEF BurstInv
<1>6. CASE o = s
  BY <1>1, <1>3, <1>4, <1>5, <1>6
<1>7. CASE o # s
  BY <1>2, <1>3, <1>5, <1>7
<1> QED
  BY <1>6, <1>7

\* The packet that handle_packet writes is delivered with the step that writes it.
LEMMA WriteBurst ==
  ASSUME TypeInv, HandInv, BurstInv, session \in Objects, WritePipe
  PROVE  BurstInv'
<1>1. /\ Len(pipe'[session]) = Len(pipe[session]) + 1
      /\ Len(pipe[session]) \in Nat
      /\ \A o \in Objects : o # session => pipe'[o] = pipe[o]
  <2>1. /\ pipe[session] \in Seq(Packet) /\ packet \in Packet
        /\ pipe'[session] = Append(pipe[session], packet)
    BY ConstAssumption DEF WritePipe, TypeInv, TypeOK, PacketInv
  <2>2. \A o \in Objects : o # session => pipe'[o] = pipe[o]
    BY DEF WritePipe, TypeInv, TypeOK
  <2> QED
    BY <2>1, <2>2
<1>2. Delivered' = Delivered + 1 /\ Delivered \in Nat
  <2>1. count \in Nat /\ count' = count /\ Undelivered /\ ~Undelivered'
    BY DEF WritePipe, TypeInv, TypeOK, Undelivered
  <2> QED
    BY <2>1, DeliveredType DEF Delivered
<1>3. \A o \in Objects : Past(o)' = Past(o) /\ Past(o) \in 0..1
  BY DEF Past, WritePipe
<1> SUFFICES ASSUME NEW o \in Objects
             PROVE  Len(pipe'[o]) + Past(o)' <= Delivered'
  BY DEF BurstInv
<1>4. Len(pipe[o]) + Past(o) <= Delivered /\ Len(pipe[o]) \in Nat
  BY DEF BurstInv, TypeInv, TypeOK
<1>5. CASE o = session
  BY <1>1, <1>2, <1>3, <1>4, <1>5
<1>6. CASE o # session
  BY <1>1, <1>2, <1>3, <1>4, <1>6
<1> QED
  BY <1>5, <1>6

\* Every step keeps the bound.
LEMMA BurstNext ==
  ASSUME IInv, IInv', QueueInv, BurstInv, [Next]_vars
  PROVE  BurstInv'
<1>t. TypeInv /\ TypeInv' /\ TableInv /\ HandInv
  BY DEF IInv, QueueInv
<1>d. Delivered \in Nat
  BY <1>t, DeliveredType
<1>1. ASSUME NEW f \in Flows, NEW syn \in BOOLEAN, ReadTun(f, syn) PROVE BurstInv'
  <2>1. Delivered' = Delivered
    <3>1. count \in Nat /\ count' = count + 1 /\ ~Undelivered /\ Undelivered'
      BY <1>t, <1>1 DEF ReadTun, Undelivered, TypeInv, TypeOK
    <3> QED
      BY <3>1 DEF Delivered
  <2> QED
    BY <1>1, <2>1 DEF ReadTun, objVars, BurstInv, Past
<1>2. ASSUME HandlePacket PROVE BurstInv'
  BY <1>2 DEF HandlePacket, Delivered, Undelivered, objVars, BurstInv, Past
<1>3. ASSUME GetSession PROVE BurstInv'
  BY <1>3 DEF GetSession, Delivered, Undelivered, objVars, BurstInv, Past
<1>4. ASSUME NEW s \in Objects, AddSession(s) PROVE BurstInv'
  <2>1. Delivered' = Delivered
    BY <1>4 DEF AddSession, Delivered, Undelivered
  <2>2. /\ Len(pipe'[s]) = 0 /\ Past(s)' = 0
        /\ \A o \in Objects : o # s => pipe'[o] = pipe[o] /\ Past(o)' = Past(o)
    BY <1>t, <1>4 DEF AddSession, Past, TypeInv, TypeOK
  <2>3. \A o \in Objects : Len(pipe'[o]) + Past(o)' <= Delivered'
    BY <1>d, <2>1, <2>2 DEF BurstInv
  <2> QED
    BY <2>3 DEF BurstInv
<1>5. ASSUME ProtectSocket PROVE BurstInv'
  BY <1>5 DEF ProtectSocket, Delivered, Undelivered, BurstInv, Past
<1>6. ASSUME InsertSession PROVE BurstInv'
  BY <1>6 DEF InsertSession, Delivered, Undelivered, objVars, BurstInv, Past
<1>7. ASSUME WritePipe PROVE BurstInv'
  <2>1. session \in Objects
    BY <1>t, <1>7 DEF WritePipe, TableInv, SessionInv, TypeInv, TypeOK
  <2> QED
    BY <1>t, <1>7, <2>1, WriteBurst
<1>8. ASSUME SkipSyn PROVE BurstInv'
  <2>1. Delivered' = Delivered + 1
    <3>1. count \in Nat /\ count' = count /\ Undelivered /\ ~Undelivered'
      BY <1>t, <1>8 DEF SkipSyn, Undelivered, TypeInv, TypeOK
    <3> QED
      BY <3>1 DEF Delivered
  <2>2. \A s \in Objects : Len(pipe'[s]) <= Len(pipe[s]) /\ Past(s)' <= Past(s)
    <3>1. \A s \in Objects : Len(pipe[s]) \in Nat /\ Past(s) \in Nat
      BY <1>t DEF TypeInv, TypeOK, Past
    <3> QED
      BY <1>8, <3>1 DEF SkipSyn, objVars, Past
  <2> QED
    BY <1>t, <2>1, <2>2, QuietBurst
<1>9. ASSUME HandlePacketReturns PROVE BurstInv'
  BY <1>9 DEF HandlePacketReturns, Delivered, Undelivered, objVars, BurstInv, Past
<1>10. ASSUME NEW s \in Objects, ReadFirst(s) PROVE BurstInv'
  BY <1>t, <1>10, ReadBurst DEF ReadFirst, tunVars
<1>11. ASSUME NEW s \in Objects, Dial(s) PROVE BurstInv'
  <2>1. \A o \in Objects : Past(o)' = Past(o)
    BY <1>t, <1>11 DEF Dial, Goto, Past, TypeInv, TypeOK
  <2> QED
    BY <1>11, <2>1 DEF Dial, tunVars, Delivered, Undelivered, BurstInv
<1>12. ASSUME NEW s \in Objects, Shake(s) PROVE BurstInv'
  BY <1>t, <1>12, ReadBurst DEF Shake, tunVars
<1>13. ASSUME NEW s \in Objects, Recv(s) PROVE BurstInv'
  <2>1. Goto(s, "loop")
    BY <1>t, <1>13 DEF Recv, Goto, TypeInv, TypeOK
  <2> QED
    BY <1>t, <1>13, <2>1, ReadBurst DEF Recv, tunVars
<1>14. ASSUME NEW s \in Objects, CloseRead(s) PROVE BurstInv'
  BY <1>t, <1>14, ReadBurst DEF CloseRead, tunVars
<1>15. ASSUME NEW s \in Objects, RemoveLock(s) PROVE BurstInv'
  <2>1. \A o \in Objects : Past(o)' = Past(o)
    BY <1>t, <1>15 DEF RemoveLock, Goto, Past, TypeInv, TypeOK
  <2> QED
    BY <1>15, <2>1 DEF RemoveLock, tunVars, Delivered, Undelivered, BurstInv
<1>16. ASSUME NEW s \in Objects, Erase(s) PROVE BurstInv'
  <2>1. \A o \in Objects : Past(o)' = Past(o)
    BY <1>t, <1>16 DEF Erase, Goto, Past, TypeInv, TypeOK
  <2> QED
    BY <1>16, <2>1 DEF Erase, tunVars, Delivered, Undelivered, BurstInv
<1>17. ASSUME NEW s \in Objects, Delete(s) PROVE BurstInv'
  <2>1. victim[s] = s
    BY <1>t, <1>17 DEF Delete, TableInv, MapInv
  <2>2. /\ Len(pipe'[s]) = 0 /\ Past(s)' = 0
        /\ \A o \in Objects : o # s => pipe'[o] = pipe[o] /\ Past(o)' = Past(o)
    BY <1>17, <2>1 DEF Delete, Past
  <2>3. Delivered' = Delivered
    BY <1>17 DEF Delete, tunVars, Delivered, Undelivered
  <2>4. \A o \in Objects : Len(pipe'[o]) + Past(o)' <= Delivered'
    BY <1>d, <2>2, <2>3 DEF BurstInv
  <2> QED
    BY <2>4 DEF BurstInv
<1>18. ASSUME NEW s \in Objects, NEW k \in 0..2, Break(s, k) PROVE BurstInv'
  <2>1. \A o \in Objects : Past(o)' = Past(o)
    BY <1>t, <1>18 DEF Break, Goto, Past, TypeInv, TypeOK
  <2> QED
    BY <1>18, <2>1 DEF Break, tunVars, Delivered, Undelivered, BurstInv
<1>19. CASE UNCHANGED vars
  BY <1>19 DEF vars, tunVars, objVars, Delivered, Undelivered, BurstInv, Past
<1> QED
  BY <1>1, <1>2, <1>3, <1>4, <1>5, <1>6, <1>7, <1>8, <1>9, <1>10, <1>11, <1>12, <1>13, <1>14, <1>15, <1>16, <1>17, <1>18, <1>19
     DEF Next, TunnelStep, SessionStep

\* The threads get wedged only by a burst that fills the pipe of a session while one
\* more packet is in hand, besides the packet that the session began with.
LEMMA WedgeIsABurst == Spec => [](Wedged => count >= PipeCap + 2)
<1> DEFINE I == IInv /\ QueueInv /\ BurstInv
<1>1. Init => I
  <2>1. Init => BurstInv
    BY DEF Init, BurstInv, Past, Delivered, Undelivered
  <2> QED
    BY <2>1, TypeInit, TableInit, QueueInit DEF IInv
<1>2. I /\ [Next]_vars => I'
  <2> SUFFICES ASSUME I, [Next]_vars PROVE I'
    OBVIOUS
  <2>1. IInv' /\ QueueInv'
    BY TypeNext, TableNext, QueueNext DEF IInv
  <2> QED
    BY <2>1, BurstNext
<1>3. I => (Wedged => count >= PipeCap + 2)
  <2> SUFFICES ASSUME I, Wedged PROVE count >= PipeCap + 2
    OBVIOUS
  <2>1. session \in Objects /\ count \in Nat /\ PipeCap \in Nat
    BY ConstAssumption DEF IInv, TypeInv, TypeOK, TableInv, SessionInv, Wedged
  <2>2. Len(pipe[session]) \in Nat /\ Len(pipe[session]) >= PipeCap
    BY <2>1 DEF IInv, TypeInv, TypeOK, Wedged, HasRoom
  <2>3. Past(session) = 1 /\ Delivered = count - 1
    BY DEF Wedged, Past, Delivered, Undelivered
  <2>4. Len(pipe[session]) + Past(session) <= Delivered
    BY <2>1 DEF BurstInv
  <2> QED
    BY <2>1, <2>2, <2>3, <2>4
<1> QED
  BY <1>1, <1>2, <1>3, PTL DEF Spec

-----------------------------------------------------------------------------
\* Once the tunnel thread waits for a session that waits for its mutex, neither ever
\* moves again: only the two of them could free the pipe or the mutex.
THEOREM WedgeIsForever == Spec => WedgeStays
<1>1. IInv /\ IInv' /\ [Next]_vars => (Wedged => Wedged')
  <2> SUFFICES ASSUME IInv, IInv', [Next]_vars, Wedged PROVE Wedged'
    OBVIOUS
  <2> DEFINE Kept(o) == /\ pc'[o] = pc[o] /\ pipe'[o] = pipe[o] /\ id'[o] = id[o]
                        /\ syn_recved'[o] = syn_recved[o]
  <2>t. TypeInv /\ TableInv
    BY DEF IInv
  <2>w. /\ tpc = "write" /\ session \in Objects /\ session # None
        /\ pc[session] = "remove" /\ ~DropsSyn(session) /\ ~HasRoom(session)
        /\ packet # None /\ id[session] = packet.flow /\ packet.flow \in Flows
    BY <2>t, ConstAssumption
       DEF TypeInv, TypeOK, TableInv, SessionInv, Wedged, PacketInv, Packet
  <2>m. mtx[ManagerOf(packet.flow)] = "tunnel" /\ "tunnel" # None
    BY <2>t, <2>w, ManagerType, ConstAssumption DEF TableInv, MutexInv, TunnelHolds
  <2>1. SUFFICES tpc' = tpc /\ session' = session /\ packet' = packet /\ Kept(session)
    BY <2>w DEF Wedged, DropsSyn, HasRoom
  <2>2. CASE TunnelStep \/ \E f \in Flows, syn \in BOOLEAN : ReadTun(f, syn)
    BY <2>2, <2>w
       DEF TunnelStep, ReadTun, HandlePacket, GetSession, AddSession, ProtectSocket,
           InsertSession, WritePipe, SkipSyn, HandlePacketReturns
  <2>3. ASSUME NEW s \in Objects, SessionStep(s) \/ \E k \in 0..2 : Break(s, k)
        PROVE  tpc' = tpc /\ session' = session /\ packet' = packet /\ Kept(session)
    <3>1. UNCHANGED <<tunVars, syn_recved>>
      BY <2>3 DEF SessionStep, ReadFirst, Dial, Shake, Recv, CloseRead, RemoveLock,
                  Erase, Delete, Break
    <3>2. s # session \/ RemoveLock(s) \/ Delete(s)
      BY <2>3, <2>w DEF SessionStep, ReadFirst, Dial, Shake, Recv, CloseRead, Erase, Break
    <3>3. ~RemoveLock(session) /\ ~Delete(session)
      BY <2>w, <2>m DEF RemoveLock, Delete, LockFree
    <3>4. s # session
      BY <3>2, <3>3
    <3>5. CASE Delete(s)
      <4>1. victim[s] = s
        BY <2>t, <3>5 DEF Delete, TableInv, MapInv
      <4> QED
        BY <2>w, <3>1, <3>4, <3>5, <4>1 DEF Delete, tunVars
    <3>6. CASE ~Delete(s)
      BY <2>3, <2>t, <2>w, <3>1, <3>4, <3>6
         DEF SessionStep, ReadFirst, Dial, Shake, Recv, CloseRead, RemoveLock, Erase,
             Break, Goto, ReadPipe, tunVars, TypeInv, TypeOK
    <3> QED
      BY <3>5, <3>6
  <2>4. CASE UNCHANGED vars
    BY <2>4 DEF vars, tunVars, objVars
  <2> QED
    BY <2>2, <2>3, <2>4 DEF Next
<1> QED
  BY <1>1, IInvariant, PTL DEF Spec, WedgeStays

\* Whoever waits for a mutex waits for a thread that holds it and goes on, but for a
\* tunnel thread in front of a full pipe; and a full pipe has a reader that goes on,
\* but for one that waits for the mutex.  So the wedge is the only deadlock, and a burst
\* that fills a pipe its only cause.
THEOREM OneDeadlock == Spec => []OnlyBurstsDeadlock
<1>1. IInv /\ (Wedged => count >= PipeCap + 2) => OnlyBurstsDeadlock
  <2> SUFFICES ASSUME IInv, ~Wedged, NEW t \in Objects \cup {"tunnel"}
               PROVE  WaitsFor(WaitsFor(WaitsFor(t))) = None
    BY DEF OnlyBurstsDeadlock
  <2>t. TypeInv /\ TableInv
    BY DEF IInv
  <2>c. /\ "tunnel" \notin Objects /\ "tunnel" # None /\ None \notin Objects
        /\ PipeCap \in Nat \ {0}
    BY ConstAssumption
  <2>n. WaitsFor(None) = None
    BY <2>c DEF WaitsFor
  <2>1. \A s \in Objects : pc[s] \in {"erase", "delete"} => WaitsFor(s) = None
    BY <2>c DEF WaitsFor, SessionWaitsFor
  <2>2. ASSUME NEW m \in Managers, NEW s \in Objects, mtx[m] = s
        PROVE  WaitsFor(s) = None
    <3>1. pc[s] \in {"erase", "delete"}
      BY <2>t, <2>2 DEF TableInv, MutexInv, SessionHolds
    <3> QED
      BY <2>1, <3>1
  <2>3. WaitsFor("tunnel") \in Objects \cup {None} /\ WaitsFor(WaitsFor("tunnel")) = None
    <3>1. WaitsFor("tunnel") = TunnelWaitsFor
      BY <2>c DEF WaitsFor
    <3>2. CASE tpc = "lock"
      <4>1. TunnelWaitsFor = mtx[ManagerOf(packet.flow)]
        BY <3>2 DEF TunnelWaitsFor
      <4>2. mtx[ManagerOf(packet.flow)] # "tunnel"
        BY <2>t, <3>2, ManagerType DEF TableInv, MutexInv, TunnelHolds
      <4>3. mtx[ManagerOf(packet.flow)] \in Objects \cup {None}
        BY <2>t, <4>2, ManagerType DEF TypeInv, TypeOK
      <4> QED
        BY <2>2, <2>n, <3>1, <4>1, <4>3, ManagerType
    <3>3. CASE tpc = "write" /\ ~DropsSyn(session) /\ ~HasRoom(session)
      <4>1. TunnelWaitsFor = session
        BY <3>3 DEF TunnelWaitsFor
      <4>2. session \in Objects
        BY <2>t, <3>3 DEF TypeInv, TypeOK, TableInv, SessionInv
      <4>3. pipe[session] # <<>>
        <5>1. ~(Len(pipe[session]) < PipeCap)
          BY <3>3 DEF HasRoom
        <5>2. Len(<<>>) = 0
          OBVIOUS
        <5> QED
          BY <2>c, <5>1, <5>2
      <4>4. pc[session] # "remove"
        BY <3>3 DEF Wedged
      <4>5. SessionWaitsFor(session) = None
        BY <4>3, <4>4 DEF SessionWaitsFor
      <4>6. WaitsFor(session) = None
        BY <2>c, <4>2, <4>5 DEF WaitsFor
      <4> QED
        BY <3>1, <4>1, <4>2, <4>6
    <3>4. CASE ~(tpc = "lock") /\ ~(tpc = "write" /\ ~DropsSyn(session) /\ ~HasRoom(session))
      <4>1. TunnelWaitsFor = None
        BY <3>4 DEF TunnelWaitsFor
      <4> QED
        BY <2>n, <3>1, <4>1
    <3> QED
      BY <3>2, <3>3, <3>4
  <2>4. ASSUME NEW s \in Objects
        PROVE  WaitsFor(s) = "tunnel" \/ WaitsFor(WaitsFor(s)) = None
    <3>1. WaitsFor(s) = SessionWaitsFor(s)
      BY <2>c DEF WaitsFor
    <3>2. CASE pc[s] = "remove"
      <4>1. SessionWaitsFor(s) = mtx[ManagerOf(id[s])]
        BY <3>2 DEF SessionWaitsFor
      <4>2. mtx[ManagerOf(id[s])] \in Objects \cup {"tunnel", None}
        BY <2>t, ManagerType DEF TypeInv, TypeOK
      <4> QED
        BY <2>2, <2>n, <3>1, <4>1, <4>2, ManagerType
    <3>3. CASE pc[s] # "remove"
      <4>1. SessionWaitsFor(s) \in {"tunnel", None}
        BY <3>3 DEF SessionWaitsFor
      <4> QED
        BY <2>n, <3>1, <4>1
    <3> QED
      BY <3>2, <3>3
  <2>5. CASE t = "tunnel"
    BY <2>3, <2>5, <2>n
  <2>6. CASE t \in Objects
    <3>1. CASE WaitsFor(t) = "tunnel"
      BY <2>3, <3>1
    <3>2. CASE WaitsFor(WaitsFor(t)) = None
      BY <2>n, <3>2
    <3> QED
      BY <2>4, <2>6, <3>1, <3>2
  <2> QED
    BY <2>5, <2>6
<1> QED
  BY <1>1, IInvariant, WedgeIsABurst, PTL
=============================================================================
