------------------------ MODULE TcpSessionLossyProofs ------------------------
(***************************************************************************)
(* What a client whose packets are lost is still promised: the direction   *)
(* from the server to it.  The argument knows nothing of the client and of *)
(* the pipe, so it holds whatever is lost, repeated or reordered there.    *)
(***************************************************************************)
EXTENDS TcpSessionLossy, TcpSessionProofs

\* A queue of anything: what may be in it is what is in it.
Contents(q) == {q[i] : i \in 1..Len(q)}
IsQueue(q) == q \in Seq(Contents(q))

\* A queue with one more element behind it has no other elements.
LEMMA Puts ==
  ASSUME NEW q, IsQueue(q), NEW d
  PROVE  /\ IsQueue(Append(q, d))
         /\ \A e \in Contents(Append(q, d)) : e = d \/ e \in Contents(q)
<1> DEFINE S == Contents(q) \cup {d}
<1>1. q \in Seq(S)
  BY QueueWider DEF IsQueue
<1>2. PICK r : r = Append(q, d)
  OBVIOUS
<1>3. r \in Seq(S) /\ Appended(r, q, d)
  BY <1>1, <1>2, QueueAppend
<1>4. ASSUME NEW i \in 1..Len(r) PROVE r[i] = d \/ r[i] \in Contents(q)
  BY <1>1, <1>3 DEF Appended, Contents
<1>5. IsQueue(r)
  <2>1. r = [i \in 1..Len(r) |-> r[i]] /\ Len(r) \in Nat
    BY <1>3
  <2>2. \A i \in 1..Len(r) : r[i] \in Contents(r)
    BY DEF Contents
  <2> QED
    BY <2>1, <2>2, IsASeq DEF IsQueue
<1> QED
  BY <1>2, <1>4, <1>5 DEF Contents

\* What is behind the head of a queue was in it.
LEMMA Gets ==
  ASSUME NEW q, IsQueue(q), q # <<>>
  PROVE  IsQueue(Tail(q)) /\ Contents(Tail(q)) \subseteq Contents(q)
<1>1. PICK r : r = Tail(q)
  OBVIOUS
<1>2. r \in Seq(Contents(q)) /\ Tailed(r, q) /\ Len(q) \in Nat \ {0}
  BY <1>1, QueueTail DEF IsQueue
<1>3. \A i \in 1..Len(r) : r[i] \in Contents(q)
  BY <1>2, QueueElements
<1>4. IsQueue(r)
  <2>1. r = [i \in 1..Len(r) |-> r[i]] /\ Len(r) \in Nat
    BY <1>2
  <2>2. \A i \in 1..Len(r) : r[i] \in Contents(r)
    BY DEF Contents
  <2> QED
    BY <2>1, <2>2, IsASeq DEF IsQueue
<1> QED
  BY <1>1, <1>3, <1>4 DEF Contents

-----------------------------------------------------------------------------
(* The invariant.                                                          *)

Parted == {"fin1", "fin2", "last", "over"}
Left == Parted \cup {"close"}

\* What was taken in the last turn of the loop may have been dropped with it.
Cut == Broken \/ rev.server = "err"

\* What a segment of the session carries: bytes with the numbers of their
\* positions, or none; and a FIN is behind all that was taken if nothing was dropped.
Carried(p) ==
    /\ IF p.kind = "data" THEN Numbered(p) ELSE p.bytes = <<>>
    /\ p.kind = "fin" => pc \in Parted /\ (Cut \/ p.seq = Taking + 1)
TunInv == IsQueue(tun) /\ \A p \in Contents(tun) : Carried(p)

\* snd.nxt is behind what was taken until the loop drops it or has been left.
SndInv ==
    /\ Opening => snxt = 0 /\ Taking = 0
    /\ Looping => snxt = Taking + 1
    /\ pc = "close" /\ ~Cut => snxt = Taking + 1

\* A turn begins with empty revents; a server that is readable in it has bytes or has
\* ended, and one whose end stopped the loop has no byte left.
EndInv ==
    /\ Opening \/ pc = "poll" => rev = [client |-> "none", server |-> "none"]
    /\ pc = "relay" /\ rev.server = "in" => srv # <<>> \/ sst # "open"
    /\ pc \in Left /\ rev.server = "in" => Broken \/ (srv = <<>> /\ sst # "open")

LossyInv == Waiting /\ SndInv /\ TunInv /\ EndInv

-----------------------------------------------------------------------------
(* Its steps.                                                              *)

\* A session that has left its loop takes no more and drops no more.
Parts ==
    pc \in Parted => pc' \in Parted /\ Cut' = Cut /\ Taking' = Taking

\* What a step may do to the queue of the TUN device.
Queues ==
    \/ UNCHANGED tun
    \/ tun # <<>> /\ tun' = Tail(tun)
    \/ \E seg : tun' = Append(tun, seg) /\ Carried(seg)'

\* What the device carries stays as it was.
LEMMA TunStays ==
  ASSUME LossyInv, Parts, Queues
  PROVE  TunInv'
<1>1. IsQueue(tun) /\ \A p \in Contents(tun) : Carried(p)
  BY DEF LossyInv, TunInv
<1>2. ASSUME NEW p, Carried(p) PROVE Carried(p)'
  <2>1. IF p.kind = "data" THEN Numbered(p) ELSE p.bytes = <<>>
    BY <1>2 DEF Carried
  <2>2. p.kind = "fin" => pc' \in Parted /\ (Cut' \/ p.seq = Taking' + 1)
    BY <1>2 DEF Carried, Parts
  <2>3. Numbered(p)' = Numbered(p)
    BY DEF Numbered
  <2> QED
    BY <2>1, <2>2, <2>3 DEF Carried
<1>3. CASE UNCHANGED tun
  <2>1. IsQueue(tun)' /\ Contents(tun)' = Contents(tun)
    BY <1>1, <1>3 DEF IsQueue, Contents
  <2> QED
    BY <1>1, <1>2, <2>1 DEF TunInv
<1>4. CASE tun # <<>> /\ tun' = Tail(tun)
  <2>1. IsQueue(tun') /\ Contents(tun') \subseteq Contents(tun)
    BY <1>1, <1>4, Gets
  <2> QED
    BY <1>1, <1>2, <2>1 DEF TunInv, IsQueue, Contents
<1>5. ASSUME NEW seg, tun' = Append(tun, seg), Carried(seg)' PROVE TunInv'
  <2>1. IsQueue(tun') /\ \A e \in Contents(tun') : e = seg \/ e \in Contents(tun)
    BY <1>1, <1>5, Puts
  <2> QED
    BY <1>1, <1>2, <1>5, <2>1 DEF TunInv, IsQueue, Contents
<1> QED
  BY <1>3, <1>4, <1>5 DEF Queues

\* A step that leaves the server's socket alone takes nothing.
LEMMA NothingTaken ==
  ASSUME Waiting, UNCHANGED <<ssent, srv>>
  PROVE  Waiting' /\ Taking' = Taking
<1>1. Taking' = Taking
  BY DEF Taking
<1> QED
  BY <1>1 DEF Waiting, Queued

\* A step that takes nothing keeps the invariant when snd.nxt keeps its place.
LEMMA StepsWithoutTaking ==
  ASSUME LossyInv, UNCHANGED <<ssent, srv>>, Parts, Queues, SndInv', EndInv'
  PROVE  LossyInv'
BY NothingTaken, TunStays DEF LossyInv

\* The steps of the client, seen and lost: it reads the device, or leaves it alone.
LEMMA ClientReads ==
  ASSUME LossyInv, Client \/ \E n \in 1..MaxSeg : ClientSendLost(n)
  PROVE  LossyInv'
<1>1. /\ UNCHANGED <<sessionVars, serverVars>>
      /\ UNCHANGED tun \/ (tun # <<>> /\ tun' = Tail(tun))
  BY DEF Client, ClientSend, ClientFin, ClientRetransmit, ClientAbort, ClientAbandon,
         ClientOdd, ClientReceive, ClientSendLost
<1>2. UNCHANGED <<pc, snxt, rev, sst, ssent, srv>>
  BY <1>1 DEF sessionVars, serverVars
<1>3. Parts /\ Queues
  BY <1>1, <1>2 DEF Parts, Queues, Cut, Broken, Taking
<1>4. SndInv' /\ EndInv'
  BY <1>2 DEF LossyInv, SndInv, EndInv, Opening, Looping, Cut, Broken, Taking
<1> QED
  BY <1>2, <1>3, <1>4, StepsWithoutTaking

\* The steps of the server: a byte more, or its end.
LEMMA ServerSends ==
  ASSUME LossyInv, Server
  PROVE  LossyInv'
<1>1. UNCHANGED <<sessionVars, tun>>
  BY DEF Server, ServerSend, ServerEnds
<1>2. UNCHANGED <<pc, snxt, rev, tun>>
  BY <1>1 DEF sessionVars
<1>3. Waiting' /\ Taking' = Taking
  <2>1. CASE ServerSend
    BY <2>1, Arrives DEF ServerSend, LossyInv
  <2>2. ASSUME NEW how \in {"eof", "reset"}, ServerEnds(how)
        PROVE  Waiting' /\ Taking' = Taking
    BY <2>2, NothingTaken DEF ServerEnds, LossyInv
  <2> QED
    BY <2>1, <2>2 DEF Server
<1>4. Cut' = Cut /\ Broken' = Broken
  BY <1>2 DEF Cut, Broken
<1>5. TunInv'
  BY <1>2, <1>3, <1>4, TunStays DEF Parts, Queues
<1>6. SndInv'
  BY <1>2, <1>3, <1>4 DEF LossyInv, SndInv, Opening, Looping
<1>7. EndInv'
  <2>1. sst # "open" => UNCHANGED srv /\ sst' # "open"
    BY DEF Server, ServerSend, ServerEnds
  <2>2. srv # <<>> => srv' # <<>> \/ sst' # "open"
    <3>1. CASE ServerSend
      <4>1. srv' = Append(srv, ssent + 1) /\ ssent + 1 \in 1..MaxDown /\ srv \in Seq(1..MaxDown)
        BY <3>1, ConstAssumption DEF ServerSend, LossyInv, Waiting
      <4> QED
        BY <4>1, QueueAppend
    <3> QED
      BY <3>1 DEF Server, ServerEnds
  <2> QED
    BY <1>2, <1>4, <2>1, <2>2 DEF LossyInv, EndInv, Opening
<1> QED
  BY <1>3, <1>5, <1>6, <1>7 DEF LossyInv

-----------------------------------------------------------------------------
(* The session.                                                            *)

\* A segment without bytes that is no FIN.
LEMMA EmptyIsCarried ==
  ASSUME NEW kind \in {"synack", "ack", "rst"}, NEW seq, NEW ack,
         SendNothing \/ Send(Down(kind, seq, <<>>, ack))
  PROVE  Queues
<1>1. Carried(Down(kind, seq, <<>>, ack))'
  BY DEF Carried, Down
<1> QED
  BY <1>1 DEF Queues, Send, SendNothing

\* A reset is one, or nothing.
LEMMA ResetIsCarried ==
  ASSUME NEW closed, NEW p, Reset(closed, p)
  PROVE  Queues
BY EmptyIsCarried DEF Reset

\* The handshake.
LEMMA LossyOpens ==
  ASSUME LossyInv, ReadFirst \/ Dial \/ Shake
  PROVE  LossyInv'
<1>1. /\ pc \in {"first", "dial", "shake"} /\ UNCHANGED <<rev, serverVars>>
      /\ snxt = 0 /\ Taking = 0 /\ rev = [client |-> "none", server |-> "none"]
  BY DEF ReadFirst, Dial, Shake, LossyInv, SndInv, EndInv, Opening
<1>2. UNCHANGED <<ssent, srv>> /\ Taking' = 0
  BY <1>1, NothingTaken DEF serverVars, LossyInv
<1>3. Parts
  BY <1>1 DEF Parts, Parted
<1>4. Queues
  BY EmptyIsCarried, ResetIsCarried DEF ReadFirst, Dial, Shake
<1>5. SndInv' /\ EndInv'
  <2>1. \/ pc' \in {"dial", "shake", "over"} /\ snxt' = 0
        \/ pc' = "over"
        \/ pc' = "poll" /\ snxt' = 0 + 1
    BY <1>1 DEF ReadFirst, Dial, Shake
  <2> QED
    BY <1>1, <1>2, <2>1 DEF SndInv, EndInv, Opening, Looping, Left, Parted
<1> QED
  BY <1>2, <1>3, <1>4, <1>5, StepsWithoutTaking

\* The client's packet and the server's bytes begin a turn, which takes nothing yet.
LEMMA LossyPolls ==
  ASSUME LossyInv, PollClient \/ PollServer
  PROVE  LossyInv'
<1>1. /\ pc = "poll" /\ pc' = "relay" /\ UNCHANGED <<snxt, sst, ssent, srv>>
  BY DEF PollClient, PollServer, serverVars
<1>2. Taking' = Taking /\ snxt = Taking + 1
  BY <1>1, NothingTaken DEF LossyInv, SndInv, Looping
<1>3. Parts
  BY <1>1 DEF Parts, Parted
<1>4. Queues
  <2>1. CASE PollServer
    BY <2>1 DEF PollServer, Queues
  <2>2. CASE PollClient
    BY <2>2, EmptyIsCarried, ResetIsCarried
       DEF PollClient, RecvNothing, RecvData, RecvFin, RecvUnknown, RecvClosed
  <2> QED
    BY <2>1, <2>2
<1>5. SndInv'
  BY <1>1, <1>2 DEF SndInv, Opening, Looping
<1>6. EndInv'
  <2>1. \E e : ClientRev(e)
    BY DEF PollClient, PollServer, RecvNothing, RecvData, RecvFin, RecvUnknown, RecvClosed,
           Failed
  <2>2. rev'.server = "in" => srv # <<>> \/ sst = "eof"
    BY <2>1 DEF ClientRev, ServerReady
  <2> QED
    BY <1>1, <2>2 DEF EndInv, Opening, Left, Parted
<1> QED
  BY <1>1, <1>3, <1>4, <1>5, <1>6, StepsWithoutTaking

\* A turn that takes bytes sends them with their numbers, unless it breaks.
LEMMA LossyRelays ==
  ASSUME LossyInv, RelayBreaks \/ RelayEnds \/ Relay
  PROVE  LossyInv'
<1>1. pc = "relay" /\ snxt = Taking + 1 /\ Waiting /\ Parts
  BY DEF RelayBreaks, RelayEnds, Relay, LossyInv, SndInv, Looping, Parts, Parted
<1>2. CASE RelayBreaks
  <2>1. /\ pc' = "close" /\ Broken' /\ UNCHANGED <<tun, ssent>>
        /\ UNCHANGED srv \/ TakeAndDrop
    BY <1>2 DEF RelayBreaks, Broken
  <2>2. Waiting'
    BY <1>1, <2>1, Takes, NothingTaken DEF TakeAndDrop
  <2>3. SndInv' /\ EndInv'
    BY <2>1 DEF SndInv, EndInv, Opening, Looping, Cut
  <2> QED
    BY <1>1, <2>1, <2>2, <2>3, TunStays DEF Queues, LossyInv
<1>3. CASE RelayEnds
  <2>1. /\ pc' = "close" /\ TakeAndDrop /\ UNCHANGED <<tun, snxt, sst, ssent, rev>>
        /\ rev.server = "err" \/ (rev.server = "in" /\ srv = <<>>)
    BY <1>3 DEF RelayEnds
  <2>2. Waiting'
    BY <1>1, <2>1, Takes, NothingTaken DEF TakeAndDrop
  <2>3. ASSUME rev.server = "in"
        PROVE  srv' = <<>> /\ sst' # "open" /\ Taking' = Taking
    <3>1. srv = <<>> /\ sst # "open"
      BY <1>1, <2>1, <2>3 DEF LossyInv, EndInv
    <3>2. Len(srv) = 0
      BY <3>1
    <3>3. srv' = srv
      BY <2>1, <3>2 DEF TakeAndDrop
    <3> QED
      BY <1>1, <2>1, <3>1, <3>3, NothingTaken
  <2>4. SndInv'
    BY <1>1, <2>1, <2>3 DEF SndInv, Opening, Looping, Cut
  <2>5. EndInv'
    BY <2>1, <2>3 DEF EndInv, Opening
  <2> QED
    BY <1>1, <2>1, <2>2, <2>4, <2>5, TunStays DEF Queues, LossyInv
<1>4. CASE Relay
  <2>1. /\ pc' = "poll" /\ rev' = [client |-> "none", server |-> "none"]
        /\ UNCHANGED ssent /\ EndInv'
    BY <1>4 DEF Relay, EndInv, Left, Parted
  <2>2. CASE SendNothing /\ UNCHANGED <<snxt, srv>>
    <3>1. SndInv'
      BY <1>1, <2>1, <2>2, NothingTaken DEF SndInv, Opening, Looping
    <3> QED
      BY <1>1, <2>1, <2>2, <3>1, StepsWithoutTaking DEF Queues, SendNothing
  <2>3. ASSUME NEW n \in 1..Len(srv), TakeServer(n),
               Send(Down("data", snxt, Taken(n), rnxt)), Advance(n)
        PROVE  LossyInv'
    <3>1. /\ Waiting' /\ Taking' = Taking + n
          /\ Len(Taken(n)) = n /\ \A j \in 1..n : Taken(n)[j] = Taking + j
      BY <1>1, <2>1, <2>3, Takes
    <3>2. n \in Nat /\ Taking \in Int
      BY <1>1 DEF Waiting, Taking
    <3>3. PICK seg : seg = Down("data", snxt, Taken(n), rnxt)
      OBVIOUS
    <3>4. Carried(seg)'
      <4>1. seg.kind = "data" /\ seg.seq = snxt /\ seg.bytes = Taken(n)
        BY <3>3 DEF Down
      <4>2. \A j \in 1..n : Taken(n)[j] = snxt + j - 1
        BY <1>1, <3>1, <3>2
      <4>3. Numbered(seg)
        BY <3>1, <4>1, <4>2 DEF Numbered
      <4> QED
        BY <4>1, <4>3 DEF Carried, Numbered
    <3>5. Queues
      BY <2>3, <3>3, <3>4 DEF Send, Queues
    <3>6. SndInv'
      <4>1. snxt' = Taking' + 1
        BY <1>1, <2>3, <3>1, <3>2 DEF Advance
      <4> QED
        BY <2>1, <4>1 DEF SndInv, Opening, Looping
    <3> QED
      BY <1>1, <2>1, <3>1, <3>5, <3>6, TunStays DEF LossyInv
  <2> QED
    BY <1>4, <2>2, <2>3 DEF Relay
<1> QED
  BY <1>2, <1>3, <1>4

\* The end: a FIN behind all that was taken, unless some of it was dropped.
LEMMA LossyCloses ==
  ASSUME LossyInv,
         \/ Stop \/ PollTimeout \/ CloseNothing \/ FinWait1 \/ FinWait2 \/ LastAck
         \/ CloseFin("ESTABLISHED", "FIN_WAIT_1", "fin1")
         \/ CloseFin("CLOSE_WAIT", "LAST_ACK", "last")
  PROVE  LossyInv'
<1>1. /\ UNCHANGED <<rev, sst, ssent, srv>>
      /\ Taking' = Taking /\ Broken' = Broken /\ Cut' = Cut
  <2>1. UNCHANGED <<rev, sst, ssent, srv>>
    BY DEF Stop, PollTimeout, CloseNothing, FinWait1, FinWait2, LastAck, CloseFin, serverVars
  <2> QED
    BY <2>1 DEF Taking, Broken, Cut
<1>2. CASE Stop \/ PollTimeout
  <2>1. pc = "poll" /\ pc' = "close" /\ UNCHANGED <<tun, snxt>>
    BY <1>2 DEF Stop, PollTimeout
  <2>2. Parts /\ Queues /\ SndInv' /\ EndInv'
    BY <1>1, <2>1 DEF Parts, Parted, Queues, LossyInv, SndInv, EndInv, Opening, Looping
  <2> QED
    BY <1>1, <2>2, StepsWithoutTaking
<1>3. ASSUME pc \in Left, pc' \in Parted, Queues PROVE LossyInv'
  <2>1. Parts /\ SndInv' /\ EndInv'
    BY <1>1, <1>3 DEF Parts, Parted, Left, LossyInv, SndInv, EndInv, Opening, Looping
  <2> QED
    BY <1>1, <1>3, <2>1, StepsWithoutTaking
<1>4. CASE CloseNothing
  BY <1>3, <1>4 DEF CloseNothing, Left, Parted, Queues
<1>5. CASE FinWait1 \/ FinWait2 \/ LastAck
  <2>1. pc \in Left /\ pc' \in Parted
    BY <1>5 DEF FinWait1, FinWait2, LastAck, Finish, Left, Parted
  <2>2. Queues
    BY <1>5, EmptyIsCarried DEF FinWait1, FinWait2, LastAck, Finish
  <2> QED
    BY <1>3, <2>1, <2>2
<1>6. ASSUME NEW from, NEW to, NEW next \in {"fin1", "last"}, CloseFin(from, to, next)
      PROVE  LossyInv'
  <2>1. pc = "close" /\ pc' = next /\ Send(Down("fin", snxt, <<>>, rnxt))
    BY <1>6 DEF CloseFin
  <2>2. Cut \/ snxt = Taking + 1
    BY <2>1 DEF LossyInv, SndInv
  <2>3. PICK seg : seg = Down("fin", snxt, <<>>, rnxt)
    OBVIOUS
  <2>4. Carried(seg)'
    BY <1>1, <2>1, <2>2, <2>3 DEF Carried, Down, Parted
  <2>5. Queues
    BY <2>1, <2>3, <2>4 DEF Send, Queues
  <2> QED
    BY <1>3, <2>1, <2>5 DEF Left, Parted
<1> QED
  BY <1>2, <1>4, <1>5, <1>6

\* Every step keeps the invariant.
LEMMA LossyStep ==
  ASSUME LossyInv, [NextLossy]_vars
  PROVE  LossyInv'
<1>1. CASE UNCHANGED vars
  <2>1. UNCHANGED <<pc, snxt, rev, sst, ssent, srv, tun>>
    BY <1>1 DEF vars, sessionVars, serverVars
  <2>2. Parts /\ Queues /\ SndInv' /\ EndInv'
    BY <2>1 DEF Parts, Queues, LossyInv, SndInv, EndInv, Opening, Looping, Cut, Broken, Taking
  <2> QED
    BY <2>1, <2>2, StepsWithoutTaking
<1>2. CASE Session
  BY <1>2, LossyOpens, LossyPolls, LossyRelays, LossyCloses DEF Session
<1> QED
  BY <1>1, <1>2, ClientReads, ServerSends, LossyCloses DEF NextLossy, Next

\* The invariant of the server's direction holds whatever the client loses.
THEOREM LossyInvariant == SpecLossy => []LossyInv
<1>1. ASSUME Init PROVE LossyInv
  <2>1. /\ pc = "first" /\ snxt = 0 /\ tun = <<>> /\ ssent = 0 /\ srv = <<>>
        /\ rev = [client |-> "none", server |-> "none"]
    BY <1>1 DEF Init
  <2>2. Len(<<>>) = 0 /\ \A S : <<>> \in Seq(S)
    BY EmptySeq
  <2>3. Waiting /\ Taking = 0
    <3>1. ssent = 0 /\ Len(srv) = 0
      BY <2>1
    <3>2. Taking = 0
      BY <3>1 DEF Taking
    <3> QED
      BY <2>1, <2>2, <3>1, <3>2, ConstAssumption DEF Waiting, Queued
  <2>4. SndInv /\ EndInv
    BY <2>1, <2>3 DEF SndInv, EndInv, Opening, Looping, Left, Parted
  <2>5. TunInv
    BY <2>1, <2>2 DEF TunInv, IsQueue, Contents
  <2> QED
    BY <2>3, <2>4, <2>5 DEF LossyInv
<1>2. LossyInv /\ [NextLossy]_vars => LossyInv'
  BY LossyStep
<1> QED
  BY <1>1, <1>2, PTL DEF SpecLossy

\* However many of the client's packets are lost, the bytes of every data segment
\* to it have the numbers of their positions in the server's stream.
THEOREM DownloadSurvivesLoss == SpecLossy => []DownloadIntegrity
<1>1. ASSUME LossyInv PROVE DownloadIntegrity
  <2> SUFFICES ASSUME NEW i \in 1..Len(tun), NEW j \in 1..Len(tun[i].bytes)
               PROVE  tun[i].bytes[j] = tun[i].seq + j - 1
    BY DEF DownloadIntegrity
  <2>1. Carried(tun[i])
    BY <1>1 DEF LossyInv, TunInv, Contents
  <2>2. tun[i].bytes # <<>>
    OBVIOUS
  <2> QED
    BY <2>1, <2>2 DEF Carried, Numbered
<1> QED
  BY LossyInvariant, <1>1, PTL

\* And a FIN to it is behind the whole stream of a server that has ended it, and behind
\* every byte that was taken when the loop was stopped; only a loop that the client's
\* side broke, or a server's reset, may have dropped bytes.
THEOREM FinSurvivesLoss == SpecLossy => []FinAfterDownload
<1>1. ASSUME LossyInv PROVE FinAfterDownload
  <2> SUFFICES ASSUME rev.client \notin {"hup", "err"},
                      NEW i \in 1..Len(tun), tun[i].kind = "fin"
               PROVE  /\ rev.server = "in" => tun[i].seq = ssent + 1
                      /\ rev.server = "none" => tun[i].seq + Len(srv) = ssent + 1
    BY DEF FinAfterDownload
  <2>1. pc \in Parted /\ (Cut \/ tun[i].seq = Taking + 1) /\ ~Broken
    BY <1>1 DEF LossyInv, TunInv, Contents, Carried, Broken
  <2>2. Len(srv) \in Nat /\ ssent \in Nat
    BY <1>1, ConstAssumption DEF LossyInv, Waiting
  <2>3. CASE rev.server = "none"
    <3>1. tun[i].seq = Taking + 1
      BY <2>1, <2>3 DEF Cut
    <3> QED
      BY <2>2, <2>3, <3>1 DEF Taking
  <2>4. CASE rev.server = "in"
    <3>1. tun[i].seq = Taking + 1 /\ srv = <<>>
      BY <1>1, <2>1, <2>4 DEF Cut, LossyInv, EndInv, Left
    <3>2. Len(srv) = 0
      BY <3>1
    <3> QED
      BY <2>2, <2>4, <3>1, <3>2 DEF Taking
  <2> QED
    BY <2>3, <2>4
<1> QED
  BY LossyInvariant, <1>1, PTL

\* What holds whatever is lost holds when nothing is.
THEOREM FinBehindDownload == Spec => []FinAfterDownload
<1>1. [Next]_vars => [NextLossy]_vars
  BY DEF NextLossy
<1>2. Spec => SpecLossy
  BY <1>1, PTL DEF Spec, SpecLossy
<1> QED
  BY <1>2, FinSurvivesLoss, PTL
=============================================================================
