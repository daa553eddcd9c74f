--------------------------- MODULE TcpSessionProofs ---------------------------
(***************************************************************************)
(* Proofs about TcpSession for every length of the two streams, every      *)
(* window, every capacity of the pipe and of the TUN device's queue, with  *)
(* and without failing writes to it; and about the window check for every  *)
(* width of its numbers.                                                   *)
(***************************************************************************)
EXTENDS MCTcpSession, SequenceTheorems, TLAPS

-----------------------------------------------------------------------------
(* Queues.                                                                 *)

\* r is q with d behind it, and r is q without its first element.
Appended(r, q, d) ==
    /\ Len(r) = Len(q) + 1 /\ r[Len(q) + 1] = d
    /\ \A i \in 1..Len(q) : r[i] = q[i]
Tailed(r, q) ==
    /\ Len(r) = Len(q) - 1
    /\ \A i \in 1..Len(r) : r[i] = q[i + 1]

\* A queue with one more element behind it: its type, its elements, its head.
LEMMA QueueAppend ==
  ASSUME NEW S, NEW q \in Seq(S), NEW d \in S
  PROVE  /\ Append(q, d) \in Seq(S) /\ Appended(Append(q, d), q, d)
         /\ Append(q, d) # <<>>
         /\ Head(Append(q, d)) = IF q = <<>> THEN d ELSE Head(q)
<1>1. Append(q, d) \in Seq(S) /\ Appended(Append(q, d), q, d) /\ Len(q) \in Nat
  BY AppendProperties DEF Appended
<1>2. Append(q, d) # <<>> /\ Head(Append(q, d)) = Append(q, d)[1]
  BY <1>1, EmptySeq DEF Appended
<1>3. CASE q = <<>>
  BY <1>1, <1>2, <1>3, EmptySeq DEF Appended
<1>4. CASE q # <<>>
  <2>1. Len(q) # 0 /\ Head(q) = q[1]
    BY <1>4, EmptySeq
  <2> QED
    BY <1>1, <1>2, <1>4, <2>1 DEF Appended
<1> QED
  BY <1>3, <1>4

\* The head and the rest of a queue that is not empty.
LEMMA QueueTail ==
  ASSUME NEW S, NEW q \in Seq(S), q # <<>>
  PROVE  /\ Head(q) \in S /\ Head(q) = q[1] /\ Len(q) \in Nat \ {0}
         /\ Tail(q) \in Seq(S) /\ Tailed(Tail(q), q)
         /\ Len(q) = 1 => Tail(q) = <<>>
<1>1. Len(q) \in Nat \ {0} /\ Head(q) = q[1]
  BY EmptySeq
<1>2. Tail(q) \in Seq(S) /\ Tailed(Tail(q), q)
  BY <1>1, HeadTailProperties DEF Tailed
<1>3. ASSUME Len(q) = 1 PROVE Tail(q) = <<>>
  <2>1. Len(Tail(q)) = 0
    BY <1>2, <1>3 DEF Tailed
  <2> QED
    BY <1>2, <2>1, EmptySeq
<1> QED
  BY <1>1, <1>2, <1>3

\* A queue over a set is one over every larger set.
LEMMA QueueWider ==
  ASSUME NEW S, NEW T, S \subseteq T, NEW q \in Seq(S)
  PROVE  q \in Seq(T)
<1>1. \A i \in 1..Len(q) : q[i] \in T
  OBVIOUS
<1>2. q = [i \in 1..Len(q) |-> q[i]] /\ Len(q) \in Nat
  OBVIOUS
<1> QED
  BY <1>1, <1>2, IsASeq

\* The elements of a queue are of its set.
LEMMA QueueElements ==
  ASSUME NEW S, NEW q \in Seq(S)
  PROVE  \A i \in 1..Len(q) : q[i] \in S
OBVIOUS

\* A function over 1..n is a queue of length n.
LEMMA QueueOf ==
  ASSUME NEW S, NEW n \in Nat, NEW q \in [1..n -> S]
  PROVE  q \in Seq(S) /\ Len(q) = n
OBVIOUS

-----------------------------------------------------------------------------
(* The client's stream in the pipe.                                        *)

UpSegment == [kind : {"syn", "ack", "psh", "fin", "odd", "rst", "rstack"},
              seq : Nat, len : Nat, ack : Nat]
DownSegment == [kind : {"synack", "ack", "data", "fin", "rst"},
                seq : Nat, bytes : Seq(1..MaxDown), ack : Nat]

\* The numbers that the bytes of the client and the end of its stream have.
Number == 1..(MaxUp + 1)

\* What the session's next expected number becomes when segment p comes and it
\* expects from: p begins there, or repeats what has come, or is empty.  A FIN is
\* behind the whole stream, which ends before end.
Follows(p, from, to, end) ==
    /\ \/ p.len > 0 /\ p.len <= MaxSeg /\ p.seq = from /\ to = from + p.len
       \/ p.len > 0 /\ p.seq + p.len <= from /\ to = from
       \/ p.len = 0 /\ to = from
    /\ p.kind = "fin" => to = end /\ p.seq + p.len = end

\* The segments of q take the expected number from one to the end of the stream.
Leads(reach, q, from, end) ==
    /\ reach[0] = from /\ reach[Len(q)] = end
    /\ \A i \in 1..Len(q) : Follows(q[i], reach[i - 1], reach[i], end)
Stream(q, from, end) == \E reach \in [0..Len(q) -> Number] : Leads(reach, q, from, end)

\* No segment leads from a number to itself.
LEMMA StreamEmpty ==
  ASSUME NEW from \in Number
  PROVE  Stream(<<>>, from, from)
<1> DEFINE reach == [i \in 0..0 |-> from]
<1>1. Len(<<>>) = 0
  OBVIOUS
<1>2. reach \in [0..Len(<<>>) -> Number] /\ Leads(reach, <<>>, from, from)
  BY <1>1 DEF Leads
<1> QED
  BY <1>2 DEF Stream

\* The first segment leads to a number from which the others lead to the end.
LEMMA StreamTail ==
  ASSUME NEW q \in Seq(UpSegment), q # <<>>, NEW from, NEW end, Stream(q, from, end)
  PROVE  \E to \in Number : Follows(Head(q), from, to, end) /\ Stream(Tail(q), to, end)
<1>1. PICK reach \in [0..Len(q) -> Number] : Leads(reach, q, from, end)
  BY DEF Stream
<1> DEFINE n == Len(q)
           r == Tail(q)
           rest == [i \in 0..Len(r) |-> reach[i + 1]]
<1>2. /\ Head(q) = q[1] /\ n \in Nat \ {0}
      /\ Len(r) = n - 1 /\ \A i \in 1..Len(r) : r[i] = q[i + 1]
  BY QueueTail DEF Tailed
<1>3. reach[1] \in Number /\ Follows(Head(q), from, reach[1], end)
  BY <1>1, <1>2 DEF Leads
<1> HIDE DEF n, r
<1>4. rest \in [0..Len(r) -> Number]
  BY <1>2, <1>1 DEF n
<1>5. ASSUME NEW i \in 1..Len(r) PROVE Follows(r[i], rest[i - 1], rest[i], end)
  <2>1. i + 1 \in 1..Len(q) /\ rest[i - 1] = reach[i] /\ rest[i] = reach[i + 1]
    BY <1>2 DEF n
  <2>2. (i + 1) - 1 = i
    OBVIOUS
  <2> HIDE DEF rest
  <2> QED
    BY <1>1, <1>2, <2>1, <2>2 DEF Leads
<1>6. rest[0] = reach[1] /\ rest[Len(r)] = end
  BY <1>1, <1>2 DEF Leads, n
<1>7. Stream(r, reach[1], end)
  <2> HIDE DEF rest
  <2> QED
    BY <1>4, <1>5, <1>6 DEF Stream, Leads
<1> QED
  BY <1>3, <1>7 DEF r

\* One segment more, that goes on where the stream ended, leads to its own end; a FIN
\* has nothing but repeats behind it.
LEMMA StreamAppend ==
  ASSUME NEW q \in Seq(UpSegment), NEW d \in UpSegment, NEW from, NEW end, NEW later \in Number,
         Stream(q, from, end), Follows(d, end, later, later),
         later = end \/ \A i \in 1..Len(q) : q[i].kind # "fin"
  PROVE  Stream(Append(q, d), from, later)
<1>1. PICK reach \in [0..Len(q) -> Number] : Leads(reach, q, from, end)
  BY DEF Stream
<1> DEFINE n == Len(q)
           r == Append(q, d)
           more == [i \in 0..Len(r) |-> IF i <= n THEN reach[i] ELSE later]
<1>2. n \in Nat /\ Len(r) = n + 1 /\ r[n + 1] = d /\ \A i \in 1..n : r[i] = q[i]
  BY QueueAppend DEF Appended
<1> HIDE DEF n, r
<1>3. more \in [0..Len(r) -> Number]
  BY <1>2, <1>1 DEF n
<1>4. ASSUME NEW i \in 1..Len(r) PROVE Follows(r[i], more[i - 1], more[i], later)
  <2>1. CASE i <= n
    <3>1. i \in 1..Len(q) /\ more[i - 1] = reach[i - 1] /\ more[i] = reach[i] /\ r[i] = q[i]
      BY <1>2, <2>1 DEF n
    <3>2. Follows(q[i], reach[i - 1], reach[i], end)
      BY <1>1, <3>1 DEF Leads
    <3> HIDE DEF more
    <3> QED
      BY <3>1, <3>2 DEF Follows
  <2>2. CASE i = n + 1
    <3>1. more[i - 1] = reach[n] /\ more[i] = later /\ r[i] = d /\ reach[n] = end
      BY <1>1, <1>2, <2>2 DEF n, Leads
    <3> HIDE DEF more
    <3> QED
      BY <3>1
  <2> QED
    BY <1>2, <2>1, <2>2
<1>5. more[0] = from /\ more[Len(r)] = later
  BY <1>1, <1>2 DEF Leads
<1>6. Stream(r, from, later)
  <2> HIDE DEF more
  <2> QED
    BY <1>3, <1>4, <1>5 DEF Stream, Leads
<1> QED
  BY <1>6 DEF r

-----------------------------------------------------------------------------
(* The inductive invariant, in parts.                                      *)

\* What the session has taken from the server.
Taking == ssent - Len(srv)

Opening == pc \in {"first", "dial", "shake"}
Looping == pc \in {"poll", "relay"}
Broken == rev.client \in {"hup", "err"}

\* The session still counts the client's bytes.
Streaming ==
    pc \in {"dial", "shake", "poll", "relay"} /\ state \in {"SYN_RECEIVED", "ESTABLISHED"}

\* The bytes in hand, as in the refinement.
Hand == IF pc = "relay" /\ rev.client = "in" THEN cbuf ELSE <<>>

\* Segments that may be on their way: a FIN of the client that has sent one; a
\* reset of a session that is closed; and taken bytes, with their numbers.
GoodUp ==
    {p \in UpSegment :
        /\ p.len > 0 => p.seq >= 1 /\ p.seq + p.len <= MaxUp + 1
        /\ p.kind = "fin" => cst \in {"fin", "reset"}}
Numbered(p) == \A j \in 1..Len(p.bytes) : p.bytes[j] = p.seq + j - 1
GoodDown ==
    {p \in DownSegment :
        /\ p.kind = "rst" => state = "CLOSED"
        /\ IF p.kind = "data" THEN p.seq + Len(p.bytes) <= Taking + 1 /\ Numbered(p)
           ELSE p.bytes = <<>>}
SegInv == pipe \in Seq(GoodUp) /\ tun \in Seq(GoodDown)

ClientInv ==
    /\ csent >= 1
    /\ cst \in {"syn_sent", "gone"} => csent = 1 /\ cuna = 0
    /\ cst \in {"estab", "fin"} => cuna >= 1
    /\ cst # "reset" => SentBytes <= MaxUp
    /\ cst = "fin" => csent >= 2
    /\ cst = "reset" => state = "CLOSED"

\* How far the handshake is, and with what a turn of the loop ended.
PhaseInv ==
    /\ pc = "first" =>
          /\ state = "LISTEN" /\ tun = <<>> /\ pipe # <<>>
          /\ Head(pipe).kind = "syn" =>
                Len(pipe) = 1 /\ Head(pipe).seq = 0 /\ cst \in {"syn_sent", "gone"}
    /\ pc = "dial" =>
          /\ state = "SYN_RECEIVED" /\ tun = <<>> /\ pipe = <<>>
          /\ rnxt = 1 /\ cst \in {"syn_sent", "gone"}
    /\ pc = "shake" =>
          /\ state = "SYN_RECEIVED" /\ rnxt = 1
          /\ pipe = <<>> => cst \in {"syn_sent", "gone"}
          /\ pipe # <<>> => cst # "syn_sent" /\ Head(pipe).len = 0
    /\ pc = "poll" => state = "ESTABLISHED" \/ (state = "CLOSED" /\ eagain)
    /\ pc = "relay" =>
          \/ state = "ESTABLISHED"
          \/ state = "CLOSED" /\ rev.client = "none" /\ eagain
          \/ state = "CLOSED" /\ rev.client = "err"
          \/ state = "CLOSE_WAIT" /\ rev.client = "hup"
    /\ pc \in {"fin1", "fin2", "last"} => state # "CLOSED"
    /\ state = "CLOSE_WAIT" => cst = "fin" /\ pc \in {"relay", "close"} /\ Broken

StreamInv == Streaming => Stream(pipe, rnxt, SentBytes + 1)

Ascending(q) == \A i \in 2..Len(q) : q[i - 1] < q[i]
Whole(q) == \A i \in 1..Len(q) : q[i] = i

\* Where the next expected number r is and what is acknowledged, a, when the bytes f
\* were handed over and h are in hand; whole: none was dropped.
Counts(f, h, r, a, whole) ==
    /\ r >= 1 /\ a <= r
    /\ \A i \in 1..Len(f) : f[i] < r - Len(h)
    /\ \A i \in 1..Len(h) : h[i] = r - Len(h) + i - 1
    /\ whole => Len(f) = r - Len(h) - 1

\* What was handed over, what is in hand and what is expected next.
NoneDropped == ~eagain /\ sst # "reset"
ForwardInv ==
    /\ Opening => fwd = <<>> /\ acked <= 1
    /\ Ascending(fwd)
    /\ ~eagain => Whole(fwd)
    /\ Streaming => Counts(fwd, Hand, rnxt, acked, NoneDropped)
    /\ FinAfterData

\* The bytes of the server, in its socket and behind.
Queued == Len(srv) <= ssent /\ \A i \in 1..Len(srv) : srv[i] = Taking + i
DownInv ==
    /\ Queued
    /\ crcv <= Taking
    /\ Opening => snxt = 0 /\ Taking = 0
    /\ Looping => snxt = Taking + 1

Inv == TypeOK /\ SegInv /\ ClientInv /\ PhaseInv /\ StreamInv /\ ForwardInv /\ DownInv

\* Before the first byte is expected nothing is handed over.
LEMMA CountsNothing ==
  ASSUME NEW a, a <= 1, NEW whole
  PROVE  Counts(<<>>, <<>>, 1, a, whole) /\ Ascending(<<>>) /\ Whole(<<>>)
<1>1. Len(<<>>) = 0
  OBVIOUS
<1>2. PICK q : q = <<>>
  OBVIOUS
<1>3. Len(q) = 0
  BY <1>1, <1>2
<1>4. Ascending(q) /\ Whole(q)
  BY <1>3 DEF Ascending, Whole
<1>5. Counts(q, q, 1, a, whole)
  BY <1>3 DEF Counts
<1> QED
  BY <1>2, <1>4, <1>5

-----------------------------------------------------------------------------
(* What is on its way stays good.                                          *)

\* A segment of the client stays good while the client does not take back its FIN.
LEMMA GoodUpStays ==
  ASSUME cst \in {"fin", "reset"} => cst' \in {"fin", "reset"}
  PROVE  GoodUp \subseteq GoodUp'
BY DEF GoodUp

\* A segment of the session stays good while what was taken only grows and a closed
\* session stays closed.
LEMMA GoodDownStays ==
  ASSUME Taking \in Int, Taking' \in Int, Taking <= Taking',
         state = "CLOSED" => state' = "CLOSED"
  PROVE  GoodDown \subseteq GoodDown'
<1> SUFFICES ASSUME NEW p \in GoodDown PROVE p \in GoodDown'
  OBVIOUS
<1>1. p \in DownSegment /\ (p.kind = "rst" => state' = "CLOSED")
  BY DEF GoodDown
<1>2. p.seq \in Nat /\ p.bytes \in Seq(1..MaxDown) /\ Len(p.bytes) \in Nat
  BY <1>1 DEF DownSegment
<1>3. IF p.kind = "data" THEN p.seq + Len(p.bytes) <= Taking' + 1 /\ Numbered(p)
      ELSE p.bytes = <<>>
  <2>1. CASE p.kind = "data"
    <3>1. p.seq + Len(p.bytes) <= Taking + 1 /\ Numbered(p)
      BY <2>1 DEF GoodDown
    <3> HIDE DEF Taking, GoodDown, Numbered
    <3> QED
      BY <2>1, <3>1, <1>2
  <2>2. CASE p.kind # "data"
    BY <2>2 DEF GoodDown
  <2> QED
    BY <2>1, <2>2
<1> QED
  BY <1>1, <1>3 DEF GoodDown

\* A segment that is sent, or that the device has no room for.
LEMMA SendSends ==
  ASSUME NEW S, NEW seg \in S, tun \in Seq(S), Len(tun) <= TunCap, TunCap \in Nat,
         eagain \in BOOLEAN, acked \in Nat, seg.ack \in Nat, Send(seg)
  PROVE  /\ tun' \in Seq(S) /\ Len(tun') <= TunCap
         /\ eagain' \in BOOLEAN /\ (eagain => eagain')
         /\ acked' \in Nat /\ (acked' = acked \/ acked' = seg.ack)
         /\ Sent => eagain' = eagain
         /\ ~Sent => eagain'
<1>1. Append(tun, seg) \in Seq(S) /\ Appended(Append(tun, seg), tun, seg) /\ Len(tun) \in Nat
  BY QueueAppend
<1>2. Append(tun, seg) # tun /\ Len(Append(tun, seg)) = Len(tun) + 1
  BY <1>1 DEF Appended
<1>3. CASE tun' = Append(tun, seg) /\ TunRoom
           /\ acked' = (IF seg.kind = "rst" \/ seg.ack < acked THEN acked ELSE seg.ack)
           /\ eagain' = eagain
  BY <1>1, <1>2, <1>3 DEF TunRoom, Sent
<1>4. CASE eagain' = TRUE /\ tun' = tun /\ acked' = acked
  BY <1>4 DEF Sent
<1> QED
  BY <1>3, <1>4 DEF Send

\* What is known of the numbers in a state of the invariant.
Numeric ==
    /\ rnxt \in Nat /\ snxt \in Nat /\ acked \in Nat /\ csent \in Nat /\ cuna \in 0..csent
    /\ crcv \in 0..MaxDown /\ ssent \in 0..MaxDown /\ Len(srv) \in Nat /\ Len(srv) <= ssent
    /\ Taking \in 0..MaxDown /\ crcv <= Taking /\ SentBytes \in Int
    /\ cst # "reset" => SentBytes \in 0..MaxUp
    /\ Len(pipe) \in Nat /\ Len(tun) \in Nat
    /\ pipe \in Seq(UpSegment) /\ tun \in Seq(DownSegment)

\* The invariant bounds the numbers.
LEMMA InvNumeric ==
  ASSUME Inv PROVE Numeric
<1>1. rnxt \in Nat /\ snxt \in Nat /\ acked \in Nat /\ csent \in Nat /\ cuna \in 0..csent
      /\ crcv \in 0..MaxDown /\ ssent \in 0..MaxDown /\ srv \in Seq(1..MaxDown)
  BY DEF Inv, TypeOK
<1>2. Len(srv) \in Nat /\ Len(srv) <= ssent /\ crcv <= Taking
  BY <1>1 DEF Inv, DownInv, Queued
<1>3. Taking \in 0..MaxDown
  BY <1>1, <1>2, ConstAssumption DEF Taking
<1>4. SentBytes \in Int /\ (cst # "reset" => SentBytes \in 0..MaxUp)
  <2>1. csent >= 1 /\ (cst = "fin" => csent >= 2) /\ (cst # "reset" => SentBytes <= MaxUp)
    BY DEF Inv, ClientInv
  <2> QED
    BY <1>1, <2>1, ConstAssumption DEF SentBytes
<1>5. GoodUp \subseteq UpSegment /\ GoodDown \subseteq DownSegment
  BY DEF GoodUp, GoodDown
<1>6. pipe \in Seq(UpSegment) /\ tun \in Seq(DownSegment)
  BY <1>5, QueueWider DEF Inv, SegInv
<1> QED
  BY <1>1, <1>2, <1>3, <1>4, <1>6 DEF Numeric

-----------------------------------------------------------------------------
(* The client.                                                             *)

\* What any step of the client does.
ClientStep ==
    /\ UNCHANGED <<sessionVars, serverVars>>
    /\ tun' = tun \/ (tun # <<>> /\ tun' = Tail(tun))
    /\ cst' \in ClientState /\ csent' \in Nat /\ cuna' \in 0..csent' /\ crcv' \in crcv..Taking
    /\ ClientInv'
    /\ cst \in {"fin", "reset"} => cst' \in {"fin", "reset"}
    /\ \/ /\ pipe' = pipe
          /\ state # "CLOSED" => SentBytes' = SentBytes
          /\ \/ cst' = cst
             \/ cst = "syn_sent" /\ cst' = "gone"
             \/ cst = "syn_sent" /\ cst' = "estab" /\ tun # <<>> /\ ~CanSend
             \/ cst' = "reset"
       \/ /\ CanSend
          /\ cst' # "syn_sent"
          /\ cst \in {"syn_sent", "gone"} => tun # <<>>
          /\ SentBytes' = SentBytes \/ cst = "estab"
          /\ \E seg \in GoodUp' :
                /\ pipe' = Append(pipe, seg)
                /\ cst \in {"syn_sent", "gone"} => seg.len = 0
                /\ seg.kind # "syn"
                /\ Follows(seg, SentBytes + 1, SentBytes' + 1, SentBytes' + 1)

\* A step of the client, seen as ClientStep, keeps the invariant: a segment that it adds
\* goes on where the stream in the pipe ends.
LEMMA ClientSteps ==
  ASSUME Inv, ClientStep
  PROVE  Inv'
<1>1. Numeric
  BY InvNumeric
<1>2. UNCHANGED <<pc, state, rnxt, snxt, rev, cbuf, eagain, fwd, acked, sst, ssent, srv>>
      /\ Taking' = Taking /\ Opening' = Opening /\ Looping' = Looping /\ Broken' = Broken
      /\ Streaming' = Streaming /\ Hand' = Hand
  BY DEF ClientStep, sessionVars, serverVars, Taking, Opening, Looping, Broken, Streaming, Hand
<1>3. tun' \in Seq(GoodDown') /\ Len(tun') <= TunCap /\ (tun = <<>> => tun' = <<>>)
  <2>1. GoodDown \subseteq GoodDown'
    <3>1. Taking \in Int
      BY <1>1 DEF Numeric
    <3> QED
      BY <1>2, <3>1, GoodDownStays
  <2>2. tun \in Seq(GoodDown) /\ Len(tun) <= TunCap
    BY DEF Inv, SegInv, TypeOK
  <2>3. tun \in Seq(GoodDown')
    BY <2>1, <2>2, QueueWider
  <2>4. CASE tun' = tun
    BY <2>2, <2>3, <2>4
  <2>5. CASE tun # <<>> /\ tun' = Tail(tun)
    <3>1. Tail(tun) \in Seq(GoodDown') /\ Tailed(Tail(tun), tun)
      BY <2>3, <2>5, QueueTail
    <3> QED
      BY <2>2, <2>5, <3>1, ConstAssumption, <1>1 DEF Tailed, ConstAssumption, Numeric
  <2> QED
    BY <2>4, <2>5 DEF ClientStep
<1>4. GoodUp \subseteq GoodUp'
  BY GoodUpStays DEF ClientStep
<1>5. pipe \in Seq(GoodUp') /\ Len(pipe) <= PipeCap
  BY <1>4, QueueWider DEF Inv, SegInv, TypeOK
<1>6. DownInv'
  <2>1. crcv' <= Taking'
    BY <1>1, <1>2 DEF ClientStep, Numeric
  <2>2. Queued'
    BY <1>2 DEF Inv, DownInv, Queued, Taking
  <2> QED
    BY <1>2, <2>1, <2>2 DEF Inv, DownInv
<1>7. ASSUME Len(pipe') <= PipeCap PROVE TypeOK'
  <2>1. cst' \in ClientState /\ csent' \in Nat /\ cuna' \in 0..csent' /\ crcv' \in 0..MaxDown
    BY <1>1, <1>2, ConstAssumption DEF ClientStep, Numeric
  <2> QED
    BY <1>2, <1>3, <1>7, <2>1 DEF Inv, TypeOK
<1>8. (state = "CLOSED" \/ SentBytes' = SentBytes \/ cst = "estab") => ForwardInv'
  <2>1. ASSUME state = "CLOSED" \/ SentBytes' = SentBytes \/ cst = "estab" PROVE FinAfterData'
    BY <2>1, <1>2 DEF Inv, ForwardInv, PhaseInv, FinAfterData
  <2> QED
    BY <1>2, <2>1 DEF Inv, ForwardInv, NoneDropped
<1>9. ClientInv'
  BY DEF ClientStep
<1>10. ASSUME cst' # "reset" PROVE SentBytes' + 1 \in Number
  <2>1. PICK c \in Nat : c = csent'
    BY DEF ClientStep
  <2>2. PICK s : s = SentBytes'
    OBVIOUS
  <2>3. s = IF cst' = "fin" THEN c - 2 ELSE c - 1
    BY <2>1, <2>2 DEF SentBytes
  <2>4. c >= 1 /\ (cst' = "fin" => c >= 2) /\ s <= MaxUp
    BY <1>9, <1>10, <2>1, <2>2 DEF ClientInv
  <2>5. s \in 0..MaxUp
    BY <2>3, <2>4, ConstAssumption
  <2>6. s + 1 \in Number
    BY <2>5, ConstAssumption DEF Number
  <2> QED
    BY <2>2, <2>6
<1>11. CASE pipe' = pipe /\ (state # "CLOSED" => SentBytes' = SentBytes) /\
            (\/ cst' = cst
             \/ cst = "syn_sent" /\ cst' = "gone"
             \/ cst = "syn_sent" /\ cst' = "estab" /\ tun # <<>> /\ ~CanSend
             \/ cst' = "reset")
  <2>1. SegInv' /\ TypeOK'
    BY <1>3, <1>5, <1>7, <1>11 DEF SegInv
  <2>2. ForwardInv'
    BY <1>8, <1>11
  <2>3. StreamInv'
    BY <1>2, <1>11 DEF Inv, StreamInv, Streaming
  <2>4. PhaseInv'
    <3>1. cst' = "reset" => state = "CLOSED"
      BY <1>2, <1>9 DEF ClientInv
    <3>2. pc = "shake" /\ pipe = <<>> => CanSend
      BY <1>1, ConstAssumption, EmptySeq DEF ConstAssumption, CanSend, Numeric
    <3>3. PhaseInv /\ (tun = <<>> => tun' = <<>>) /\ pipe' = pipe
      BY <1>3, <1>11 DEF Inv
    <3>4. UNCHANGED <<pc, state, rnxt, eagain, rev>>
      BY <1>2
    <3>5. CASE cst' = cst
      BY <3>3, <3>4, <3>5, <1>2 DEF PhaseInv
    <3>6. CASE cst = "syn_sent" /\ cst' = "gone"
      BY <3>3, <3>4, <3>6, <1>2 DEF PhaseInv
    <3>7. CASE cst = "syn_sent" /\ cst' = "estab" /\ tun # <<>> /\ ~CanSend
      BY <3>2, <3>3, <3>4, <3>7, <1>2 DEF PhaseInv
    <3>8. CASE cst' = "reset"
      BY <3>1, <3>3, <3>4, <3>8, <1>2 DEF PhaseInv
    <3> QED
      BY <1>11, <3>5, <3>6, <3>7, <3>8
  <2> QED
    BY <1>6, <1>9, <2>1, <2>2, <2>3, <2>4 DEF Inv
<1>12. CASE /\ CanSend /\ cst' # "syn_sent" /\ (cst \in {"syn_sent", "gone"} => tun # <<>>)
            /\ SentBytes' = SentBytes \/ cst = "estab"
            /\ \E seg \in GoodUp' :
                /\ pipe' = Append(pipe, seg)
                /\ cst \in {"syn_sent", "gone"} => seg.len = 0
                /\ seg.kind # "syn"
                /\ Follows(seg, SentBytes + 1, SentBytes' + 1, SentBytes' + 1)
  <2> PICK seg \in GoodUp' :
                /\ pipe' = Append(pipe, seg)
                /\ cst \in {"syn_sent", "gone"} => seg.len = 0
                /\ seg.kind # "syn"
                /\ Follows(seg, SentBytes + 1, SentBytes' + 1, SentBytes' + 1)
    BY <1>12
  <2>1. pipe' \in Seq(GoodUp') /\ Appended(pipe', pipe, seg) /\ pipe' # <<>>
        /\ Head(pipe') = IF pipe = <<>> THEN seg ELSE Head(pipe)
    BY <1>5, QueueAppend
  <2>2. SegInv' /\ TypeOK'
    <3>1. Len(pipe') <= PipeCap
      BY <2>1, <1>12, <1>1, ConstAssumption DEF CanSend, Appended, Numeric
    <3> QED
      BY <1>3, <1>7, <2>1, <3>1 DEF SegInv
  <2>3. ForwardInv'
    BY <1>8, <1>12
  <2>4. StreamInv'
    <3> SUFFICES ASSUME Streaming PROVE Stream(pipe', rnxt, SentBytes' + 1)
      BY <1>2 DEF StreamInv
    <3>1. Stream(pipe, rnxt, SentBytes + 1)
      BY DEF Inv, StreamInv
    <3>2. SentBytes' + 1 \in Number
      BY <1>2, <1>9, <1>10 DEF ClientInv, Streaming
    <3>3. SentBytes' + 1 = SentBytes + 1 \/ \A i \in 1..Len(pipe) : pipe[i].kind # "fin"
      <4>1. ASSUME cst = "estab", NEW i \in 1..Len(pipe) PROVE pipe[i].kind # "fin"
        <5>1. pipe[i] \in GoodUp
          BY DEF Inv, SegInv
        <5> QED
          BY <4>1, <5>1 DEF GoodUp
      <4> QED
        BY <1>12, <4>1
    <3>4. seg \in UpSegment
      BY DEF GoodUp
    <3> QED
      BY <1>1, <3>1, <3>2, <3>3, <3>4, StreamAppend DEF Numeric
  <2>5. PhaseInv'
    <3>1. cst' = "reset" => state = "CLOSED"
      BY <1>2, <1>9 DEF ClientInv
    <3>2. PhaseInv /\ (tun = <<>> => tun' = <<>>)
      BY <1>3 DEF Inv
    <3>3. UNCHANGED <<pc, state, rnxt, eagain, rev>> /\ Broken' = Broken
      BY <1>2
    <3>4. cst = "fin" => cst' \in {"fin", "reset"}
      BY DEF ClientStep
    <3>5. pc # "dial" /\ (pc = "first" => Head(pipe).kind # "syn")
      BY <1>12, <3>2 DEF PhaseInv
    <3>6. CASE pipe = <<>>
      BY <1>12, <2>1, <3>1, <3>2, <3>3, <3>4, <3>5, <3>6 DEF PhaseInv
    <3>7. CASE pipe # <<>>
      BY <1>12, <2>1, <3>1, <3>2, <3>3, <3>4, <3>5, <3>7 DEF PhaseInv
    <3> QED
      BY <3>6, <3>7
  <2> QED
    BY <1>6, <1>9, <2>2, <2>3, <2>4, <2>5 DEF Inv
<1> QED
  BY <1>11, <1>12 DEF ClientStep

\* A packet that the client sends is good where it carries no byte but its own.
LEMMA UpIsGood ==
  ASSUME NEW kind \in {"syn", "ack", "psh", "fin", "odd", "rst", "rstack"},
         NEW seq \in Nat, NEW len \in Nat, NEW ack \in Nat,
         NEW p, p = [kind |-> kind, seq |-> seq, len |-> len, ack |-> ack],
         len > 0 => seq >= 1 /\ seq + len <= MaxUp + 1,
         kind = "fin" => cst' \in {"fin", "reset"}
  PROVE  p \in GoodUp' /\ p.kind = kind /\ p.seq = seq /\ p.len = len
BY DEF GoodUp, UpSegment

\* An acknowledgment moves cuna and nothing else of the client.
LEMMA ClientInvStays ==
  ASSUME Inv, UNCHANGED <<state, cst, csent>>,
         cuna' = cuna \/ (cst \in {"estab", "fin"} /\ cuna' \in cuna..csent)
  PROVE  ClientInv' /\ SentBytes' = SentBytes /\ cuna' \in 0..csent'
<1>1. cuna \in 0..csent /\ csent \in Nat
  BY DEF Inv, TypeOK
<1>2. SentBytes' = SentBytes
  BY DEF SentBytes
<1>3. PICK k : k = cuna'
  OBVIOUS
<1>4. k = cuna \/ (cst \in {"estab", "fin"} /\ k \in cuna..csent)
  BY <1>3
<1>5. k \in 0..csent /\ (cst \in {"estab", "fin"} /\ cuna >= 1 => k >= 1)
  BY <1>1, <1>4
<1>6. cst \in {"syn_sent", "gone"} => k = cuna
  BY <1>4
<1>7. ClientInv
  BY DEF Inv
<1>8. cst' \in {"estab", "fin"} => cuna' >= 1
  BY <1>3, <1>5, <1>7 DEF ClientInv
<1>9. cst' \in {"syn_sent", "gone"} => csent' = 1 /\ cuna' = 0
  BY <1>3, <1>6, <1>7 DEF ClientInv
<1>10. cuna' \in 0..csent'
  BY <1>3, <1>5
<1> QED
  BY <1>2, <1>7, <1>8, <1>9, <1>10 DEF ClientInv

\* Every action of the client is a ClientStep.
LEMMA ClientActions ==
  ASSUME Inv, Client
  PROVE  ClientStep
<1>1. Numeric
  BY InvNumeric
<1>2. ClientInv
  BY DEF Inv
<1>3. crcv + 1 \in Nat /\ crcv \in crcv..Taking
  BY <1>1 DEF Numeric
<1>4. ASSUME NEW n \in 1..MaxSeg, ClientSend(n) PROVE ClientStep
  <2>1. /\ cst = "estab" /\ CanSend /\ csent + n - 1 <= MaxUp /\ csent' = csent + n
        /\ UNCHANGED <<sessionVars, tun, cst, cuna, crcv, serverVars, state>>
    BY <1>4 DEF ClientSend, MayFlow, sessionVars
  <2>2. PICK kind \in {"psh", "ack"} : pipe' = Append(pipe, Up(kind, csent, n))
    BY <1>4 DEF ClientSend, Data
  <2>3. n \in Nat /\ n > 0 /\ n <= MaxSeg /\ csent >= 1 /\ csent \in Nat /\ cuna \in 0..csent
    BY <1>1, <1>2, ConstAssumption DEF ClientInv, Numeric
  <2> DEFINE seg == Up(kind, csent, n)
  <2>4. seg \in GoodUp' /\ seg.kind = kind /\ seg.seq = csent /\ seg.len = n
    <3>1. seg = [kind |-> kind, seq |-> csent, len |-> n, ack |-> crcv + 1]
      BY DEF Up
    <3>2. csent + n <= MaxUp + 1
      BY <2>1, <2>3, ConstAssumption
    <3> HIDE DEF seg
    <3> QED
      BY <3>1, <3>2, <2>3, <1>3, UpIsGood
  <2>5. SentBytes = csent - 1 /\ SentBytes' = csent + n - 1
    <3>1. PICK c : c = csent + n
      OBVIOUS
    <3>2. csent' = c /\ cst = "estab" /\ cst' = "estab"
      BY <2>1, <3>1
    <3>3. SentBytes = csent - 1 /\ SentBytes' = c - 1
      BY <3>2 DEF SentBytes
    <3> QED
      BY <2>3, <3>1, <3>3
  <2>6. ClientInv'
    BY <1>2, <2>1, <2>3, <2>5 DEF ClientInv
  <2>7. cuna' \in 0..csent' /\ csent' \in Nat
    BY <2>1, <2>3
  <2>8. Follows(seg, SentBytes + 1, SentBytes' + 1, SentBytes' + 1)
    <3> HIDE DEF seg
    <3> QED
      BY <2>3, <2>4, <2>5 DEF Follows
  <2> HIDE DEF seg
  <2>9. pipe' = Append(pipe, seg)
    BY <2>2 DEF seg
  <2> QED
    BY <1>3, <2>1, <2>4, <2>6, <2>7, <2>8, <2>9 DEF ClientStep, ClientState
<1>5. ASSUME NEW n \in 0..MaxSeg, ClientFin(n) PROVE ClientStep
  <2> DEFINE seg == Up("fin", csent, n)
  <2>1. /\ cst = "estab" /\ CanSend /\ csent + n - 1 <= MaxUp /\ csent' = csent + n + 1
        /\ cst' = "fin" /\ pipe' = Append(pipe, seg)
        /\ UNCHANGED <<sessionVars, tun, cuna, crcv, serverVars, state>>
    BY <1>5 DEF ClientFin, MayFlow, sessionVars
  <2>2. n \in Nat /\ n <= MaxSeg /\ csent >= 1 /\ csent \in Nat /\ cuna \in 0..csent
    BY <1>1, <1>2, ConstAssumption DEF ClientInv, Numeric
  <2>3. seg \in GoodUp' /\ seg.kind = "fin" /\ seg.seq = csent /\ seg.len = n
    <3>1. seg = [kind |-> "fin", seq |-> csent, len |-> n, ack |-> crcv + 1]
      BY DEF Up
    <3>2. csent + n <= MaxUp + 1
      BY <2>1, <2>2, ConstAssumption
    <3> HIDE DEF seg
    <3> QED
      BY <3>1, <3>2, <2>1, <2>2, <1>3, UpIsGood
  <2> HIDE DEF seg
  <2>4. SentBytes = csent - 1 /\ SentBytes' = csent + n - 1
    <3>1. PICK c : c = csent + n + 1
      OBVIOUS
    <3>2. csent' = c /\ cst = "estab" /\ cst' = "fin"
      BY <2>1, <3>1
    <3>3. SentBytes = csent - 1 /\ SentBytes' = c - 2
      BY <3>2 DEF SentBytes
    <3> QED
      BY <2>2, <3>1, <3>3
  <2>5. ClientInv'
    <3>1. csent + n + 1 >= 2 /\ csent + n + 1 >= 1
      BY <2>2
    <3> QED
      BY <1>2, <2>1, <3>1, <2>4 DEF ClientInv
  <2>6. cuna' \in 0..csent' /\ csent' \in Nat
    BY <2>1, <2>2
  <2>7. Follows(seg, SentBytes + 1, SentBytes' + 1, SentBytes' + 1)
    BY <2>2, <2>3, <2>4 DEF Follows
  <2> QED
    BY <1>3, <2>1, <2>3, <2>5, <2>6, <2>7 DEF ClientStep, ClientState
<1>6. ASSUME ClientRetransmit PROVE ClientStep
  <2>1. /\ cst \in {"estab", "fin"} /\ CanSend /\ cuna < csent
        /\ UNCHANGED <<sessionVars, tun, cst, csent, cuna, crcv, serverVars, state>>
    BY <1>6 DEF ClientRetransmit, clientVars, sessionVars
  <2>2. ClientInv' /\ SentBytes' = SentBytes /\ cuna' \in 0..csent'
    BY <2>1, ClientInvStays
  <2>3. /\ csent \in Nat /\ cuna \in Nat /\ cuna >= 1 /\ SentBytes \in 0..MaxUp
        /\ SentBytes = IF cst = "fin" THEN csent - 2 ELSE csent - 1
    BY <1>1, <1>2, <2>1 DEF ClientInv, Numeric, SentBytes
  <2>4. \E seg \in GoodUp' :
           /\ pipe' = Append(pipe, seg)
           /\ seg.kind # "syn"
           /\ Follows(seg, SentBytes + 1, SentBytes + 1, SentBytes + 1)
    <3>1. CASE cuna > SentBytes /\ pipe' = Append(pipe, Up("fin", cuna, 0))
      <4> DEFINE seg == Up("fin", cuna, 0)
      <4>1. cst = "fin" /\ cuna = SentBytes + 1
        BY <2>1, <2>3, <3>1
      <4>2. seg = [kind |-> "fin", seq |-> cuna, len |-> 0, ack |-> crcv + 1]
        BY DEF Up
      <4> HIDE DEF seg
      <4>3. seg \in GoodUp' /\ seg.kind = "fin" /\ seg.seq = cuna /\ seg.len = 0
        BY <1>3, <2>1, <2>3, <4>1, <4>2, UpIsGood
      <4>4. Follows(seg, SentBytes + 1, SentBytes + 1, SentBytes + 1)
        BY <2>3, <4>1, <4>3 DEF Follows
      <4> QED
        BY <3>1, <4>3, <4>4 DEF seg
    <3>2. ASSUME NEW n \in 1..MaxSeg, NEW seg \in Data(cuna, n),
                 cuna + n <= SentBytes + 1, pipe' = Append(pipe, seg)
          PROVE  seg \in GoodUp' /\ seg.kind # "syn"
                 /\ Follows(seg, SentBytes + 1, SentBytes + 1, SentBytes + 1)
      <4>1. PICK kind \in {"psh", "ack"} : seg = Up(kind, cuna, n)
        BY DEF Data
      <4>2. seg = [kind |-> kind, seq |-> cuna, len |-> n, ack |-> crcv + 1]
        BY <4>1 DEF Up
      <4>3. n \in Nat /\ n > 0 /\ cuna + n <= SentBytes + 1 /\ cuna + n <= MaxUp + 1
        BY <2>3, <3>2, ConstAssumption
      <4>4. seg \in GoodUp' /\ seg.kind = kind /\ seg.seq = cuna /\ seg.len = n
        BY <1>3, <2>3, <4>2, <4>3, UpIsGood
      <4>5. Follows(seg, SentBytes + 1, SentBytes + 1, SentBytes + 1)
        BY <2>3, <4>3, <4>4 DEF Follows
      <4> QED
        BY <4>4, <4>5
    <3> QED
      BY <1>6, <3>1, <3>2 DEF ClientRetransmit
  <2> QED
    BY <1>1, <1>3, <2>1, <2>2, <2>4 DEF ClientStep, ClientState, Numeric
<1>7. ASSUME ClientAbort PROVE ClientStep
  <2> DEFINE seg == Up("rstack", csent, 0)
  <2>1. /\ cst = "estab" /\ CanSend /\ pipe' = Append(pipe, seg) /\ cst' = "aborted"
        /\ UNCHANGED <<sessionVars, tun, csent, cuna, crcv, serverVars, state>>
    BY <1>7 DEF ClientAbort, sessionVars, clientVars
  <2>2. seg = [kind |-> "rstack", seq |-> csent, len |-> 0, ack |-> crcv + 1]
    BY DEF Up
  <2> HIDE DEF seg
  <2>3. seg \in GoodUp' /\ seg.kind = "rstack" /\ seg.seq = csent /\ seg.len = 0
    BY <1>1, <1>3, <2>2, UpIsGood DEF Numeric
  <2>4. SentBytes' = SentBytes
    BY <2>1 DEF SentBytes
  <2>5. Follows(seg, SentBytes + 1, SentBytes + 1, SentBytes + 1)
    BY <2>3 DEF Follows
  <2>6. ClientInv'
    BY <1>2, <2>1, <2>4 DEF ClientInv
  <2> QED
    BY <1>1, <1>3, <2>1, <2>3, <2>4, <2>5, <2>6 DEF ClientStep, ClientState, Numeric
<1>8. ASSUME ClientAbandon PROVE ClientStep
  <2>1. /\ cst = "syn_sent" /\ cst' = "gone"
        /\ UNCHANGED <<sessionVars, pipe, tun, csent, cuna, crcv, serverVars, state>>
    BY <1>8 DEF ClientAbandon, sessionVars
  <2>2. SentBytes' = SentBytes
    BY <2>1 DEF SentBytes
  <2>3. ClientInv'
    BY <1>2, <2>1, <2>2 DEF ClientInv
  <2> QED
    BY <1>1, <1>3, <2>1, <2>2, <2>3 DEF ClientStep, ClientState, Numeric
<1>9. ASSUME ClientOdd PROVE ClientStep
  <2> DEFINE seg == Up("odd", csent, 0)
  <2>1. /\ cst = "estab" /\ CanSend /\ pipe' = Append(pipe, seg) /\ cst' = cst
        /\ UNCHANGED <<sessionVars, tun, csent, cuna, crcv, serverVars, state>>
    BY <1>9 DEF ClientOdd, sessionVars, clientVars
  <2>2. seg = [kind |-> "odd", seq |-> csent, len |-> 0, ack |-> crcv + 1]
    BY DEF Up
  <2> HIDE DEF seg
  <2>3. seg \in GoodUp' /\ seg.kind = "odd" /\ seg.seq = csent /\ seg.len = 0
    BY <1>1, <1>3, <2>2, UpIsGood DEF Numeric
  <2>4. SentBytes' = SentBytes
    BY <2>1 DEF SentBytes
  <2>5. Follows(seg, SentBytes + 1, SentBytes + 1, SentBytes + 1)
    BY <2>3 DEF Follows
  <2>6. ClientInv'
    BY <1>2, <2>1, <2>4 DEF ClientInv
  <2> QED
    BY <1>1, <1>3, <2>1, <2>3, <2>4, <2>5, <2>6 DEF ClientStep, ClientState, Numeric
<1>10. ASSUME ClientReceive PROVE ClientStep
  <2> DEFINE p == Head(tun)
             una == IF p.ack \in cuna..csent THEN p.ack ELSE cuna
             last == p.seq + Len(p.bytes) - 1
             got == IF p.seq <= crcv + 1 /\ last > crcv THEN last ELSE crcv
  <2>1. /\ tun # <<>> /\ tun' = Tail(tun)
        /\ UNCHANGED <<sessionVars, csent, serverVars, state>>
    BY <1>10 DEF ClientReceive, sessionVars
  <2>2. /\ p \in GoodDown /\ p.seq \in Nat /\ p.ack \in Nat /\ Len(p.bytes) \in Nat
        /\ p.kind \in {"synack", "ack", "data", "fin", "rst"}
    <3>1. p \in GoodDown
      BY <2>1, QueueTail DEF Inv, SegInv
    <3>2. p \in DownSegment
      BY <3>1 DEF GoodDown
    <3> QED
      BY <3>1, <3>2 DEF DownSegment
  <2>3. p.kind = "data" => got \in crcv..Taking
    <3>1. p.kind = "data" => p.seq + Len(p.bytes) <= Taking + 1
      BY <2>2 DEF GoodDown
    <3> HIDE DEF p
    <3> QED
      BY <1>1, <2>2, <3>1 DEF Numeric
  <2>4. una \in cuna..csent
    <3> HIDE DEF p
    <3> QED
      BY <1>1, <2>2 DEF Numeric
  <2>5. p.kind = "rst" => state = "CLOSED"
    BY <2>2 DEF GoodDown
  <2> HIDE DEF p, una, got
  \* A bare segment that the client may or must answer with.
  <2>6. ASSUME NEW kind \in {"ack", "rst"}, NEW seq \in Nat, NEW ack \in Nat,
               NEW seg, seg = [kind |-> kind, seq |-> seq, len |-> 0, ack |-> ack]
        PROVE  /\ seg \in GoodUp' /\ seg.len = 0 /\ seg.kind # "syn"
               /\ Follows(seg, SentBytes + 1, SentBytes + 1, SentBytes + 1)
    <3>1. seg \in GoodUp' /\ seg.kind = kind /\ seg.seq = seq /\ seg.len = 0
      BY <2>6, UpIsGood
    <3> QED
      BY <3>1 DEF Follows
  <2>7. CASE /\ cst = "syn_sent" /\ p.kind = "synack"
             /\ cst' = "estab" /\ cuna' = 1 /\ MustAnswer(Up("ack", 1, 0)) /\ crcv' = crcv
    <3>1. csent = 1 /\ SentBytes' = SentBytes /\ SentBytes = 0
      BY <1>2, <2>1, <2>7 DEF ClientInv, SentBytes
    <3>2. ClientInv'
      BY <1>2, <2>1, <2>7, <3>1, ConstAssumption DEF ClientInv
    <3>3. cuna' \in 0..csent' /\ csent' \in Nat /\ crcv' \in crcv..Taking
      BY <1>3, <2>1, <2>7, <3>1
    <3>4. CASE ~CanSend /\ pipe' = pipe
      BY <2>1, <2>7, <3>1, <3>2, <3>3, <3>4 DEF ClientStep, ClientState
    <3>5. CASE CanSend /\ pipe' = Append(pipe, Up("ack", 1, 0))
      <4> DEFINE seg == Up("ack", 1, 0)
      <4>1. seg = [kind |-> "ack", seq |-> 1, len |-> 0, ack |-> crcv + 1]
        BY DEF Up
      <4> HIDE DEF seg
      <4>2. /\ seg \in GoodUp' /\ seg.len = 0 /\ seg.kind # "syn"
            /\ Follows(seg, SentBytes + 1, SentBytes + 1, SentBytes + 1)
        BY <1>3, <2>6, <4>1
      <4>3. pipe' = Append(pipe, seg)
        BY <3>5 DEF seg
      <4> QED
        BY <2>1, <2>7, <3>1, <3>2, <3>3, <3>5, <4>2, <4>3 DEF ClientStep, ClientState
    <3> QED
      BY <2>7, <3>4, <3>5 DEF MustAnswer
  <2>8. CASE cst = "syn_sent" /\ p.kind # "synack" /\ UNCHANGED <<cst, cuna, crcv, pipe>>
    <3>1. ClientInv' /\ SentBytes' = SentBytes /\ cuna' \in 0..csent'
      BY <2>1, <2>8, ClientInvStays
    <3> QED
      BY <1>1, <1>3, <2>1, <2>8, <3>1 DEF ClientStep, ClientState, Numeric
  <2>9. CASE /\ cst \in {"estab", "fin"} /\ p.kind = "rst" /\ cst' = "reset"
              /\ UNCHANGED <<cuna, crcv, pipe>>
    <3>1. ClientInv'
      BY <1>2, <2>1, <2>5, <2>9 DEF ClientInv
    <3> QED
      BY <1>1, <1>3, <2>1, <2>5, <2>9, <3>1 DEF ClientStep, ClientState, Numeric
  <2>10. ASSUME cst \in {"estab", "fin"}, cst' = cst, cuna' = una, crcv' \in crcv..Taking,
                UNCHANGED pipe \/ (CanSend /\ \E n \in Nat : pipe' = Append(pipe, AckOf(n)))
         PROVE  ClientStep
    <3>1. ClientInv' /\ SentBytes' = SentBytes /\ cuna' \in 0..csent'
      BY <2>1, <2>4, <2>10, ClientInvStays
    <3>2. CASE pipe' = pipe
      BY <1>1, <2>1, <2>10, <3>1, <3>2 DEF ClientStep, ClientState, Numeric
    <3>3. ASSUME CanSend, NEW n \in Nat, pipe' = Append(pipe, AckOf(n))
          PROVE  ClientStep
      <4> DEFINE seg == AckOf(n)
      <4>1. seg = [kind |-> "ack", seq |-> csent, len |-> 0, ack |-> n]
        BY DEF AckOf, Up
      <4> HIDE DEF seg
      <4>2. /\ seg \in GoodUp' /\ seg.len = 0 /\ seg.kind # "syn"
            /\ Follows(seg, SentBytes + 1, SentBytes + 1, SentBytes + 1)
        BY <1>1, <2>6, <4>1 DEF Numeric
      <4>3. pipe' = Append(pipe, seg)
        BY <3>3 DEF seg
      <4> QED
        BY <1>1, <2>1, <2>10, <3>1, <3>3, <4>2, <4>3
           DEF ClientStep, ClientState, Numeric
    <3> QED
      BY <2>10, <3>2, <3>3
  <2>11. CASE /\ cst \in {"estab", "fin"} /\ p.kind = "ack"
              /\ cuna' = una /\ UNCHANGED <<cst, crcv, pipe>>
    BY <1>1, <2>10, <2>11 DEF Numeric
  <2>12. CASE /\ cst \in {"estab", "fin"} /\ p.kind = "data"
              /\ cuna' = una /\ crcv' = got /\ MayAnswer(AckOf(got + 1)) /\ UNCHANGED cst
    <3>1. got + 1 \in Nat
      BY <1>1, <2>3, <2>12 DEF Numeric
    <3> QED
      BY <2>3, <2>10, <2>12, <3>1 DEF MayAnswer, MustAnswer
  <2>13. CASE /\ cst \in {"estab", "fin"} /\ p.kind = "fin" /\ cuna' = una
              /\ MustAnswer(AckOf(IF p.seq = crcv + 1 THEN p.seq + 1 ELSE crcv + 1))
              /\ UNCHANGED <<cst, crcv>>
    <3>1. (IF p.seq = crcv + 1 THEN p.seq + 1 ELSE crcv + 1) \in Nat /\ crcv \in crcv..Taking
      BY <1>1, <2>2 DEF Numeric
    <3> QED
      BY <2>10, <2>13, <3>1 DEF MustAnswer
  <2>14. CASE /\ cst \in {"aborted", "gone", "reset"}
              /\ IF p.kind = "rst" THEN UNCHANGED pipe
                 ELSE MustAnswer([Up("rst", csent, 0) EXCEPT !.seq = p.ack])
              /\ UNCHANGED <<cst, cuna, crcv>>
    <3>1. ClientInv' /\ SentBytes' = SentBytes /\ cuna' \in 0..csent'
      BY <2>1, <2>14, ClientInvStays
    <3>2. CASE pipe' = pipe
      BY <1>1, <1>3, <2>1, <2>14, <3>1, <3>2 DEF ClientStep, ClientState, Numeric
    <3>3. CASE CanSend /\ pipe' = Append(pipe, [Up("rst", csent, 0) EXCEPT !.seq = p.ack])
      <4> DEFINE seg == [Up("rst", csent, 0) EXCEPT !.seq = p.ack]
      <4>1. seg = [kind |-> "rst", seq |-> p.ack, len |-> 0, ack |-> crcv + 1]
        BY DEF Up
      <4> HIDE DEF seg
      <4>2. /\ seg \in GoodUp' /\ seg.len = 0 /\ seg.kind # "syn"
            /\ Follows(seg, SentBytes + 1, SentBytes + 1, SentBytes + 1)
        BY <1>3, <2>2, <2>6, <4>1
      <4>3. pipe' = Append(pipe, seg)
        BY <3>3 DEF seg
      <4> QED
        BY <1>1, <1>3, <2>1, <2>14, <3>1, <3>3, <4>2, <4>3
           DEF ClientStep, ClientState, Numeric
    <3> QED
      BY <2>14, <3>2, <3>3 DEF MustAnswer
  <2> QED
    BY <1>10, <2>7, <2>8, <2>9, <2>11, <2>12, <2>13, <2>14
       DEF ClientReceive, p, una, got
<1> QED
  BY <1>4, <1>5, <1>6, <1>7, <1>8, <1>9, <1>10 DEF Client

-----------------------------------------------------------------------------
(* The server, and the initial states.                                     *)

\* What waits in the server's socket.
Waiting == srv \in Seq(1..MaxDown) /\ ssent \in 0..MaxDown /\ Queued

\* The invariant says so.
LEMMA InvWaiting ==
  ASSUME Inv PROVE Waiting
BY DEF Inv, TypeOK, DownInv, Waiting

\* A byte more of the server is the next one, and not taken.
LEMMA Arrives ==
  ASSUME Waiting, ssent < MaxDown, ssent' = ssent + 1, srv' = Append(srv, ssent + 1)
  PROVE  Waiting' /\ Taking' = Taking
<1>1. ssent \in Nat /\ ssent + 1 \in 1..MaxDown /\ ssent + 1 \in 0..MaxDown
  BY ConstAssumption DEF Waiting
<1>2. PICK q : q = Append(srv, ssent + 1)
  OBVIOUS
<1>3. q \in Seq(1..MaxDown) /\ Appended(q, srv, ssent + 1)
  BY <1>1, <1>2, QueueAppend DEF Waiting
<1>4. Len(srv) \in Nat /\ Taking = ssent - Len(srv) /\ Len(srv) <= ssent
  BY DEF Waiting, Queued, Taking
<1>5. Taking' = Taking
  <2>1. Taking' = (ssent + 1) - Len(q)
    BY <1>2 DEF Taking
  <2> QED
    BY <1>1, <1>3, <1>4, <2>1 DEF Appended
<1>6. Len(q) <= ssent + 1 /\ \A i \in 1..Len(q) : q[i] = Taking + i
  <2>1. Len(q) = Len(srv) + 1 /\ q[Len(srv) + 1] = ssent + 1
        /\ \A i \in 1..Len(srv) : q[i] = Taking + i
    BY <1>3 DEF Waiting, Queued, Appended
  <2> QED
    BY <1>1, <1>4, <2>1
<1>7. Queued'
  BY <1>2, <1>5, <1>6 DEF Queued
<1> QED
  BY <1>1, <1>2, <1>3, <1>5, <1>7 DEF Waiting

\* A step of the server adds to its socket's queue or ends it; a reset drops the queue.
LEMMA ServerSteps ==
  ASSUME Inv, Server
  PROVE  Inv'
<1>1. Numeric
  BY InvNumeric
<1>2. ASSUME UNCHANGED <<sessionVars, pipe, tun, clientVars>>, Taking' = Taking,
             sst' # "reset" => sst # "reset",
             srv' \in Seq(1..MaxDown), ssent' \in 0..MaxDown, sst' \in {"open", "eof", "reset"},
             Queued'
      PROVE  Inv'
  <2>1. UNCHANGED <<pc, state, rnxt, snxt, rev, cbuf, eagain, fwd, acked,
                    cst, csent, cuna, crcv>>
        /\ Opening' = Opening /\ Looping' = Looping /\ Broken' = Broken /\ SentBytes' = SentBytes
        /\ Streaming' = Streaming /\ Hand' = Hand /\ UNCHANGED <<pipe, tun>>
    BY <1>2 DEF sessionVars, clientVars, Opening, Looping, Broken, Streaming, Hand, SentBytes
  <2>2. TypeOK'
    BY <1>2, <2>1 DEF Inv, TypeOK
  <2>3. SegInv'
    <3>1. GoodUp \subseteq GoodUp'
      BY <2>1, GoodUpStays
    <3>2. GoodDown \subseteq GoodDown'
      BY <1>1, <1>2, <2>1, GoodDownStays DEF Numeric
    <3> QED
      BY <2>1, <3>1, <3>2, QueueWider DEF Inv, SegInv
  <2>4. ClientInv' /\ PhaseInv' /\ StreamInv'
    BY <2>1 DEF Inv, ClientInv, PhaseInv, StreamInv
  <2>5. ForwardInv'
    <3>1. NoneDropped' => NoneDropped
      BY <1>2, <2>1 DEF NoneDropped
    <3> QED
      BY <1>2, <2>1, <3>1 DEF Inv, ForwardInv, FinAfterData, Counts
  <2>6. DownInv'
    BY <1>2, <2>1 DEF Inv, DownInv
  <2> QED
    BY <2>2, <2>3, <2>4, <2>5, <2>6 DEF Inv
<1>3. srv \in Seq(1..MaxDown) /\ sst \in {"open", "eof", "reset"}
  BY DEF Inv, TypeOK
<1>4. CASE ServerSend
  <2>1. /\ sst = "open" /\ ssent < MaxDown /\ ssent' = ssent + 1
        /\ srv' = Append(srv, ssent + 1) /\ UNCHANGED <<sessionVars, pipe, tun, clientVars, sst>>
    BY <1>4 DEF ServerSend
  <2>2. Waiting' /\ Taking' = Taking
    BY <2>1, InvWaiting, Arrives
  <2> QED
    BY <1>2, <1>3, <2>1, <2>2 DEF Waiting
<1>5. ASSUME NEW how \in {"eof", "reset"}, ServerEnds(how) PROVE Inv'
  <2>1. sst # "reset" /\ sst' = how
        /\ UNCHANGED <<sessionVars, pipe, tun, clientVars, ssent, srv>>
    BY <1>5 DEF ServerEnds
  <2>2. Taking' = Taking /\ Queued'
    BY <2>1 DEF Taking, Queued, Inv, DownInv
  <2> QED
    BY <1>1, <1>2, <1>3, <2>1, <2>2 DEF Numeric
<1> QED
  BY <1>4, <1>5 DEF Server

\* The invariant holds for both kinds of first packet.
LEMMA InvInit ==
  ASSUME Init PROVE Inv
<1>1. /\ pc = "first" /\ state = "LISTEN" /\ rnxt = 0 /\ snxt = 0 /\ cbuf = <<>>
      /\ eagain = FALSE /\ tun = <<>> /\ fwd = <<>> /\ acked = 0 /\ crcv = 0
      /\ rev = [client |-> "none", server |-> "none"]
      /\ sst = "open" /\ ssent = 0 /\ srv = <<>>
  BY DEF Init
<1>2. \/ cst = "syn_sent" /\ csent = 1 /\ cuna = 0 /\ pipe = <<Up("syn", 0, 0)>>
      \/ cst = "estab" /\ csent = 2 /\ cuna = 1 /\ pipe = <<Up("psh", 1, 1)>>
      \/ cst = "aborted" /\ csent = 1 /\ cuna = 1 /\ pipe = <<Up("rstack", 1, 0)>>
  BY DEF Init
<1>3. Len(<<>>) = 0 /\ \A S : <<>> \in Seq(S)
  BY EmptySeq
<1>4. \E seg \in GoodUp :
         /\ pipe = <<seg>>
         /\ seg.kind = "syn" => seg.seq = 0 /\ cst \in {"syn_sent", "gone"}
  BY <1>1, <1>2, ConstAssumption DEF Up, GoodUp, UpSegment
<1>5. PICK seg \in GoodUp :
         /\ pipe = <<seg>>
         /\ seg.kind = "syn" => seg.seq = 0 /\ cst \in {"syn_sent", "gone"}
  BY <1>4
<1>6. pipe \in Seq(GoodUp) /\ Len(pipe) = 1 /\ pipe # <<>> /\ Head(pipe) = seg
  BY <1>5
<1>7. TypeOK
  <2>1. cst \in ClientState /\ csent \in Nat /\ cuna \in 0..csent
    BY <1>2 DEF ClientState
  <2>2. Len(pipe) <= PipeCap /\ Len(tun) <= TunCap
    BY <1>1, <1>3, <1>6, ConstAssumption
  <2>3. crcv \in 0..MaxDown /\ ssent \in 0..MaxDown
    BY <1>1, ConstAssumption
  <2> QED
    BY <1>1, <1>3, <2>1, <2>2, <2>3 DEF TypeOK
<1>8. SegInv
  BY <1>1, <1>3, <1>6 DEF SegInv
<1>9. ClientInv
  BY <1>1, <1>2, ConstAssumption DEF ClientInv, SentBytes
<1>10. PhaseInv
  BY <1>1, <1>5, <1>6 DEF PhaseInv
<1>11. StreamInv
  BY <1>1 DEF StreamInv, Streaming
<1>12. ForwardInv
  BY <1>1, CountsNothing DEF ForwardInv, FinAfterData, Streaming
<1>13. DownInv
  <2>1. ssent = 0 /\ Len(srv) = 0
    BY <1>1
  <2>2. Taking = 0 /\ Len(srv) = 0
    BY <2>1 DEF Taking
  <2> QED
    BY <1>1, <2>2 DEF DownInv, Queued, Looping
<1> QED
  BY <1>7, <1>8, <1>9, <1>10, <1>11, <1>12, <1>13 DEF Inv

-----------------------------------------------------------------------------
(* The session: what its steps have in common.                             *)

After == {"close", "fin1", "fin2", "last", "over"}
States == {"LISTEN", "SYN_RECEIVED", "ESTABLISHED", "CLOSE_WAIT", "FIN_WAIT_1",
           "FIN_WAIT_2", "LAST_ACK", "TIME_WAIT", "CLOSED"}

\* A step leaves the two ends alone but for what it reads, and a closed session
\* stays closed.
SessionFrame ==
    /\ UNCHANGED <<clientVars, sst, ssent>>
    /\ pipe' = pipe \/ (pipe # <<>> /\ pipe' = Tail(pipe))
    /\ state = "CLOSED" => state' = "CLOSED"
    /\ UNCHANGED srv \/ (srv' \in Seq(1..MaxDown) /\ Queued' /\ Taking' \in Taking..MaxDown)

\* What it writes to the TUN device, if anything, is good.
Writes == SendNothing \/ \E seg \in GoodDown' : Send(seg)

\* What a step of the session keeps of its two ends and of the segments on their way.
LEMMA SessionFrames ==
  ASSUME Inv, SessionFrame
  PROVE  /\ UNCHANGED <<cst, csent, cuna, crcv, sst, ssent>> /\ SentBytes' = SentBytes
         /\ Taking' \in Taking..MaxDown /\ Queued' /\ srv' \in Seq(1..MaxDown)
         /\ crcv' <= Taking' /\ ClientInv'
         /\ pipe' \in Seq(GoodUp') /\ Len(pipe') <= PipeCap /\ Len(pipe') \in Nat
         /\ GoodDown \subseteq GoodDown' /\ tun \in Seq(GoodDown')
<1>1. Numeric
  BY InvNumeric
<1>2. UNCHANGED <<cst, csent, cuna, crcv, sst, ssent>> /\ SentBytes' = SentBytes
  BY DEF SessionFrame, clientVars, SentBytes
<1>3. Taking' \in Taking..MaxDown /\ Queued' /\ srv' \in Seq(1..MaxDown)
  <2>1. CASE UNCHANGED srv
    <3>1. Taking' = Taking
      BY <1>2, <2>1 DEF Taking
    <3>2. Taking \in Taking..MaxDown
      BY <1>1, ConstAssumption DEF Numeric
    <3> QED
      BY <1>2, <2>1, <3>1, <3>2 DEF Inv, DownInv, Queued, TypeOK
  <2> QED
    BY <2>1 DEF SessionFrame
<1>4. PICK t \in Taking..MaxDown : t = Taking'
  BY <1>3
<1>5. crcv <= t /\ Taking <= t /\ t \in Int /\ Taking \in Int
  BY <1>1, <1>4, ConstAssumption DEF Numeric
<1>6. crcv' <= Taking'
  BY <1>2, <1>4, <1>5
<1>7. ClientInv'
  BY <1>2 DEF Inv, ClientInv, SessionFrame
<1>8. GoodUp \subseteq GoodUp'
  BY <1>2, GoodUpStays
<1>9. pipe \in Seq(GoodUp) /\ pipe \in Seq(GoodUp') /\ Len(pipe) <= PipeCap /\ Len(pipe) \in Nat
  BY <1>8, QueueWider DEF Inv, SegInv, TypeOK
<1>10. pipe' \in Seq(GoodUp') /\ Len(pipe') <= PipeCap /\ Len(pipe') \in Nat
  <2>1. CASE pipe # <<>> /\ pipe' = Tail(pipe)
    <3>1. /\ Tail(pipe) \in Seq(GoodUp') /\ Len(Tail(pipe)) = Len(pipe) - 1
          /\ Len(pipe) \in Nat \ {0}
      BY <1>9, <2>1, QueueTail DEF Tailed
    <3> QED
      BY <1>9, <2>1, <3>1, ConstAssumption
  <2> QED
    BY <1>9, <2>1 DEF SessionFrame
<1>11. GoodDown \subseteq GoodDown'
  <2>1. state = "CLOSED" => state' = "CLOSED"
    BY DEF SessionFrame
  <2>2. Taking \in Int /\ Taking' \in Int /\ Taking <= Taking'
    BY <1>4, <1>5
  <2> QED
    BY <2>1, <2>2, GoodDownStays
<1>12. tun \in Seq(GoodDown')
  BY <1>11, QueueWider DEF Inv, SegInv
<1> QED
  BY <1>2, <1>3, <1>6, <1>7, <1>10, <1>11, <1>12

\* What a step of the session leaves in the TUN device, room or not.
LEMMA SessionWrites ==
  ASSUME Inv, SessionFrame, Writes
  PROVE  /\ tun' \in Seq(GoodDown') /\ Len(tun') <= TunCap
         /\ eagain' \in BOOLEAN /\ (eagain => eagain') /\ acked' \in Nat
<1>1. tun \in Seq(GoodDown')
  BY SessionFrames
<1>2. Len(tun) <= TunCap /\ eagain \in BOOLEAN /\ acked \in Nat /\ TunCap \in Nat
  BY ConstAssumption DEF Inv, TypeOK
<1>3. ASSUME NEW seg \in GoodDown', Send(seg)
      PROVE  /\ tun' \in Seq(GoodDown') /\ Len(tun') <= TunCap
             /\ eagain' \in BOOLEAN /\ (eagain => eagain') /\ acked' \in Nat
  <2>1. seg.ack \in Nat
    BY DEF GoodDown, DownSegment
  <2> QED
    BY <1>1, <1>2, <1>3, <2>1, SendSends
<1>4. CASE SendNothing
  BY <1>1, <1>2, <1>4 DEF SendNothing
<1> QED
  BY <1>3, <1>4 DEF Writes

\* With the types of what a step assigns, four parts of the invariant.
LEMMA SessionSteps ==
  ASSUME Inv, SessionFrame, Writes,
         pc' \in {"dial", "shake", "poll", "relay"} \cup After, state' \in States,
         rnxt' \in Nat, snxt' \in Nat,
         rev' \in [client : {"none", "in", "hup", "err"}, server : {"none", "in", "err"}],
         cbuf' \in Seq(1..MaxUp), fwd' \in Seq(1..MaxUp),
         Opening' => snxt' = 0 /\ Taking' = 0,
         Looping' => snxt' = Taking' + 1
  PROVE  TypeOK' /\ SegInv' /\ ClientInv' /\ DownInv'
<1>1. /\ UNCHANGED <<cst, csent, cuna, crcv, sst, ssent>>
      /\ Queued' /\ srv' \in Seq(1..MaxDown) /\ crcv' <= Taking' /\ ClientInv'
      /\ pipe' \in Seq(GoodUp') /\ Len(pipe') <= PipeCap
  BY SessionFrames
<1>2. /\ tun' \in Seq(GoodDown') /\ Len(tun') <= TunCap
      /\ eagain' \in BOOLEAN /\ acked' \in Nat
  BY SessionWrites
<1>3. TypeOK'
  BY <1>1, <1>2 DEF Inv, TypeOK, After, States
<1>4. SegInv'
  BY <1>1, <1>2 DEF SegInv
<1>5. DownInv'
  BY <1>1 DEF DownInv
<1> QED
  BY <1>1, <1>3, <1>4, <1>5

\* A step that leaves the loop, or ends the session before it or after.
LEMMA EndingSteps ==
  ASSUME Inv, SessionFrame, Writes,
         pc' \in After, state' \in States, rnxt' \in Nat, snxt' \in Nat,
         pc' \in {"fin1", "fin2", "last"} => state' # "CLOSED",
         UNCHANGED <<rev, cbuf>>,
         fwd' \in Seq(1..MaxUp), Ascending(fwd'), ~eagain => Whole(fwd'),
         state' = "CLOSE_WAIT" => state = "CLOSE_WAIT" /\ fwd' = fwd /\ pc' = "close"
  PROVE  Inv'
<1>1. ~Opening' /\ ~Looping' /\ ~Streaming' /\ Broken' = Broken
  BY DEF After, Opening, Looping, Streaming, Broken
<1>2. TypeOK' /\ SegInv' /\ ClientInv' /\ DownInv'
  <2>1. rev \in [client : {"none", "in", "hup", "err"}, server : {"none", "in", "err"}]
        /\ cbuf \in Seq(1..MaxUp)
    BY DEF Inv, TypeOK
  <2> QED
    BY <1>1, <2>1, SessionSteps
<1>3. UNCHANGED <<cst, csent, sst>> /\ SentBytes' = SentBytes /\ (eagain => eagain')
      /\ eagain \in BOOLEAN /\ eagain' \in BOOLEAN
  BY SessionFrames, SessionWrites DEF Inv, TypeOK
<1>4. PhaseInv'
  BY <1>1, <1>3 DEF Inv, PhaseInv, After
<1>5. StreamInv'
  BY <1>1 DEF StreamInv
<1>6. FinAfterData'
  BY <1>3 DEF FinAfterData, Inv, ForwardInv
<1>7. Ascending(fwd)' /\ (~eagain' => Whole(fwd)')
  BY <1>3
<1>8. ForwardInv'
  BY <1>1, <1>6, <1>7 DEF ForwardInv
<1> QED
  BY <1>2, <1>4, <1>5, <1>8 DEF Inv

-----------------------------------------------------------------------------
(* The handshake and the end.                                              *)

\* A segment without bytes.
LEMMA DownIsGood ==
  ASSUME NEW kind \in {"synack", "ack", "fin", "rst"}, NEW seq \in Nat, NEW ack \in Nat,
         kind = "rst" => state' = "CLOSED"
  PROVE  Down(kind, seq, <<>>, ack) \in GoodDown'
<1>1. <<>> \in Seq(1..MaxDown)
  OBVIOUS
<1> QED
  BY <1>1 DEF Down, GoodDown, DownSegment

\* A reset writes nothing or a RST of a closed session.
LEMMA ResetWrites ==
  ASSUME NEW closed \in BOOLEAN, NEW p \in UpSegment, Reset(closed, p), state' = "CLOSED"
  PROVE  Writes
<1>1. p.ack \in Nat
  BY DEF UpSegment
<1>2. Down("rst", p.ack, <<>>, 0) \in GoodDown'
  BY <1>1, DownIsGood
<1> QED
  BY <1>2 DEF Reset, Writes

\* The packet that is read is a good one, the first of the pipe.
LEMMA PacketIs ==
  ASSUME Inv, Read
  PROVE  /\ Packet \in GoodUp /\ Packet \in UpSegment
         /\ Packet.seq \in Nat /\ Packet.len \in Nat /\ Packet.ack \in Nat
         /\ pipe # <<>> /\ pipe' = Tail(pipe)
<1>1. pipe # <<>> /\ pipe' = Tail(pipe)
  BY DEF Read
<1>2. Packet \in GoodUp
  BY <1>1, QueueTail DEF Packet, Inv, SegInv
<1> QED
  BY <1>1, <1>2 DEF GoodUp, UpSegment

\* The bytes that were handed over and are.
Forwards ==
    /\ fwd \in Seq(1..MaxUp) /\ Ascending(fwd) /\ (~eagain => Whole(fwd))
    /\ cbuf \in Seq(1..MaxUp)
    /\ rev \in [client : {"none", "in", "hup", "err"}, server : {"none", "in", "err"}]

\* The invariant says so.
LEMMA InvForwards ==
  ASSUME Inv PROVE Forwards
BY DEF Inv, TypeOK, ForwardInv, Forwards

\* Reading the first packet keeps the invariant.
LEMMA Opens ==
  ASSUME Inv, ReadFirst
  PROVE  Inv'
<1>1. Numeric /\ Forwards
  BY InvNumeric, InvForwards
<1>2. /\ Packet \in UpSegment /\ Packet.seq \in Nat /\ pipe # <<>> /\ pipe' = Tail(pipe)
  BY PacketIs DEF ReadFirst
<1>3. /\ pc = "first" /\ rnxt' = Packet.seq + 1
      /\ UNCHANGED <<snxt, rev, cbuf, fwd, clientVars, serverVars, srv, sst, ssent>>
  BY DEF ReadFirst, serverVars
<1>4. /\ state = "LISTEN" /\ tun = <<>> /\ snxt = 0 /\ Taking = 0 /\ fwd = <<>>
      /\ Packet.kind = "syn" =>
            Len(pipe) = 1 /\ Packet.seq = 0 /\ cst \in {"syn_sent", "gone"}
  BY <1>3 DEF Inv, PhaseInv, DownInv, ForwardInv, Opening, Packet
<1>5. rnxt' \in Nat /\ snxt' \in Nat
  <2>1. Packet.seq + 1 \in Nat
    BY <1>2
  <2> QED
    BY <1>1, <1>3, <2>1 DEF Numeric
<1>6. Taking' = Taking
  BY <1>3 DEF Taking
<1>7. CASE Packet.kind = "syn" /\ state' = "SYN_RECEIVED" /\ pc' = "dial" /\ SendNothing
  <2>1. SessionFrame
    BY <1>2, <1>3, <1>4, <1>7 DEF SessionFrame
  <2>2. Writes
    BY <1>7 DEF Writes
  <2>3. Opening' /\ ~Looping'
    BY <1>7 DEF Opening, Looping
  <2>4. TypeOK' /\ SegInv' /\ ClientInv' /\ DownInv'
    BY <1>1, <1>3, <1>4, <1>5, <1>6, <1>7, <2>1, <2>2, <2>3, SessionSteps
       DEF Forwards, After, States
  <2>5. pipe' = <<>>
    BY <1>1, <1>2, <1>4, <1>7, QueueTail DEF Numeric
  <2>6. UNCHANGED <<tun, acked, eagain, cst, csent>> /\ rnxt' = 1
    <3>1. Packet.seq + 1 = 1
      BY <1>4, <1>7
    <3> QED
      BY <1>3, <1>7, <3>1 DEF SendNothing, clientVars
  <2>7. PhaseInv'
    BY <1>4, <1>7, <2>5, <2>6 DEF PhaseInv
  <2>8. StreamInv'
    <3>1. SentBytes + 1 = 1 /\ 1 \in Number
      BY <1>4, <1>7, ConstAssumption DEF Inv, ClientInv, SentBytes, Number
    <3>2. Stream(<<>>, 1, 1)
      BY <3>1, StreamEmpty
    <3>3. SentBytes' = SentBytes
      BY <2>6 DEF SentBytes
    <3> QED
      BY <2>5, <2>6, <3>1, <3>2, <3>3 DEF StreamInv
  <2>9. ForwardInv'
    <3>1. acked <= 1
      BY <1>3 DEF Inv, ForwardInv, Opening
    <3>2. /\ fwd' = <<>> /\ Hand' = <<>> /\ rnxt' = 1 /\ acked' <= 1
          /\ state' # "CLOSE_WAIT"
      BY <1>3, <1>4, <1>7, <2>6, <3>1 DEF Hand
    <3> QED
      BY <3>2, CountsNothing DEF ForwardInv, FinAfterData
  <2> QED
    BY <2>4, <2>7, <2>8, <2>9 DEF Inv
<1>8. CASE Packet.kind # "syn" /\ state' = "CLOSED" /\ pc' = "over" /\ Reset(TRUE, Packet)
  <2>1. SessionFrame
    BY <1>2, <1>3, <1>4, <1>8 DEF SessionFrame
  <2>2. Writes
    BY <1>2, <1>8, ResetWrites
  <2> QED
    BY <1>1, <1>3, <1>5, <1>8, <2>1, <2>2, EndingSteps DEF Forwards, After, States
<1> QED
  BY <1>7, <1>8 DEF ReadFirst

\* Dialling the server, and answering SYN|ACK or RST, keeps the invariant.
LEMMA Dials ==
  ASSUME Inv, Dial
  PROVE  Inv'
<1>1. Numeric /\ Forwards
  BY InvNumeric, InvForwards
<1>2. /\ pc = "dial"
      /\ UNCHANGED <<rnxt, snxt, rev, cbuf, fwd, pipe, clientVars, serverVars,
                     srv, sst, ssent, cst, csent>>
  BY DEF Dial, serverVars, clientVars
<1>3. /\ state = "SYN_RECEIVED" /\ tun = <<>> /\ pipe = <<>> /\ rnxt = 1
      /\ cst \in {"syn_sent", "gone"} /\ snxt = 0 /\ Taking = 0 /\ fwd = <<>> /\ acked <= 1
      /\ Stream(pipe, rnxt, SentBytes + 1)
  BY <1>2 DEF Inv, PhaseInv, DownInv, ForwardInv, Opening, Streaming, StreamInv
<1>4. Taking' = Taking /\ SentBytes' = SentBytes
  BY <1>2 DEF Taking, SentBytes
<1>5. CASE Send(Down("synack", snxt, <<>>, rnxt)) /\ pc' = "shake" /\ UNCHANGED state
  <2>1. SessionFrame
    BY <1>2, <1>3, <1>5 DEF SessionFrame
  <2>2. Writes
    BY <1>1, <1>5, DownIsGood DEF Writes, Numeric
  <2>3. Opening' /\ ~Looping'
    BY <1>5 DEF Opening, Looping
  <2>4. TypeOK' /\ SegInv' /\ ClientInv' /\ DownInv'
    BY <1>1, <1>2, <1>3, <1>4, <1>5, <2>1, <2>2, <2>3, SessionSteps
       DEF Forwards, Numeric, After, States
  <2>5. acked' <= 1
    BY <1>2, <1>3, <1>5 DEF Send, Down
  <2>6. PhaseInv'
    BY <1>2, <1>3, <1>5 DEF PhaseInv
  <2>7. StreamInv'
    BY <1>2, <1>3, <1>4 DEF StreamInv
  <2>8. ForwardInv'
    <3>1. /\ fwd' = <<>> /\ Hand' = <<>> /\ rnxt' = 1 /\ acked' <= 1
          /\ state' # "CLOSE_WAIT"
      BY <1>2, <1>3, <1>5, <2>5 DEF Hand
    <3> QED
      BY <3>1, CountsNothing DEF ForwardInv, FinAfterData
  <2> QED
    BY <2>4, <2>6, <2>7, <2>8 DEF Inv
<1>6. CASE Send(Down("rst", 0, <<>>, 0)) /\ state' = "CLOSED" /\ pc' = "over"
  <2>1. SessionFrame
    BY <1>2, <1>3, <1>6 DEF SessionFrame
  <2>2. Writes
    BY <1>1, <1>6, DownIsGood DEF Writes
  <2> QED
    BY <1>1, <1>2, <1>6, <2>1, <2>2, EndingSteps DEF Forwards, After, States, Numeric
<1> QED
  BY <1>5, <1>6 DEF Dial

\* The end of the handshake keeps the invariant.
LEMMA Shakes ==
  ASSUME Inv, Shake
  PROVE  Inv'
<1>1. Numeric /\ Forwards
  BY InvNumeric, InvForwards
<1>2. /\ Packet \in UpSegment /\ pipe # <<>> /\ pipe' = Tail(pipe)
  BY PacketIs DEF Shake
<1>3. /\ pc = "shake"
      /\ UNCHANGED <<rnxt, rev, cbuf, fwd, clientVars, serverVars, srv, sst, ssent, cst, csent>>
  BY DEF Shake, serverVars, clientVars
<1>4. /\ state = "SYN_RECEIVED" /\ Packet.len = 0
      /\ snxt = 0 /\ Taking = 0 /\ fwd = <<>> /\ acked <= 1 /\ rnxt = 1
      /\ Stream(pipe, rnxt, SentBytes + 1)
  BY <1>2, <1>3
     DEF Inv, PhaseInv, DownInv, ForwardInv, Opening, Streaming, StreamInv, Packet
<1>5. Taking' = Taking /\ SentBytes' = SentBytes
  BY <1>3 DEF Taking, SentBytes
<1>6. CASE /\ Packet.kind \in {"ack", "rst"} /\ snxt' = snxt + 1
           /\ state' = "ESTABLISHED" /\ pc' = "poll" /\ SendNothing
  <2>1. SessionFrame
    BY <1>2, <1>3, <1>4, <1>6 DEF SessionFrame
  <2>2. Writes
    BY <1>6 DEF Writes
  <2>3. ~Opening' /\ Looping'
    BY <1>6 DEF Opening, Looping
  <2>4. TypeOK' /\ SegInv' /\ ClientInv' /\ DownInv'
    <3>1. snxt' = 1 /\ Taking' + 1 = 1 /\ 1 \in Nat
      BY <1>4, <1>5, <1>6
    <3> QED
      BY <1>1, <1>3, <1>4, <1>5, <1>6, <2>1, <2>2, <2>3, <3>1, SessionSteps
         DEF Forwards, Numeric, After, States
  <2>5. PhaseInv'
    BY <1>3, <1>4, <1>6 DEF PhaseInv
  <2>6. StreamInv'
    <3>1. PICK to \in Number : Follows(Packet, rnxt, to, SentBytes + 1)
                               /\ Stream(pipe', to, SentBytes + 1)
      BY <1>1, <1>2, <1>4, StreamTail DEF Numeric, Packet
    <3>2. to = rnxt
      BY <1>4, <3>1 DEF Follows
    <3> QED
      BY <1>3, <1>5, <3>1, <3>2 DEF StreamInv
  <2>7. ForwardInv'
    <3>1. acked' <= 1
      BY <1>4, <1>6 DEF SendNothing
    <3>2. /\ fwd' = <<>> /\ Hand' = <<>> /\ rnxt' = 1 /\ acked' <= 1
          /\ state' # "CLOSE_WAIT"
      BY <1>3, <1>4, <1>6, <3>1 DEF Hand
    <3> QED
      BY <3>2, CountsNothing DEF ForwardInv, FinAfterData
  <2> QED
    BY <2>4, <2>5, <2>6, <2>7 DEF Inv
<1>7. CASE /\ Packet.kind \notin {"ack", "rst"} /\ state' = "CLOSED" /\ pc' = "over"
           /\ Reset(TRUE, Packet) /\ UNCHANGED snxt
  <2>1. SessionFrame
    BY <1>2, <1>3, <1>4, <1>7 DEF SessionFrame
  <2>2. Writes
    BY <1>2, <1>7, ResetWrites
  <2> QED
    BY <1>1, <1>3, <1>7, <2>1, <2>2, EndingSteps DEF Forwards, After, States, Numeric
<1> QED
  BY <1>6, <1>7 DEF Shake

\* The FIN, and the packets that are read after it, keep the invariant.
LEMMA Closes ==
  ASSUME Inv, \/ CloseFin("ESTABLISHED", "FIN_WAIT_1", "fin1")
              \/ CloseFin("CLOSE_WAIT", "LAST_ACK", "last")
              \/ CloseNothing \/ FinWait1 \/ FinWait2 \/ LastAck
  PROVE  Inv'
<1>1. Numeric /\ Forwards
  BY InvNumeric, InvForwards
<1>2. ASSUME NEW to \in {"FIN_WAIT_1", "LAST_ACK"}, NEW next \in {"fin1", "last"},
             pc = "close", state \in {"ESTABLISHED", "CLOSE_WAIT"},
             Send(Down("fin", snxt, <<>>, rnxt)), state' = to, pc' = next,
             UNCHANGED <<rnxt, snxt, rev, cbuf, fwd, pipe, clientVars, serverVars>>
      PROVE  Inv'
  <2>1. SessionFrame /\ Taking' = Taking
    BY <1>2 DEF SessionFrame, serverVars, Taking
  <2>2. Writes
    <3>1. Down("fin", snxt, <<>>, rnxt) \in GoodDown'
      BY <1>1, DownIsGood DEF Numeric
    <3> QED
      BY <1>2, <3>1 DEF Writes
  <2> QED
    BY <1>1, <1>2, <2>1, <2>2, EndingSteps DEF Forwards, After, States, Numeric
<1>3. CASE CloseNothing
  <2>1. /\ pc = "close" /\ state # "CLOSE_WAIT" /\ pc' = "over" /\ SendNothing
        /\ UNCHANGED <<state, rnxt, snxt, rev, cbuf, fwd, pipe, clientVars, serverVars>>
    BY <1>3 DEF CloseNothing, SendNothing
  <2>2. SessionFrame /\ Writes
    BY <2>1 DEF SessionFrame, serverVars, Writes
  <2>3. state \in States
    BY DEF Inv, TypeOK, States
  <2> QED
    BY <1>1, <2>1, <2>2, <2>3, EndingSteps DEF Forwards, After, Numeric
<1>4. ASSUME pc \in {"fin1", "fin2", "last"}, pc' \in {"fin2", "over"},
             state' \in {"FIN_WAIT_2", "TIME_WAIT", "CLOSED"},
             state = "CLOSED" => state' = "CLOSED",
             pc' = "fin2" => state' # "CLOSED", Read, rnxt' \in Nat, snxt' \in Nat, Writes,
             UNCHANGED <<rev, cbuf, fwd, clientVars, serverVars>>
      PROVE  Inv'
  <2>1. SessionFrame
    BY <1>4, PacketIs DEF SessionFrame, serverVars
  <2> QED
    BY <1>1, <1>4, <2>1, EndingSteps DEF Forwards, After, States
<1>5. ASSUME Finish(Packet), Read
      PROVE  /\ rnxt' \in Nat /\ snxt' \in Nat /\ state' = "TIME_WAIT" /\ pc' = "over" /\ Writes
  <2>1. Packet.seq \in Nat /\ Packet.ack \in Nat
    BY <1>5, PacketIs
  <2>2. Packet.seq + 1 \in Nat /\ rnxt + 1 \in Nat /\ snxt + 1 \in Nat
    BY <1>1, <2>1 DEF Numeric
  <2>3. rnxt' \in Nat /\ snxt' \in Nat
    BY <1>5, <2>1, <2>2 DEF Finish
  <2>4. Down("ack", snxt', <<>>, rnxt') \in GoodDown'
    BY <2>3, DownIsGood
  <2> QED
    BY <1>5, <2>3, <2>4 DEF Finish, Writes
<1>6. state # "CLOSED" \/ pc \notin {"fin1", "fin2", "last"}
  BY DEF Inv, PhaseInv
<1>7. CASE FinWait1
  <2>1. pc = "fin1" /\ Read /\ UNCHANGED <<rev, cbuf, fwd, clientVars, serverVars>>
    BY <1>7 DEF FinWait1
  <2>2. CASE Packet.kind # "ack" /\ Finish(Packet)
    BY <1>4, <1>5, <1>6, <2>1, <2>2
  <2>3. CASE /\ state' = "FIN_WAIT_2" /\ pc' = "fin2" /\ SendNothing /\ UNCHANGED <<rnxt, snxt>>
    <3>1. Writes
      BY <2>3 DEF Writes
    <3> QED
      BY <1>1, <1>4, <1>6, <2>1, <2>3, <3>1 DEF Numeric
  <2> QED
    BY <1>7, <2>2, <2>3 DEF FinWait1
<1>8. CASE FinWait2
  BY <1>4, <1>5, <1>6, <1>8 DEF FinWait2
<1>9. CASE LastAck
  <2>1. /\ pc = "last" /\ Read /\ UNCHANGED <<rev, cbuf, fwd, clientVars, serverVars>>
        /\ state' = "CLOSED" /\ pc' = "over" /\ SendNothing /\ UNCHANGED <<rnxt, snxt>>
    BY <1>9 DEF LastAck
  <2>2. Writes
    BY <2>1 DEF Writes
  <2> QED
    BY <1>1, <1>4, <2>1, <2>2 DEF Numeric
<1>10. CASE CloseFin("ESTABLISHED", "FIN_WAIT_1", "fin1")
  BY <1>2, <1>10 DEF CloseFin
<1>11. CASE CloseFin("CLOSE_WAIT", "LAST_ACK", "last")
  BY <1>2, <1>11 DEF CloseFin
<1> QED
  BY <1>3, <1>7, <1>8, <1>9, <1>10, <1>11

-----------------------------------------------------------------------------
(* The loop.                                                               *)

\* Leaving the loop for a tunnel that ends or a wait that times out keeps the invariant.
LEMMA Stops ==
  ASSUME Inv, Stop \/ PollTimeout
  PROVE  Inv'
<1>1. Numeric /\ Forwards
  BY InvNumeric, InvForwards
<1>2. /\ pc = "poll" /\ pc' = "close" /\ SendNothing
      /\ UNCHANGED <<state, rnxt, snxt, rev, cbuf, fwd, pipe, clientVars, serverVars>>
  BY DEF Stop, PollTimeout, SendNothing
<1>3. SessionFrame /\ Writes /\ Taking' = Taking
  BY <1>2 DEF SessionFrame, serverVars, Writes, Taking
<1>4. state \in States /\ snxt = Taking + 1
  BY <1>2 DEF Inv, TypeOK, States, DownInv, Looping
<1> QED
  BY <1>1, <1>2, <1>3, <1>4, EndingSteps DEF Forwards, After, Numeric

\* What is taken from the socket is the first of what is queued.
LEMMA Takes ==
  ASSUME Waiting, NEW n \in 1..Len(srv), TakeServer(n), UNCHANGED ssent
  PROVE  /\ Waiting' /\ srv' \in Seq(1..MaxDown) /\ Queued' /\ Taking' = Taking + n
         /\ Taking' \in Taking..MaxDown
         /\ Taken(n) \in Seq(1..MaxDown) /\ Len(Taken(n)) = n
         /\ \A j \in 1..n : Taken(n)[j] = Taking + j
<1>1. srv \in Seq(1..MaxDown) /\ Queued
  BY DEF Waiting
<1>2. PICK len : len = Len(srv)
  OBVIOUS
<1>3. len \in Nat /\ n \in 1..len /\ ssent \in 0..MaxDown /\ Taking = ssent - len /\ len <= ssent
      /\ Taking \in Nat /\ \A i \in 1..len : srv[i] = Taking + i /\ srv[i] \in 1..MaxDown
  <2>1. Len(srv) \in Nat /\ ssent \in 0..MaxDown /\ Taking = ssent - Len(srv)
        /\ Len(srv) <= ssent /\ Taking \in 0..MaxDown
    BY ConstAssumption DEF Waiting, Queued, Taking
  <2>2. \A i \in 1..Len(srv) : srv[i] = Taking + i /\ srv[i] \in 1..MaxDown
    <3>1. srv \in Seq(1..MaxDown)
      BY <1>1
    <3>2. \A i \in 1..Len(srv) : srv[i] \in 1..MaxDown
      BY <3>1, QueueElements
    <3> QED
      BY <1>1, <3>2 DEF Queued
  <2> QED
    BY <1>2, <2>1, <2>2, ConstAssumption
<1>4. PICK rest : rest = SubSeq(srv, n + 1, len)
  OBVIOUS
<1>5. /\ rest \in Seq(1..MaxDown) /\ Len(rest) = len - n
      /\ \A i \in 1..(len - n) : rest[i] = srv[n + 1 + i - 1]
  <2>1. n + 1 \in Int /\ len \in Int /\ \A i \in (n + 1)..len : srv[i] \in 1..MaxDown
    BY <1>3
  <2>2. /\ rest \in Seq(1..MaxDown) /\ Len(rest) = IF n + 1 <= len THEN len - (n + 1) + 1 ELSE 0
        /\ \A i \in 1..(len - (n + 1) + 1) : rest[i] = srv[n + 1 + i - 1]
    BY <1>4, <2>1, SubSeqProperties
  <2>3. len - (n + 1) + 1 = len - n /\ (n + 1 <= len \/ len - n = 0)
    BY <1>3
  <2> QED
    BY <2>2, <2>3
<1>6. /\ Taken(n) \in Seq(1..MaxDown) /\ Len(Taken(n)) = n
      /\ \A j \in 1..n : Taken(n)[j] = Taking + j
  <2>1. 1 \in Int /\ n \in Int /\ \A i \in 1..n : srv[i] \in 1..MaxDown
    BY <1>3
  <2>2. /\ Taken(n) \in Seq(1..MaxDown) /\ Len(Taken(n)) = IF 1 <= n THEN n - 1 + 1 ELSE 0
        /\ \A i \in 1..(n - 1 + 1) : Taken(n)[i] = srv[1 + i - 1]
    BY <2>1, SubSeqProperties DEF Taken
  <2>3. n - 1 + 1 = n /\ 1 <= n
    BY <1>3
  <2>4. ASSUME NEW i \in 1..n PROVE srv[1 + i - 1] = Taking + i
    <3>1. 1 + i - 1 = i /\ i \in 1..len
      BY <1>3
    <3> QED
      BY <1>3, <3>1
  <2> QED
    BY <2>2, <2>3, <2>4
<1>7. srv' = rest
  BY <1>2, <1>4 DEF TakeServer
<1>8. Taking' = Taking + n
  <2>1. Taking' = ssent - Len(rest)
    BY <1>7 DEF Taking
  <2> QED
    BY <1>3, <1>5, <2>1
<1>9. Queued'
  <2>1. Len(rest) <= ssent
    BY <1>3, <1>5
  <2>2. ASSUME NEW i \in 1..Len(rest) PROVE rest[i] = Taking + n + i
    <3>1. /\ n + 1 + i - 1 \in 1..len /\ i \in 1..(len - n)
          /\ Taking + (n + 1 + i - 1) = Taking + n + i
      BY <1>3, <1>5
    <3> QED
      BY <1>3, <1>5, <3>1
  <2> QED
    BY <1>7, <1>8, <2>1, <2>2 DEF Queued
<1>10. Taking + n \in Taking..MaxDown
  BY <1>3, ConstAssumption
<1>11. Waiting'
  BY <1>5, <1>7, <1>9 DEF Waiting
<1> QED
  BY <1>5, <1>6, <1>7, <1>8, <1>9, <1>10, <1>11

\* Bytes that follow what was handed over keep the order, and leave no hole if there
\* is none.
LEMMA Concatenates ==
  ASSUME NEW m \in Nat, NEW f \in Seq(1..m), NEW h \in Seq(1..m), NEW r \in Nat, NEW a,
         NEW whole, Counts(f, h, r, a, whole), Ascending(f)
  PROVE  /\ f \o h \in Seq(1..m) /\ Ascending(f \o h)
         /\ whole /\ Whole(f) => Whole(f \o h)
         /\ Counts(f \o h, <<>>, r, a, whole)
<1>1. PICK lf \in Nat, lh \in Nat : lf = Len(f) /\ lh = Len(h)
  OBVIOUS
<1>2. PICK g : g = f \o h
  OBVIOUS
<1>3. /\ g \in Seq(1..m) /\ Len(g) = lf + lh
      /\ \A i \in 1..(lf + lh) : g[i] = IF i <= lf THEN f[i] ELSE h[i - lf]
  BY <1>1, <1>2, ConcatProperties
<1>4. /\ r >= 1 /\ a <= r /\ \A i \in 1..lf : f[i] \in Nat /\ f[i] < r - lh
      /\ \A i \in 1..lh : h[i] = r - lh + i - 1
      /\ whole => lf = r - lh - 1
      /\ \A i \in 2..lf : f[i - 1] < f[i]
  BY <1>1 DEF Counts, Ascending
<1>5. ASSUME NEW i \in 1..lf PROVE g[i] = f[i] /\ g[i] < r - lh /\ g[i] < r
  BY <1>3, <1>4
<1>6. ASSUME NEW i \in (lf + 1)..(lf + lh) PROVE g[i] = r - lh + (i - lf) - 1 /\ g[i] < r
  <2>1. i - lf \in 1..lh /\ i \in 1..(lf + lh) /\ ~(i <= lf)
    OBVIOUS
  <2>2. g[i] = h[i - lf]
    BY <1>3, <2>1
  <2>3. h[i - lf] = r - lh + (i - lf) - 1
    BY <1>4, <2>1
  <2> QED
    BY <2>1, <2>2, <2>3
<1>7. Ascending(g)
  <2> SUFFICES ASSUME NEW i \in 2..(lf + lh) PROVE g[i - 1] < g[i]
    BY <1>3 DEF Ascending
  <2>1. CASE i <= lf
    <3>1. g[i - 1] = f[i - 1] /\ g[i] = f[i] /\ f[i - 1] < f[i]
      BY <1>4, <1>5, <2>1
    <3> QED
      BY <3>1
  <2>2. CASE i = lf + 1
    <3>1. g[i - 1] < r - lh /\ g[i] = r - lh + (i - lf) - 1 /\ i - lf = 1
          /\ g[i - 1] = f[i - 1] /\ f[i - 1] \in Nat
      BY <1>4, <1>5, <1>6, <2>2
    <3> QED
      BY <3>1
  <2>3. CASE i > lf + 1
    <3>1. g[i - 1] = r - lh + (i - 1 - lf) - 1 /\ g[i] = r - lh + (i - lf) - 1
      BY <1>6, <2>3
    <3> QED
      BY <3>1
  <2> QED
    BY <2>1, <2>2, <2>3
<1>8. ASSUME whole, Whole(f) PROVE Whole(g)
  <2> SUFFICES ASSUME NEW i \in 1..(lf + lh) PROVE g[i] = i
    BY <1>3 DEF Whole
  <2>1. CASE i <= lf
    BY <1>1, <1>5, <1>8, <2>1 DEF Whole
  <2>2. CASE i > lf
    <3>1. g[i] = r - lh + (i - lf) - 1 /\ lf = r - lh - 1
      BY <1>4, <1>6, <1>8, <2>2
    <3> QED
      BY <3>1
  <2> QED
    BY <2>1, <2>2
<1>9. Counts(g, <<>>, r, a, whole)
  <2>1. PICK e : e = <<>>
    OBVIOUS
  <2>2. Len(e) = 0
    BY <2>1
  <2>3. \A i \in 1..Len(g) : g[i] < r
    BY <1>3, <1>5, <1>6
  <2>4. whole => Len(g) = r - 1
    BY <1>3, <1>4
  <2>5. Counts(g, e, r, a, whole)
    BY <1>4, <2>2, <2>3, <2>4 DEF Counts
  <2> QED
    BY <2>1, <2>5
<1> QED
  BY <1>2, <1>3, <1>7, <1>8, <1>9

\* The same where nothing is handed over, be it that nothing is in hand or that the
\* server is gone.
LEMMA CountsWithout ==
  ASSUME NEW m \in Nat, NEW f \in Seq(1..m), NEW h \in Seq(1..m), NEW r \in Nat, NEW a,
         NEW whole, Counts(f, h, r, a, whole), h = <<>> \/ ~whole
  PROVE  Counts(f, <<>>, r, a, whole)
<1>1. PICK lh \in Nat : lh = Len(h)
  OBVIOUS
<1>2. PICK e : e = <<>>
  OBVIOUS
<1>3. Len(e) = 0 /\ (h = <<>> => lh = 0)
  BY <1>1, <1>2
<1>4. \A i \in 1..Len(f) : f[i] < r
  BY <1>1 DEF Counts
<1>5. Counts(f, e, r, a, whole)
  BY <1>1, <1>3, <1>4 DEF Counts
<1> QED
  BY <1>2, <1>5

\* Handing the bytes in hand to the server, or not, keeps order and count.
LEMMA Forward ==
  ASSUME Inv, pc = "relay", ForwardClient
  PROVE  /\ fwd' \in Seq(1..MaxUp) /\ Ascending(fwd') /\ (~eagain => Whole(fwd'))
         /\ state = "ESTABLISHED" => Counts(fwd', <<>>, rnxt, acked, NoneDropped)
<1>1. Forwards /\ Numeric /\ MaxUp \in Nat
  BY InvForwards, InvNumeric, ConstAssumption
<1>2. state = "ESTABLISHED" => Counts(fwd, Hand, rnxt, acked, NoneDropped)
  BY DEF Inv, ForwardInv, Streaming
<1>3. CASE rev.client = "in" /\ sst # "reset"
  <2>1. state = "ESTABLISHED" /\ Hand = cbuf /\ fwd' = fwd \o cbuf
    BY <1>3 DEF Inv, PhaseInv, Hand, ForwardClient
  <2>2. Counts(fwd, cbuf, rnxt, acked, NoneDropped)
    BY <1>2, <2>1
  <2>3. ~eagain => NoneDropped /\ Whole(fwd)
    BY <1>1, <1>3 DEF NoneDropped, Forwards
  <2>4. /\ fwd \o cbuf \in Seq(1..MaxUp) /\ Ascending(fwd \o cbuf)
        /\ NoneDropped /\ Whole(fwd) => Whole(fwd \o cbuf)
        /\ Counts(fwd \o cbuf, <<>>, rnxt, acked, NoneDropped)
    BY <1>1, <2>2, Concatenates DEF Forwards, Numeric
  <2> QED
    BY <2>1, <2>3, <2>4
<1>4. CASE ~(rev.client = "in" /\ sst # "reset")
  <2>1. fwd' = fwd
    BY <1>4 DEF ForwardClient
  <2>2. Hand \in Seq(1..MaxUp) /\ (Hand = <<>> \/ ~NoneDropped)
    <3>1. <<>> \in Seq(1..MaxUp) /\ cbuf \in Seq(1..MaxUp)
      BY <1>1 DEF Forwards
    <3>2. Hand = <<>> \/ (Hand = cbuf /\ rev.client = "in")
      BY DEF Hand
    <3> QED
      BY <1>4, <3>1, <3>2 DEF NoneDropped
  <2>3. state = "ESTABLISHED" => Counts(fwd, <<>>, rnxt, acked, NoneDropped)
    BY <1>1, <1>2, <2>2, CountsWithout DEF Forwards, Numeric
  <2> QED
    BY <1>1, <2>1, <2>3 DEF Forwards
<1> QED
  BY <1>3, <1>4

\* The second half of a turn keeps the invariant: it breaks the loop, ends it, or takes
\* from the server and goes on.
LEMMA Relays ==
  ASSUME Inv, RelayBreaks \/ RelayEnds \/ Relay
  PROVE  Inv'
<1>1. Numeric /\ Forwards
  BY InvNumeric, InvForwards
<1>2. pc = "relay" /\ snxt = Taking + 1 /\ state \in States
  BY DEF RelayBreaks, RelayEnds, Relay, Inv, DownInv, Looping, TypeOK, States
<1>3. CASE RelayBreaks
  <2>1. /\ rev.client \in {"err", "hup"} /\ pc' = "close" /\ SendNothing
        /\ UNCHANGED <<state, rnxt, snxt, rev, cbuf, fwd, pipe, clientVars, sst, ssent>>
        /\ UNCHANGED srv \/ TakeAndDrop
    BY <1>3 DEF RelayBreaks, SendNothing
  <2>2. UNCHANGED srv \/ (srv' \in Seq(1..MaxDown) /\ Queued' /\ Taking' \in Taking..MaxDown)
    BY <2>1, InvWaiting, Takes DEF TakeAndDrop
  <2>3. SessionFrame /\ Writes
    BY <1>2, <2>1, <2>2 DEF SessionFrame, Writes
  <2> QED
    BY <1>1, <1>2, <2>1, <2>3, EndingSteps DEF Forwards, After, Numeric
<1>4. CASE RelayEnds
  <2>1. /\ rev.client \notin {"err", "hup"} /\ ForwardClient /\ pc' = "close" /\ SendNothing
        /\ TakeAndDrop
        /\ UNCHANGED <<state, rnxt, snxt, rev, cbuf, pipe, clientVars, sst, ssent>>
    BY <1>4 DEF RelayEnds, SendNothing
  <2>2. UNCHANGED srv \/ (srv' \in Seq(1..MaxDown) /\ Queued' /\ Taking' \in Taking..MaxDown)
    BY <2>1, InvWaiting, Takes DEF TakeAndDrop
  <2>3. SessionFrame /\ Writes
    BY <1>2, <2>1, <2>2 DEF SessionFrame, Writes
  <2>4. state # "CLOSE_WAIT"
    BY <1>2, <2>1 DEF Inv, PhaseInv
  <2>5. fwd' \in Seq(1..MaxUp) /\ Ascending(fwd') /\ (~eagain => Whole(fwd'))
    BY <1>2, <2>1, Forward
  <2> QED
    BY <1>1, <1>2, <2>1, <2>3, <2>4, <2>5, EndingSteps DEF Forwards, After, Numeric
<1>5. CASE Relay
  <2>1. /\ rev.client \notin {"err", "hup"} /\ ForwardClient /\ pc' = "poll"
        /\ rev' = [client |-> "none", server |-> "none"]
        /\ UNCHANGED <<state, rnxt, cbuf, pipe, clientVars, sst, ssent>>
    BY <1>5 DEF Relay
  <2>2. /\ state = "ESTABLISHED" \/ (state = "CLOSED" /\ eagain)
    BY <1>2, <2>1 DEF Inv, PhaseInv
  <2>3. /\ fwd' \in Seq(1..MaxUp) /\ Ascending(fwd') /\ (~eagain => Whole(fwd'))
        /\ state = "ESTABLISHED" => Counts(fwd', <<>>, rnxt, acked, NoneDropped)
    BY <1>2, <2>1, Forward
  <2>4. /\ SessionFrame /\ Writes /\ snxt' \in Nat /\ snxt' = Taking' + 1
        /\ acked' = acked \/ acked' = rnxt
    <3>1. CASE SendNothing /\ UNCHANGED <<snxt, srv>>
      <4>1. Taking' = Taking
        BY <2>1, <3>1 DEF Taking
      <4> QED
        BY <1>1, <1>2, <2>1, <3>1, <4>1 DEF SessionFrame, Writes, SendNothing, Numeric
    <3>2. ASSUME NEW n \in 1..Len(srv), TakeServer(n),
                 Send(Down("data", snxt, Taken(n), rnxt)), Advance(n)
          PROVE  /\ SessionFrame /\ Writes /\ snxt' \in Nat /\ snxt' = Taking' + 1
                 /\ acked' = acked \/ acked' = rnxt
      <4> DEFINE seg == Down("data", snxt, Taken(n), rnxt)
      <4>1. /\ srv' \in Seq(1..MaxDown) /\ Queued' /\ Taking' = Taking + n
            /\ Taking' \in Taking..MaxDown
            /\ Taken(n) \in Seq(1..MaxDown) /\ Len(Taken(n)) = n
            /\ \A j \in 1..n : Taken(n)[j] = Taking + j
        BY <2>1, <3>2, InvWaiting, Takes
      <4>2. SessionFrame
        BY <1>2, <2>1, <4>1 DEF SessionFrame
      <4>3. n \in Nat /\ Taking \in Nat
        BY <1>1 DEF Numeric
      <4>4. snxt' = snxt + n /\ snxt + n = Taking + n + 1 /\ snxt + n \in Nat
        BY <1>1, <1>2, <3>2, <4>3 DEF Advance, Numeric
      <4>5. /\ seg.kind = "data" /\ seg.seq = snxt /\ seg.bytes = Taken(n) /\ seg.ack = rnxt
            /\ seg \in DownSegment
        BY <1>1, <4>1 DEF Down, DownSegment, Numeric
      <4>6. seg \in GoodDown'
        <5>1. snxt + n <= Taking + n + 1
          BY <4>3, <4>4
        <5>2. \A j \in 1..n : Taken(n)[j] = snxt + j - 1
          BY <1>2, <4>1, <4>3
        <5> HIDE DEF seg
        <5>3. Numbered(seg) /\ seg.seq + Len(seg.bytes) <= Taking' + 1
          BY <4>1, <4>5, <5>1, <5>2 DEF Numbered
        <5> QED
          BY <4>5, <5>3 DEF GoodDown
      <4>7. acked' = acked \/ acked' = rnxt
        BY <3>2, <4>5 DEF Send
      <4>8. snxt' \in Nat /\ snxt' = Taking' + 1
        BY <4>1, <4>4
      <4> QED
        BY <3>2, <4>2, <4>6, <4>7, <4>8 DEF Writes
    <3> QED
      BY <1>5, <3>1, <3>2 DEF Relay
  <2>5. ~Opening' /\ Looping' /\ pc' # "close"
    BY <2>1 DEF Opening, Looping
  <2>6. TypeOK' /\ SegInv' /\ ClientInv' /\ DownInv'
    BY <1>1, <1>2, <2>1, <2>3, <2>4, <2>5, SessionSteps DEF Forwards, After, Numeric
  <2>7. (eagain => eagain') /\ eagain' \in BOOLEAN /\ UNCHANGED <<cst, csent, sst>>
        /\ SentBytes' = SentBytes
    BY <2>4, SessionWrites, SessionFrames
  <2>8. PhaseInv'
    BY <2>1, <2>2, <2>7 DEF PhaseInv
  <2>9. StreamInv'
    BY <1>2, <2>1, <2>2, <2>7 DEF StreamInv, Streaming, Inv
  <2>10. ForwardInv'
    <3>1. Streaming' => Counts(fwd', <<>>, rnxt, acked', NoneDropped)
      BY <1>1, <2>1, <2>2, <2>3, <2>4 DEF Streaming, Counts, Numeric
    <3>2. NoneDropped' => NoneDropped
      BY <2>7 DEF NoneDropped
    <3>3. Hand' = <<>>
      BY <2>1 DEF Hand
    <3>4. Streaming' => Counts(fwd', Hand', rnxt', acked', NoneDropped')
      BY <2>1, <3>1, <3>2, <3>3 DEF Counts
    <3>5. FinAfterData'
      BY <2>1, <2>2 DEF FinAfterData
    <3>6. Ascending(fwd)' /\ (~eagain' => Whole(fwd)')
      BY <2>3, <2>7
    <3> QED
      BY <2>5, <3>4, <3>5, <3>6 DEF ForwardInv
  <2> QED
    BY <2>6, <2>8, <2>9, <2>10 DEF Inv
<1> QED
  BY <1>3, <1>4, <1>5

\* recv's bytes of a segment.
LEMMA UpBytesAre ==
  ASSUME NEW p \in GoodUp, p.len > 0
  PROVE  /\ UpBytes(p) \in Seq(1..MaxUp) /\ Len(UpBytes(p)) = p.len
         /\ \A i \in 1..p.len : UpBytes(p)[i] = p.seq + i - 1
<1>1. p.seq \in Nat /\ p.len \in Nat /\ p.seq >= 1 /\ p.seq + p.len <= MaxUp + 1
  BY DEF GoodUp, UpSegment
<1>2. \A i \in 1..p.len : p.seq + i - 1 \in 1..MaxUp
  BY <1>1, ConstAssumption
<1> DEFINE b == [i \in 1..p.len |-> p.seq + i - 1]
<1>3. b \in [1..p.len -> 1..MaxUp] /\ \A i \in 1..p.len : b[i] = p.seq + i - 1
  BY <1>2
<1> HIDE DEF b
<1>4. b \in Seq(1..MaxUp) /\ Len(b) = p.len
  BY <1>1, <1>3, QueueOf
<1> QED
  BY <1>3, <1>4 DEF UpBytes, b

\* A packet that came while the session counts takes the expected number to where
\* the stream goes on.
LEMMA PollStream ==
  ASSUME Inv, pc = "poll", state = "ESTABLISHED", Read
  PROVE  \E to \in Number :
            /\ Follows(Packet, rnxt, to, SentBytes + 1)
            /\ Stream(pipe', to, SentBytes + 1)
            /\ Packet.len = 0 \/ ~Acceptable(Packet) => to = rnxt
            /\ Acceptable(Packet) =>
                  to = rnxt + Packet.len /\ (Packet.len > 0 => Packet.seq = rnxt)
<1>1. Numeric
  BY InvNumeric
<1>2. /\ Packet.seq \in Nat /\ Packet.len \in Nat /\ pipe # <<>> /\ pipe' = Tail(pipe)
  BY PacketIs
<1>3. Stream(pipe, rnxt, SentBytes + 1)
  BY DEF Inv, StreamInv, Streaming
<1>4. PICK to \in Number : Follows(Packet, rnxt, to, SentBytes + 1)
                           /\ Stream(pipe', to, SentBytes + 1)
  BY <1>1, <1>2, <1>3, StreamTail DEF Numeric, Packet
<1>5. Packet.len = 0 => to = rnxt
  BY <1>2, <1>4 DEF Follows
<1>6. ~Acceptable(Packet) => to = rnxt
  <2>1. CASE Packet.len > 0 /\ Packet.len <= MaxSeg /\ Packet.seq = rnxt
    <3>1. Acceptable(Packet)
      BY <1>1, <1>2, <2>1, ConstAssumption DEF Acceptable, InWindow, Numeric
    <3> QED
      BY <3>1
  <2> QED
    BY <1>2, <1>4, <2>1 DEF Follows
<1>7. Acceptable(Packet) => to = rnxt + Packet.len /\ (Packet.len > 0 => Packet.seq = rnxt)
  <2> SUFFICES ASSUME Acceptable(Packet)
               PROVE  to = rnxt + Packet.len /\ (Packet.len > 0 => Packet.seq = rnxt)
    OBVIOUS
  <2>1. rnxt <= Packet.seq
    BY DEF Acceptable, InWindow
  <2>2. rnxt \in Nat
    BY <1>1 DEF Numeric
  <2>3. ~(Packet.len > 0 /\ Packet.seq + Packet.len <= rnxt)
    BY <1>2, <2>1, <2>2
  <2> QED
    BY <1>2, <1>4, <2>2, <2>3 DEF Follows
<1> QED
  BY <1>4, <1>5, <1>6, <1>7

\* The numbers when n more bytes are expected, in hand or dropped.
LEMMA CountsTaken ==
  ASSUME NEW f, NEW r \in Nat, NEW n \in Nat, NEW a \in Nat, NEW whole,
         Counts(f, <<>>, r, a, whole), NEW b, b = a \/ b = r + n, NEW still, still => whole,
         NEW h, Len(h) = n, \A i \in 1..n : h[i] = r + i - 1,
         Len(f) \in Nat, \A i \in 1..Len(f) : f[i] \in Int
  PROVE  Counts(f, h, r + n, b, still) /\ (~still => Counts(f, <<>>, r + n, b, still))
<1>1. PICK e : e = <<>>
  OBVIOUS
<1>2. Len(e) = 0
  BY <1>1
<1>3. Counts(f, e, r, a, whole)
  BY <1>1
<1>4. /\ r >= 1 /\ a <= r /\ (whole => Len(f) = r - 1) /\ \A i \in 1..Len(f) : f[i] < r
  BY <1>2, <1>3 DEF Counts
<1>5. r + n >= 1 /\ b <= r + n /\ r + n - n = r
  BY <1>4
<1>6. Counts(f, h, r + n, b, still)
  BY <1>4, <1>5 DEF Counts
<1>7. ASSUME NEW i \in 1..Len(f), f[i] \in Int PROVE f[i] < r + n
  BY <1>4, <1>7
<1>8. ~still => Counts(f, e, r + n, b, still)
  BY <1>2, <1>5, <1>7 DEF Counts
<1> QED
  BY <1>1, <1>6, <1>8

\* The forms that a turn's packet leaves the session in, with rnxt moved to what the
\* packet leads to.
LEMMA Polls ==
  ASSUME Inv, PollClient
  PROVE  Inv'
<1>1. Numeric /\ Forwards
  BY InvNumeric, InvForwards
<1>2. /\ Packet \in GoodUp /\ Packet \in UpSegment
      /\ Packet.seq \in Nat /\ Packet.len \in Nat /\ Packet.ack \in Nat
      /\ pipe # <<>> /\ pipe' = Tail(pipe) /\ Read
  BY PacketIs DEF PollClient
<1>3. /\ pc = "poll" /\ pc' = "relay" /\ snxt = Taking + 1
      /\ UNCHANGED <<snxt, fwd, clientVars, serverVars, srv, sst, ssent>>
      /\ state = "ESTABLISHED" \/ (state = "CLOSED" /\ eagain)
      /\ Hand = <<>>
  BY DEF PollClient, Inv, DownInv, PhaseInv, Looping, Hand, serverVars
<1>4. Taking' = Taking /\ ~Opening' /\ Looping' /\ pc' # "close"
  BY <1>3 DEF Taking, Opening, Looping
<1>5. state = "ESTABLISHED" => Counts(fwd, <<>>, rnxt, acked, NoneDropped)
  BY <1>3 DEF Inv, ForwardInv, Streaming
\* What is left to show of a step: the phase, and while the session counts, the numbers.
<1>6. ASSUME Writes, state = "CLOSED" => state' = "CLOSED", state' \in States,
             NEW e \in {"none", "in", "hup", "err"}, ClientRev(e),
             rnxt' \in Nat, cbuf' \in Seq(1..MaxUp),
             \/ state' = "ESTABLISHED" /\ Stream(pipe', rnxt', SentBytes + 1)
                /\ Counts(fwd, Hand', rnxt', acked', NoneDropped')
             \/ state' = "CLOSED" /\ (e = "err" \/ (e = "none" /\ eagain'))
             \/ state' = "CLOSE_WAIT" /\ e = "hup" /\ cst = "fin" /\ FinAfterData'
      PROVE  Inv'
  <2>1. SessionFrame
    BY <1>2, <1>3, <1>6 DEF SessionFrame
  <2>2. /\ (eagain => eagain') /\ eagain' \in BOOLEAN /\ eagain \in BOOLEAN
        /\ UNCHANGED <<cst, csent, sst>> /\ SentBytes' = SentBytes
    BY <1>6, <2>1, SessionWrites, SessionFrames DEF Inv, TypeOK
  <2>3. /\ rev' \in [client : {"none", "in", "hup", "err"}, server : {"none", "in", "err"}]
        /\ rev'.client = e
    BY <1>6 DEF ClientRev, ServerReady
  <2>4. TypeOK' /\ SegInv' /\ ClientInv' /\ DownInv'
    BY <1>1, <1>3, <1>4, <1>6, <2>1, <2>3, SessionSteps DEF Forwards, After, Numeric
  <2>5. PhaseInv'
    BY <1>3, <1>6, <2>2, <2>3 DEF PhaseInv, Broken
  <2>6. StreamInv'
    BY <1>6, <2>2 DEF StreamInv, Streaming
  <2>7. ForwardInv'
    <3>1. FinAfterData'
      BY <1>6 DEF FinAfterData
    <3>2. Ascending(fwd)' /\ (~eagain' => Whole(fwd)')
      BY <1>1, <1>3, <2>2 DEF Forwards
    <3>3. Streaming' => Counts(fwd', Hand', rnxt', acked', NoneDropped')
      BY <1>3, <1>6 DEF Streaming
    <3> QED
      BY <1>4, <3>1, <3>2, <3>3 DEF ForwardInv
  <2> QED
    BY <2>4, <2>5, <2>6, <2>7 DEF Inv
<1>7. ASSUME NEW e, ClientRev(e) PROVE Hand' = IF e = "in" THEN cbuf' ELSE <<>>
  BY <1>3, <1>7 DEF Hand, ClientRev
<1>8. \A q : q = <<>> => q \in Seq(1..MaxUp)
  OBVIOUS
<1>9. state \in States /\ (eagain \in BOOLEAN) /\ rnxt \in Nat /\ acked \in Nat
  BY <1>1 DEF Inv, TypeOK, States, Numeric
<1>10. CASE RecvNothing(Packet) /\ (~Acceptable(Packet) \/ Packet.len = 0)
  <2>1. /\ cbuf' = <<>> /\ ClientRev("none") /\ UNCHANGED <<tun, acked, eagain, state, rnxt>>
        /\ SendNothing
    BY <1>10 DEF RecvNothing, SendNothing
  <2>2. Writes /\ NoneDropped' = NoneDropped /\ Hand' = <<>>
    BY <1>3, <1>7, <2>1 DEF Writes, NoneDropped
  <2>3. state = "ESTABLISHED" => Stream(pipe', rnxt, SentBytes + 1)
    BY <1>2, <1>3, <1>10, PollStream
  <2>4. CASE state = "ESTABLISHED"
    <3>1. Counts(fwd, Hand', rnxt', acked', NoneDropped')
      BY <1>5, <2>1, <2>2, <2>4
    <3> QED
      BY <1>6, <1>8, <1>9, <2>1, <2>2, <2>3, <2>4, <3>1
  <2>5. CASE state = "CLOSED" /\ eagain
    BY <1>6, <1>8, <1>9, <2>1, <2>2, <2>5
  <2> QED
    BY <1>3, <2>4, <2>5
<1>11. CASE RecvData(Packet) /\ Packet.len > 0 /\ Acceptable(Packet) /\ state = "ESTABLISHED"
  <2>1. PICK r \in Nat : r = rnxt + Packet.len
    BY <1>2, <1>9
  <2>2. /\ rnxt' = r /\ cbuf' = UpBytes(Packet) /\ state' = state
        /\ \/ SendNothing /\ ClientRev("in")
           \/ /\ Send(Down("ack", snxt, <<>>, r))
              /\ IF Sent THEN ClientRev("in") ELSE Failed
    BY <1>11, <2>1 DEF RecvData
  <2>3. Down("ack", snxt, <<>>, r) \in GoodDown' /\ Down("ack", snxt, <<>>, r).ack = r
    BY <1>1, <2>1, DownIsGood DEF Numeric, Down
  <2>4. Writes
    BY <2>2, <2>3 DEF Writes
  <2>5. SessionFrame
    BY <1>2, <1>3, <2>2 DEF SessionFrame
  <2>6. (eagain => eagain') /\ eagain' \in BOOLEAN
    BY <2>4, <2>5, SessionWrites
  <2>7. /\ acked' = acked \/ acked' = r
        /\ ClientRev("in") \/ (ClientRev("none") /\ eagain')
    <3>1. CASE SendNothing /\ ClientRev("in")
      BY <3>1 DEF SendNothing
    <3>2. CASE Send(Down("ack", snxt, <<>>, r)) /\ IF Sent THEN ClientRev("in") ELSE Failed
      <4>1. acked' = acked \/ acked' = r
        BY <2>3, <3>2 DEF Send
      <4>2. ~Sent => eagain'
        <5>1. tun \in Seq(GoodDown') /\ Len(tun) <= TunCap /\ TunCap \in Nat
          BY <2>5, SessionFrames, ConstAssumption DEF Inv, TypeOK
        <5> QED
          BY <1>9, <2>1, <2>3, <3>2, <5>1, SendSends
      <4> QED
        BY <3>2, <4>1, <4>2 DEF Failed
    <3> QED
      BY <2>2, <3>1, <3>2
  <2>8. /\ UpBytes(Packet) \in Seq(1..MaxUp) /\ Len(UpBytes(Packet)) = Packet.len
        /\ Stream(pipe', r, SentBytes + 1)
        /\ \A i \in 1..Packet.len : UpBytes(Packet)[i] = rnxt + i - 1
    <3>1. Packet.seq = rnxt /\ Stream(pipe', r, SentBytes + 1)
      BY <1>2, <1>3, <1>11, <2>1, PollStream
    <3> QED
      BY <1>2, <1>11, <3>1, UpBytesAre
  <2>9. NoneDropped' => NoneDropped
    BY <1>3, <2>6 DEF NoneDropped
  <2>10. /\ Counts(fwd, UpBytes(Packet), r, acked', NoneDropped')
         /\ ~NoneDropped' => Counts(fwd, <<>>, r, acked', NoneDropped')
    <3>1. Len(fwd) \in Nat /\ \A i \in 1..Len(fwd) : fwd[i] \in Int
      <4>1. fwd \in Seq(1..MaxUp)
        BY <1>1 DEF Forwards
      <4>2. \A i \in 1..Len(fwd) : fwd[i] \in 1..MaxUp
        BY <4>1, QueueElements
      <4> QED
        BY <4>1, <4>2, ConstAssumption
    <3> QED
      BY <1>2, <1>5, <1>11, <1>9, <2>1, <2>7, <2>8, <2>9, <3>1, CountsTaken
  <2>11. CASE ClientRev("in")
    <3>1. Hand' = UpBytes(Packet)
      BY <1>7, <2>2, <2>11
    <3> QED
      BY <1>6, <1>11, <2>1, <2>2, <2>4, <2>8, <2>10, <2>11, <3>1 DEF States
  <2>12. CASE ClientRev("none") /\ eagain'
    <3>1. Hand' = <<>> /\ ~NoneDropped'
      BY <1>7, <2>12 DEF NoneDropped
    <3> QED
      BY <1>6, <1>11, <2>1, <2>2, <2>4, <2>8, <2>10, <2>12, <3>1 DEF States
  <2> QED
    BY <2>7, <2>11, <2>12
<1>12. CASE /\ RecvFin(Packet) /\ Packet.len = 0 /\ Packet.kind = "fin" /\ Acceptable(Packet)
           /\ state = "ESTABLISHED"
  <2>1. PICK r \in Nat : r = rnxt + 1
    BY <1>9
  <2>2. /\ rnxt' = r /\ state' = "CLOSE_WAIT" /\ cbuf' = <<>> /\ ClientRev("hup")
        /\ Send(Down("ack", Packet.ack, <<>>, Packet.seq + 1))
    BY <1>12, <2>1 DEF RecvFin
  <2>3. Packet.seq + 1 \in Nat
    BY <1>2
  <2>4. Writes
    BY <1>2, <2>2, <2>3, DownIsGood DEF Writes
  <2>5. SessionFrame
    BY <1>2, <1>3, <1>12, <2>2 DEF SessionFrame
  <2>6. (eagain => eagain') /\ SentBytes' = SentBytes
    BY <2>4, <2>5, SessionWrites, SessionFrames
  <2>7. cst = "fin"
    BY <1>2, <1>12 DEF GoodUp, Inv, ClientInv
  <2>8. SentBytes + 1 = rnxt
    BY <1>2, <1>3, <1>12, PollStream DEF Follows
  <2>9. NoneDropped => Len(fwd) = SentBytes
    <3>1. PICK e : e = <<>>
      OBVIOUS
    <3>2. Len(e) = 0 /\ Counts(fwd, e, rnxt, acked, NoneDropped)
      BY <1>5, <1>12, <3>1
    <3> QED
      BY <1>1, <1>9, <2>8, <3>2 DEF Counts, Numeric
  <2>10. FinAfterData'
    BY <1>3, <2>6, <2>9 DEF FinAfterData, NoneDropped
  <2> QED
    BY <1>6, <1>12, <1>8, <2>1, <2>2, <2>4, <2>7, <2>10 DEF States
<1>13. CASE RecvUnknown(Packet) /\ Packet.len = 0 /\ state = "ESTABLISHED"
  <2>1. cbuf' = <<>> /\ rnxt' = rnxt /\ Failed
    BY <1>13 DEF RecvUnknown
  <2>2. CASE SendNothing /\ UNCHANGED state
    <3>1. Writes /\ NoneDropped' = NoneDropped /\ acked' = acked
      BY <1>3, <2>2 DEF Writes, NoneDropped, SendNothing
    <3>2. Stream(pipe', rnxt', SentBytes + 1)
      BY <1>2, <1>3, <1>13, <2>1, PollStream
    <3>3. ASSUME NEW e \in {"none", "err"}, ClientRev(e) PROVE Inv'
      <4>1. Counts(fwd, Hand', rnxt', acked', NoneDropped')
        BY <1>5, <1>13, <1>7, <2>1, <3>1, <3>3
      <4> QED
        BY <1>6, <1>13, <1>8, <1>9, <2>1, <2>2, <3>1, <3>2, <3>3, <4>1
    <3> QED
      BY <2>1, <3>3 DEF Failed
  <2>3. CASE Reset(FALSE, Packet) /\ state' = "CLOSED"
    <3>1. Writes
      BY <1>2, <2>3, ResetWrites
    <3> QED
      BY <1>6, <1>8, <1>9, <2>1, <2>3, <3>1 DEF Failed, States
  <2> QED
    BY <1>13, <2>2, <2>3 DEF RecvUnknown
<1>14. CASE RecvClosed(Packet) /\ state = "CLOSED"
  <2>1. PICK r \in Nat : r = rnxt + Packet.len
    BY <1>2, <1>9
  <2>2. /\ rnxt' = r /\ cbuf' = cbuf /\ state' = "CLOSED" /\ Failed /\ Reset(TRUE, Packet)
    BY <1>14, <2>1 DEF RecvClosed
  <2>3. Writes
    BY <1>2, <2>2, ResetWrites
  <2>4. cbuf \in Seq(1..MaxUp)
    BY <1>1 DEF Forwards
  <2> QED
    BY <1>6, <2>1, <2>2, <2>3, <2>4 DEF Failed, States
<1> QED
  BY <1>10, <1>11, <1>12, <1>13, <1>14 DEF PollClient

\* A turn in which only the server is ready keeps the invariant.
LEMMA PollsServer ==
  ASSUME Inv, PollServer
  PROVE  Inv'
<1>1. Numeric /\ Forwards
  BY InvNumeric, InvForwards
<1>2. /\ pc = "poll" /\ pc' = "relay" /\ state = "ESTABLISHED" /\ ClientRev("none")
      /\ UNCHANGED <<state, rnxt, snxt, cbuf, eagain, fwd, acked, pipe, tun, clientVars,
                     srv, ssent, sst>>
      /\ snxt = Taking + 1 /\ SendNothing /\ Hand = <<>>
  BY DEF PollServer, Inv, PhaseInv, DownInv, Looping, serverVars, SendNothing, Hand
<1>3. /\ SessionFrame /\ Writes /\ Taking' = Taking /\ ~Opening' /\ Looping' /\ pc' # "close"
      /\ UNCHANGED <<cst, csent>> /\ SentBytes' = SentBytes
  BY <1>2 DEF SessionFrame, Writes, Taking, Opening, Looping, clientVars, SentBytes
<1>4. /\ rev' \in [client : {"none", "in", "hup", "err"}, server : {"none", "in", "err"}]
      /\ rev'.client = "none" /\ Hand' = <<>>
  BY <1>2 DEF ClientRev, ServerReady, Hand
<1>5. TypeOK' /\ SegInv' /\ ClientInv' /\ DownInv'
  BY <1>1, <1>2, <1>3, <1>4, SessionSteps DEF Forwards, After, States, Numeric
<1>6. PhaseInv'
  BY <1>2, <1>3 DEF PhaseInv
<1>7. StreamInv'
  BY <1>2, <1>3 DEF Inv, StreamInv, Streaming
<1>8. ForwardInv'
  <2>1. Counts(fwd, <<>>, rnxt, acked, NoneDropped)
    BY <1>2 DEF Inv, ForwardInv, Streaming
  <2>2. Counts(fwd', Hand', rnxt', acked', NoneDropped')
    BY <1>2, <1>4, <2>1 DEF NoneDropped
  <2>3. FinAfterData'
    BY <1>2 DEF FinAfterData
  <2> QED
    BY <1>1, <1>2, <1>3, <2>2, <2>3 DEF ForwardInv, Forwards
<1> QED
  BY <1>5, <1>6, <1>7, <1>8 DEF Inv

-----------------------------------------------------------------------------
(* The theorems.                                                           *)

\* Every step keeps the invariant.
LEMMA InvStep ==
  ASSUME Inv, [Next]_vars
  PROVE  Inv'
<1>1. CASE Client
  BY <1>1, ClientActions, ClientSteps
<1>2. CASE Server
  BY <1>2, ServerSteps
<1>3. CASE Session
  BY <1>3, Opens, Dials, Shakes, Polls, PollsServer, Stops, Relays, Closes DEF Session
<1>4. CASE Stop
  BY <1>4, Stops
<1>5. CASE UNCHANGED vars
  <2>1. UNCHANGED <<pc, state, rnxt, snxt, rev, cbuf, eagain, fwd, acked, pipe, tun,
                    cst, csent, cuna, crcv, sst, ssent, srv>>
    BY <1>5 DEF vars, sessionVars, clientVars, serverVars
  <2>2. /\ Taking' = Taking /\ Opening' = Opening /\ Looping' = Looping /\ Broken' = Broken
        /\ Streaming' = Streaming /\ Hand' = Hand /\ SentBytes' = SentBytes
        /\ NoneDropped' = NoneDropped /\ GoodUp' = GoodUp /\ GoodDown' = GoodDown
    BY <2>1 DEF Taking, Opening, Looping, Broken, Streaming, Hand, SentBytes, NoneDropped,
                GoodUp, GoodDown
  <2>3. TypeOK' /\ SegInv' /\ ClientInv' /\ PhaseInv'
    BY <2>1, <2>2 DEF Inv, TypeOK, SegInv, ClientInv, PhaseInv
  <2>4. StreamInv' /\ DownInv' /\ ForwardInv'
    BY <2>1, <2>2 DEF Inv, StreamInv, DownInv, Queued, ForwardInv, FinAfterData
  <2> QED
    BY <2>3, <2>4 DEF Inv
<1> QED
  BY <1>1, <1>2, <1>3, <1>4, <1>5 DEF Next

\* The inductive invariant holds in every state of the session.
THEOREM SessionInvariant == Spec => []Inv
<1>1. Inv /\ [Next]_vars => Inv'
  BY InvStep
<1> QED
  BY InvInit, <1>1, PTL DEF Spec

\* The variables have their types, and pipe and device are never over their capacity.
THEOREM TypeCorrect == Spec => []TypeOK
<1>1. Inv => TypeOK
  BY DEF Inv
<1> QED
  BY SessionInvariant, <1>1, PTL

\* The server is sent the client's bytes in order, none twice, and none is left out
\* unless a write to the TUN device failed, however the client cuts and resends.
THEOREM UploadInOrder == Spec => []UploadIntegrity
<1>1. ASSUME Inv PROVE UploadIntegrity
  <2>1. Ascending(fwd) /\ (~eagain => Whole(fwd)) /\ fwd \in Seq(1..MaxUp)
    BY <1>1 DEF Inv, ForwardInv, TypeOK
  <2>2. \A i \in 1..Len(fwd) : i > 1 => i \in 2..Len(fwd)
    BY <2>1
  <2> QED
    BY <2>1, <2>2 DEF UploadIntegrity, Ascending, Whole
<1> QED
  BY SessionInvariant, <1>1, PTL

\* The bytes of every data segment have the numbers of their positions.
THEOREM DownloadNumbered == Spec => []DownloadIntegrity
<1>1. ASSUME Inv PROVE DownloadIntegrity
  <2> SUFFICES ASSUME NEW i \in 1..Len(tun), NEW j \in 1..Len(tun[i].bytes)
               PROVE  tun[i].bytes[j] = tun[i].seq + j - 1
    BY DEF DownloadIntegrity
  <2>1. tun[i] \in GoodDown
    BY <1>1, QueueElements DEF Inv, SegInv
  <2>2. CASE tun[i].kind = "data"
    BY <2>1, <2>2 DEF GoodDown, Numbered
  <2>3. CASE tun[i].kind # "data"
    <3>1. tun[i].bytes = <<>>
      BY <2>1, <2>3 DEF GoodDown
    <3>2. Len(tun[i].bytes) = 0
      BY <3>1
    <3> QED
      BY <3>2
  <2> QED
    BY <2>2, <2>3
<1> QED
  BY SessionInvariant, <1>1, PTL

\* Between two turns of the loop no byte is acknowledged that was not handed to a
\* living server, unless a write to the TUN device failed.
THEOREM AckedForwarded == Spec => []AckedIsForwarded
<1>1. ASSUME Inv PROVE AckedIsForwarded
  <2> SUFFICES ASSUME pc = "poll", sst # "reset", ~eagain,
                      NEW i \in 1..SentBytes, i < acked
               PROVE  i <= Len(fwd)
    BY DEF AckedIsForwarded
  <2>1. Numeric
    BY <1>1, InvNumeric
  <2>2. state = "ESTABLISHED" /\ Hand = <<>> /\ NoneDropped
    BY <1>1 DEF Inv, PhaseInv, Hand, NoneDropped
  <2>3. PICK e : e = <<>>
    OBVIOUS
  <2>4. Counts(fwd, e, rnxt, acked, NoneDropped) /\ Len(e) = 0
    BY <1>1, <2>2, <2>3 DEF Inv, ForwardInv, Streaming
  <2>5. acked <= rnxt /\ Len(fwd) = rnxt - 1
    BY <2>1, <2>2, <2>4 DEF Counts, Numeric
  <2> QED
    BY <2>1, <2>5 DEF Numeric
<1> QED
  BY SessionInvariant, <1>1, PTL

\* When the client's FIN ends the loop, all its bytes have been forwarded.
THEOREM FinBehindData == Spec => []FinAfterData
<1>1. Inv => FinAfterData
  BY DEF Inv, ForwardInv
<1> QED
  BY SessionInvariant, <1>1, PTL

-----------------------------------------------------------------------------
(* The width of the numbers.                                               *)

\* The comparisons at the head of recv accept exactly the segments that lie in the
\* window modulo 2^32, unless the end of the window is past 2^32: then they
\* accept none.
THEOREM WindowCheck ==
    \A nxt, seq \in SeqNumber, len \in Nat :
        Window + len < Modulus => AcceptsExactly(nxt, seq, len)
  BY WindowAssumption
     DEF SeqNumber, AcceptsExactly, Accepts, Below, Last, Plus, InWindowMod, Distance

\* Until the loop ends no number of the client's stream is far from it: neither the
\* session's next expected one, nor one in the pipe, nor one that is acknowledged to the
\* client, who answers with it when it resets.
Early == pc \in {"first", "dial", "shake", "poll", "relay"}
SeqsLow == \A i \in 1..Len(pipe) : pipe[i].seq <= MaxUp + 2
AcksLow == \A i \in 1..Len(tun) : tun[i].ack <= MaxUp + 2
NumberInv == Early => rnxt <= MaxUp + 2 /\ SeqsLow /\ AcksLow

\* A low number in one more segment of the client.
LEMMA SeqsPut ==
  ASSUME Inv, SeqsLow, NEW seg, seg.seq <= MaxUp + 2, pipe' = Append(pipe, seg)
  PROVE  SeqsLow'
<1> DEFINE S == UpSegment \cup {seg}
<1>1. pipe \in Seq(S) /\ Len(pipe) \in Nat
  BY InvNumeric, QueueWider DEF Numeric
<1>2. Appended(Append(pipe, seg), pipe, seg)
  <2>1. seg \in S
    OBVIOUS
  <2> HIDE DEF S
  <2> QED
    BY <1>1, <2>1, QueueAppend
<1> QED
  BY <1>1, <1>2 DEF Appended, SeqsLow

\* A segment less, or none.
LEMMA SeqsRead ==
  ASSUME Inv, SeqsLow, pipe' = pipe \/ (pipe # <<>> /\ pipe' = Tail(pipe))
  PROVE  SeqsLow'
<1>1. CASE pipe # <<>> /\ pipe' = Tail(pipe)
  <2>1. pipe \in Seq(UpSegment) /\ Len(pipe) \in Nat
    BY InvNumeric DEF Numeric
  <2>2. Tailed(Tail(pipe), pipe) /\ Len(pipe) \in Nat \ {0}
    BY <1>1, <2>1, QueueTail
  <2>3. \A i \in 1..Len(Tail(pipe)) : Tail(pipe)[i].seq <= MaxUp + 2
    <3>1. \A i \in 1..Len(Tail(pipe)) : Tail(pipe)[i] = pipe[i + 1] /\ i + 1 \in 1..Len(pipe)
      BY <2>1, <2>2 DEF Tailed
    <3> QED
      BY <3>1 DEF SeqsLow
  <2> QED
    BY <1>1, <2>3 DEF SeqsLow
<1> QED
  BY <1>1 DEF SeqsLow

\* A low number in what the session writes, be there room for it or not.
LEMMA AcksSend ==
  ASSUME Inv, AcksLow, NEW seg, seg.ack <= MaxUp + 2, Send(seg)
  PROVE  AcksLow'
<1> DEFINE S == DownSegment \cup {seg}
<1>1. tun \in Seq(S) /\ Len(tun) \in Nat
  BY InvNumeric, QueueWider DEF Numeric
<1>2. Appended(Append(tun, seg), tun, seg)
  <2>1. seg \in S
    OBVIOUS
  <2> HIDE DEF S
  <2> QED
    BY <1>1, <2>1, QueueAppend
<1>3. CASE tun' = Append(tun, seg)
  BY <1>1, <1>2, <1>3 DEF Appended, AcksLow
<1>4. CASE tun' = tun
  BY <1>4 DEF AcksLow
<1> QED
  BY <1>3, <1>4 DEF Send

\* What the client takes from the device.
LEMMA AcksRead ==
  ASSUME Inv, AcksLow, tun # <<>>, tun' = Tail(tun)
  PROVE  AcksLow' /\ Head(tun).ack <= MaxUp + 2
<1>1. tun \in Seq(DownSegment) /\ Len(tun) \in Nat
  BY InvNumeric DEF Numeric
<1>2. Tailed(Tail(tun), tun) /\ Head(tun) = tun[1] /\ Len(tun) \in Nat \ {0}
  BY <1>1, QueueTail
<1> QED
  BY <1>1, <1>2 DEF Tailed, AcksLow

\* The client numbers its segments from its stream, or resets with the number that was
\* acknowledged to it.
LEMMA ClientNumbers ==
  ASSUME Inv, NumberInv, Early, Client
  PROVE  NumberInv'
<1>1. rnxt <= MaxUp + 2 /\ SeqsLow /\ AcksLow /\ MaxUp \in Nat
  BY ConstAssumption DEF NumberInv
<1>2. Numeric /\ ClientInv
  BY InvNumeric DEF Inv
<1>3. /\ csent \in Nat /\ cuna \in 0..csent
      /\ cst \in {"syn_sent", "estab", "fin"} => csent <= MaxUp + 2
  BY <1>1, <1>2 DEF Numeric, SentBytes
<1>4. rnxt' = rnxt
  BY ClientActions DEF ClientStep, sessionVars
<1>5. ASSUME UNCHANGED tun, NEW seg, seg.seq <= MaxUp + 2, pipe' = Append(pipe, seg)
      PROVE  NumberInv'
  <2>1. AcksLow'
    BY <1>1, <1>5 DEF AcksLow
  <2> QED
    BY <1>1, <1>4, <1>5, <2>1, SeqsPut DEF NumberInv
<1>6. ASSUME NEW n \in 1..MaxSeg, ClientSend(n) PROVE NumberInv'
  BY <1>3, <1>5, <1>6 DEF ClientSend, Data, Up
<1>7. ASSUME NEW n \in 0..MaxSeg, ClientFin(n) PROVE NumberInv'
  BY <1>3, <1>5, <1>7 DEF ClientFin, Up
<1>8. CASE ClientRetransmit
  <2>1. cuna <= MaxUp + 2
    BY <1>1, <1>3, <1>8 DEF ClientRetransmit
  <2> QED
    BY <1>5, <1>8, <2>1 DEF ClientRetransmit, Data, Up
<1>9. CASE ClientAbort
  BY <1>3, <1>5, <1>9 DEF ClientAbort, Up
<1>10. CASE ClientAbandon
  BY <1>1, <1>4, <1>10 DEF ClientAbandon, NumberInv, SeqsLow, AcksLow
<1>11. CASE ClientOdd
  BY <1>3, <1>5, <1>11 DEF ClientOdd, Up
<1>12. CASE ClientReceive
  <2>1. tun # <<>> /\ tun' = Tail(tun)
    BY <1>12 DEF ClientReceive
  <2>2. AcksLow' /\ Head(tun).ack <= MaxUp + 2
    BY <1>1, <2>1, AcksRead
  <2>3. \/ pipe' = pipe
        \/ \E seg : seg.seq <= MaxUp + 2 /\ pipe' = Append(pipe, seg)
    <3>1. ASSUME NEW seg, seg.seq <= MaxUp + 2, MustAnswer(seg)
          PROVE  pipe' = pipe \/ \E s : s.seq <= MaxUp + 2 /\ pipe' = Append(pipe, s)
      BY <3>1 DEF MustAnswer
    <3>2. Up("ack", 1, 0).seq <= MaxUp + 2
      BY <1>1 DEF Up
    <3>3. ASSUME cst \in {"estab", "fin"}, NEW n PROVE AckOf(n).seq <= MaxUp + 2
      BY <1>3, <3>3 DEF AckOf, Up
    <3>4. [Up("rst", csent, 0) EXCEPT !.seq = Head(tun).ack].seq <= MaxUp + 2
      BY <2>2 DEF Up
    <3> QED
      BY <1>12, <3>1, <3>2, <3>3, <3>4 DEF ClientReceive, MayAnswer
  <2>4. SeqsLow'
    BY <1>1, <2>3, SeqsPut, SeqsRead
  <2> QED
    BY <1>1, <1>4, <2>2, <2>4 DEF NumberInv
<1> QED
  BY <1>6, <1>7, <1>8, <1>9, <1>10, <1>11, <1>12 DEF Client

\* What the packet of a turn does to the numbers.
LEMMA PollNumbers ==
  ASSUME Inv, NumberInv, PollClient
  PROVE  NumberInv'
<1>1. rnxt <= MaxUp + 2 /\ SeqsLow /\ AcksLow /\ MaxUp \in Nat /\ rnxt \in Nat /\ pc = "poll"
  BY ConstAssumption, InvNumeric DEF NumberInv, Early, PollClient, Numeric
<1>2. /\ Packet \in GoodUp /\ Packet.seq \in Nat /\ Packet.len \in Nat
      /\ Read /\ pipe # <<>> /\ pipe' = Tail(pipe)
  BY PacketIs DEF PollClient
<1>3. SeqsLow'
  BY <1>1, <1>2, SeqsRead
<1>4. ASSUME NEW closed, Reset(closed, Packet) PROVE AcksLow'
  <2>1. Down("rst", Packet.ack, <<>>, 0).ack <= MaxUp + 2
    BY <1>1 DEF Down
  <2> QED
    BY <1>1, <1>4, <2>1, AcksSend DEF Reset, SendNothing, AcksLow
<1>5. Acceptable(Packet) => rnxt <= Packet.seq
  BY DEF Acceptable, InWindow
<1>6. Packet.len > 0 => Packet.seq + Packet.len <= MaxUp + 1
  BY <1>2 DEF GoodUp
<1>7. CASE RecvNothing(Packet)
  BY <1>1, <1>3, <1>7 DEF RecvNothing, SendNothing, AcksLow, NumberInv
<1>8. CASE Acceptable(Packet) /\ Packet.len > 0 /\ RecvData(Packet)
  <2>1. PICK r \in Nat : r = rnxt + Packet.len
    BY <1>1, <1>2
  <2>2. rnxt' = r /\ r <= MaxUp + 2 /\ (SendNothing \/ Send(Down("ack", snxt, <<>>, r)))
    BY <1>1, <1>2, <1>5, <1>6, <1>8, <2>1 DEF RecvData
  <2>3. Down("ack", snxt, <<>>, r).ack <= MaxUp + 2
    BY <2>2 DEF Down
  <2>4. AcksLow'
    BY <1>1, <2>2, <2>3, AcksSend DEF SendNothing, AcksLow
  <2> QED
    BY <1>3, <2>2, <2>4 DEF NumberInv
<1>9. CASE /\ Acceptable(Packet) /\ state = "ESTABLISHED" /\ Packet.len = 0
           /\ Packet.kind = "fin" /\ RecvFin(Packet)
  <2>1. Packet.seq = SentBytes + 1 /\ rnxt = SentBytes + 1
    BY <1>1, <1>2, <1>9, PollStream DEF Follows
  <2>2. SentBytes \in 0..MaxUp
    BY <1>2, <1>9, InvNumeric DEF GoodUp, Inv, ClientInv, Numeric
  <2>3. rnxt' <= MaxUp + 2 /\ Packet.seq + 1 <= MaxUp + 2
    BY <1>1, <1>9, <2>1, <2>2 DEF RecvFin
  <2>4. Down("ack", Packet.ack, <<>>, Packet.seq + 1).ack <= MaxUp + 2
    BY <2>3 DEF Down
  <2>5. AcksLow'
    BY <1>1, <1>9, <2>4, AcksSend DEF RecvFin
  <2> QED
    BY <1>3, <2>3, <2>5 DEF NumberInv
<1>10. CASE RecvUnknown(Packet)
  <2>1. AcksLow'
    BY <1>1, <1>4, <1>10 DEF RecvUnknown, SendNothing, AcksLow
  <2> QED
    BY <1>1, <1>3, <1>10, <2>1 DEF RecvUnknown, NumberInv
<1>11. CASE Acceptable(Packet) /\ RecvClosed(Packet)
  <2>1. AcksLow'
    BY <1>4, <1>11 DEF RecvClosed
  <2>2. rnxt' <= MaxUp + 2
    BY <1>1, <1>2, <1>5, <1>6, <1>11 DEF RecvClosed
  <2> QED
    BY <1>3, <2>1, <2>2 DEF NumberInv
<1> QED
  BY <1>7, <1>8, <1>9, <1>10, <1>11 DEF PollClient

\* Every step keeps the numbers low.
LEMMA NumbersStep ==
  ASSUME Inv, NumberInv, [Next]_vars
  PROVE  NumberInv'
<1>1. CASE ~Early'
  BY <1>1 DEF NumberInv
<1>2. CASE Client /\ Early'
  <2>1. pc' = pc
    BY <1>2, ClientActions DEF ClientStep, sessionVars
  <2> QED
    BY <1>2, <2>1, ClientNumbers DEF Early
<1>3. CASE Server \/ UNCHANGED vars
  BY <1>3 DEF Server, ServerSend, ServerEnds, vars, sessionVars, NumberInv, Early, SeqsLow,
              AcksLow
<1>4. CASE ReadFirst /\ Early'
  <2>1. pc = "first" /\ Packet.kind = "syn" /\ Read /\ rnxt' = Packet.seq + 1 /\ SendNothing
    BY <1>4 DEF ReadFirst, Early
  <2>2. Packet.seq = 0
    BY <2>1 DEF Inv, PhaseInv, Packet
  <2>3. SeqsLow' /\ AcksLow'
    BY <2>1, SeqsRead DEF NumberInv, Early, Read, SendNothing, AcksLow
  <2> QED
    BY <2>1, <2>2, <2>3, ConstAssumption DEF NumberInv
<1>5. CASE Dial /\ Early'
  <2>1. /\ rnxt <= MaxUp + 2 /\ SeqsLow /\ AcksLow /\ rnxt' = rnxt /\ pipe' = pipe
        /\ Send(Down("synack", snxt, <<>>, rnxt))
    BY <1>5 DEF Dial, Early, NumberInv
  <2>2. Down("synack", snxt, <<>>, rnxt).ack <= MaxUp + 2
    BY <2>1 DEF Down
  <2> QED
    BY <2>1, <2>2, AcksSend, SeqsRead DEF NumberInv
<1>6. CASE Shake /\ Early'
  <2>1. /\ rnxt <= MaxUp + 2 /\ SeqsLow /\ AcksLow /\ rnxt' = rnxt /\ Read /\ SendNothing
    BY <1>6 DEF Shake, Early, NumberInv
  <2> QED
    BY <2>1, SeqsRead DEF NumberInv, Read, SendNothing, AcksLow
<1>7. CASE PollServer
  BY <1>7 DEF PollServer, NumberInv, Early, SeqsLow, AcksLow
<1>8. CASE Relay
  <2>1. rnxt <= MaxUp + 2 /\ SeqsLow /\ AcksLow /\ rnxt' = rnxt /\ pipe' = pipe
    BY <1>8 DEF Relay, Early, NumberInv
  <2>2. ASSUME NEW n \in 1..Len(srv), Send(Down("data", snxt, Taken(n), rnxt)) PROVE AcksLow'
    <3>1. Down("data", snxt, Taken(n), rnxt).ack <= MaxUp + 2
      BY <2>1 DEF Down
    <3> QED
      BY <2>1, <2>2, <3>1, AcksSend
  <2>3. AcksLow'
    BY <1>8, <2>1, <2>2 DEF Relay, SendNothing, AcksLow
  <2> QED
    BY <2>1, <2>3, SeqsRead DEF NumberInv
<1>9. CASE /\ \/ PollTimeout \/ RelayBreaks \/ RelayEnds \/ Stop
              \/ CloseFin("ESTABLISHED", "FIN_WAIT_1", "fin1")
              \/ CloseFin("CLOSE_WAIT", "LAST_ACK", "last")
              \/ CloseNothing \/ FinWait1 \/ FinWait2 \/ LastAck
           /\ Early'
  BY <1>9 DEF PollTimeout, RelayBreaks, RelayEnds, Stop, CloseFin, CloseNothing, FinWait1,
              FinWait2, LastAck, Finish, Early
<1> QED
  BY <1>1, <1>2, <1>3, <1>4, <1>5, <1>6, <1>7, <1>8, <1>9, PollNumbers DEF Next, Session

\* Adding and wrapping keeps the order of numbers that are less than one turn apart.
LEMMA Wraps ==
  ASSUME NEW iss \in SeqNumber, NEW n \in 0..(MaxUp + 2)
  PROVE  /\ Wrapped(iss, n) \in SeqNumber
         /\ Wrapped(iss, n) = IF iss + n < Modulus THEN iss + n ELSE iss + n - Modulus
<1>1. Modulus \in Nat \ {0} /\ n <= Modulus /\ iss \in 0..(Modulus - 1) /\ n \in Nat
  BY WindowAssumption, WidthAssumption, ConstAssumption DEF SeqNumber
<1>2. CASE iss + n < Modulus
  BY <1>1, <1>2 DEF Wrapped, SeqNumber
<1>3. CASE iss + n >= Modulus
  <2>1. iss + n = 1 * Modulus + (iss + n - Modulus) /\ iss + n - Modulus \in 0..(Modulus - 1)
    BY <1>1, <1>3
  <2>2. (iss + n) % Modulus = iss + n - Modulus
    BY <1>1, <2>1
  <2> QED
    BY <1>1, <1>3, <2>1, <2>2 DEF Wrapped, SeqNumber
<1> QED
  BY <1>1, <1>2, <1>3

\* A segment near the window is in the window modulo 2^32 if it is in the window.
LEMMA WindowUnwraps ==
  ASSUME NEW iss \in SeqNumber, NEW r \in 0..(MaxUp + 2), NEW s \in 0..(MaxUp + 2),
         NEW len \in Nat, len > 0 => s + len <= MaxUp + 1
  PROVE  InWindowMod(Wrapped(iss, r), Wrapped(iss, s), len) <=>
            /\ r <= s /\ s < r + Wnd
            /\ len > 0 => r <= s + len - 1 /\ s + len - 1 < r + Wnd
<1>1. /\ Modulus \in Nat \ {0} /\ Wnd = Window /\ Wnd \in Nat \ {0} /\ MaxUp \in Nat
      /\ MaxUp + 2 + Wnd <= Modulus
  BY WindowAssumption, WidthAssumption, ConstAssumption
<1>2. ASSUME NEW a \in 0..(MaxUp + 2), NEW b \in 0..(MaxUp + 2)
      PROVE  Distance(Wrapped(iss, a), Wrapped(iss, b)) < Window <=> a <= b /\ b < a + Wnd
  <2>1. iss \in 0..(Modulus - 1)
    BY DEF SeqNumber
  <2> QED
    BY <1>1, <1>2, <2>1, Wraps DEF Distance
<1>3. ASSUME len > 0
      PROVE  Plus(Wrapped(iss, s), len - 1) = Wrapped(iss, s + len - 1)
             /\ s + len - 1 \in 0..(MaxUp + 2)
  <2>1. s + len - 1 \in 0..(MaxUp + 2) /\ iss \in 0..(Modulus - 1)
    BY <1>1, <1>3 DEF SeqNumber
  <2> QED
    BY <1>1, <1>3, <2>1, Wraps DEF Plus
<1> QED
  BY <1>2, <1>3 DEF InWindowMod

\* The window check of the code, 32 bits wide, is that of TcpSession until the end of the
\* window passes 2^32, and accepts nothing from then on: what is proved of TcpSession
\* holds of a stream up to there, whatever number it begins with.
THEOREM WindowAlwaysExact == Spec => []WindowExact
<1>1. Init => NumberInv
  <2> SUFFICES ASSUME Init PROVE NumberInv
    OBVIOUS
  <2>1. PICK seg : pipe = <<seg>> /\ seg.seq \in {0, 1}
    BY DEF Init, Up
  <2>2. SeqsLow
    BY <2>1, ConstAssumption DEF SeqsLow
  <2>3. AcksLow
    BY EmptySeq DEF Init, AcksLow
  <2> QED
    BY <2>2, <2>3, ConstAssumption DEF Init, NumberInv
<1>2. Inv /\ NumberInv /\ [Next]_vars => NumberInv'
  BY NumbersStep
<1>3. Inv /\ NumberInv => WindowExact
  <2> SUFFICES ASSUME Inv, NumberInv, pc = "poll", NEW iss \in SeqNumber, NEW i \in 1..Len(pipe),
                      NEW last \in Last(Wrapped(iss, pipe[i].seq), pipe[i].len)
               PROVE  Accepts(Wrapped(iss, rnxt), Wrapped(iss, pipe[i].seq), pipe[i].len, last) <=>
                         Acceptable(pipe[i]) /\ Wrapped(iss, rnxt) + Window < Modulus
    BY DEF WindowExact
  <2>1. pipe[i] \in GoodUp /\ Len(pipe) \in Nat
    BY InvNumeric, QueueElements DEF Inv, SegInv, Numeric
  <2>2. /\ rnxt \in 0..(MaxUp + 2) /\ pipe[i].seq \in 0..(MaxUp + 2) /\ pipe[i].len \in Nat
        /\ pipe[i].len > 0 => pipe[i].seq >= 1 /\ pipe[i].seq + pipe[i].len <= MaxUp + 1
    <3>1. rnxt \in Nat /\ rnxt <= MaxUp + 2 /\ pipe[i].seq <= MaxUp + 2
      BY InvNumeric DEF NumberInv, Early, SeqsLow, Numeric
    <3>2. /\ pipe[i].seq \in Nat /\ pipe[i].len \in Nat
          /\ pipe[i].len > 0 => pipe[i].seq >= 1 /\ pipe[i].seq + pipe[i].len <= MaxUp + 1
      BY <2>1 DEF GoodUp, UpSegment
    <3> QED
      BY <3>1, <3>2, ConstAssumption
  <2>3. Window + pipe[i].len < Modulus
    BY <2>2, WindowAssumption, WidthAssumption, ConstAssumption
  <2>4. AcceptsExactly(Wrapped(iss, rnxt), Wrapped(iss, pipe[i].seq), pipe[i].len)
    BY <2>2, <2>3, Wraps, WindowCheck
  <2>5. InWindowMod(Wrapped(iss, rnxt), Wrapped(iss, pipe[i].seq), pipe[i].len)
           <=> Acceptable(pipe[i])
    BY <2>2, WindowUnwraps DEF Acceptable, InWindow
  <2> QED
    BY <2>4, <2>5 DEF AcceptsExactly
<1> QED
  BY <1>1, <1>2, <1>3, SessionInvariant, PTL DEF Spec

-----------------------------------------------------------------------------
(* The refinement of StreamProxy.                                          *)

\* What StreamProxy sees of a step that neither end takes.
LEMMA SendFaults ==
  ASSUME NEW seg, Send(seg) PROVE eagain' \in {eagain, TRUE}
BY DEF Send

\* A reset sets errno as its write does, or not at all.
LEMMA ResetFaults ==
  ASSUME NEW closed, NEW p, Reset(closed, p) PROVE eagain' \in {eagain, TRUE}
BY SendFaults DEF Reset, SendNothing

\* The packet that the loop takes puts bytes in hand, the next of the stream, or
\* leaves the hand empty.
LEMMA PollHands ==
  ASSUME Inv, PollClient
  PROVE  /\ eagain' \in {eagain, TRUE}
         /\ \/ rev'.client # "in"
            \/ /\ Packet.len \in Nat /\ Packet.len > 0 /\ state = "ESTABLISHED"
               /\ rnxt + Packet.len <= MaxUp + 1
               /\ cbuf' = [i \in 1..Packet.len |-> rnxt + i - 1]
<1>1. pc = "poll" /\ Read /\ Packet \in GoodUp /\ Packet.len \in Nat
  BY PacketIs DEF PollClient
<1>2. ASSUME NEW e \in {"none", "hup", "err"}, ClientRev(e) PROVE rev'.client # "in"
  BY <1>2 DEF ClientRev
<1>3. CASE RecvNothing(Packet)
  BY <1>2, <1>3 DEF RecvNothing, SendNothing
<1>4. CASE RecvData(Packet) /\ Packet.len > 0 /\ Acceptable(Packet) /\ state = "ESTABLISHED"
  <2>1. eagain' \in {eagain, TRUE} /\ cbuf' = UpBytes(Packet)
    BY <1>4, SendFaults DEF RecvData, SendNothing
  <2>2. Packet.seq = rnxt
    BY <1>1, <1>4, PollStream
  <2>3. rnxt + Packet.len <= MaxUp + 1
    BY <1>1, <1>4, <2>2 DEF GoodUp
  <2>4. UpBytes(Packet) = [i \in 1..Packet.len |-> rnxt + i - 1]
    BY <2>2 DEF UpBytes
  <2> QED
    BY <1>1, <1>4, <2>1, <2>3, <2>4
<1>5. CASE RecvFin(Packet)
  BY <1>2, <1>5, SendFaults DEF RecvFin
<1>6. CASE RecvUnknown(Packet)
  BY <1>2, <1>6, ResetFaults DEF RecvUnknown, Failed, SendNothing
<1>7. CASE RecvClosed(Packet)
  BY <1>2, <1>7, ResetFaults DEF RecvClosed, Failed
<1> QED
  BY <1>3, <1>4, <1>5, <1>6, <1>7 DEF PollClient

\* Every step of the session and of its two ends is one of StreamProxy, or none.
LEMMA StepSimulates ==
  ASSUME Inv, [Next]_vars
  PROVE  [SP!Next]_(SP!vars)
<1> USE DEF SP!Next, SP!vars, SP!upVars, SP!downVars, SP!faultVars
<1>1. Numeric /\ Forwards
  BY InvNumeric, InvForwards
<1>2. (ssent - Len(srv)) = Taking
  BY DEF Taking
<1>3. fwd \o <<>> = fwd
  BY <1>1, ConcatEmptySeq DEF Forwards
<1>4. CASE Client
  <2>1. UNCHANGED <<sessionVars, serverVars>> /\ crcv' \in crcv..Taking
    BY <1>4, ClientActions DEF ClientStep
  <2>2. SP!Receive
    BY <2>1, <1>2 DEF SP!Receive, Phase, sessionVars, serverVars
  <2> QED
    BY <2>2
<1>5. CASE Server
  <2>1. ASSUME ServerSend PROVE UNCHANGED SP!vars
    <3>1. /\ ssent' = ssent + 1 /\ srv' = Append(srv, ssent + 1)
          /\ UNCHANGED <<sessionVars, clientVars, sst>> /\ ssent < MaxDown
      BY <2>1 DEF ServerSend
    <3>2. srv \in Seq(1..MaxDown) /\ ssent + 1 \in 1..MaxDown
      BY <1>1, <3>1, ConstAssumption DEF Inv, TypeOK, Numeric
    <3>3. Len(Append(srv, ssent + 1)) = Len(srv) + 1
      BY <3>2, QueueAppend DEF Appended
    <3>4. Taking' = (ssent + 1) - (Len(srv) + 1)
      BY <3>1, <3>3 DEF Taking
    <3>5. Taking' = Taking
      BY <1>1, <3>4 DEF Taking, Numeric
    <3> QED
      BY <3>1, <3>5 DEF Taking, Phase, sessionVars, clientVars
  <2>2. ASSUME ServerEnds("eof") PROVE UNCHANGED SP!vars
    BY <2>2 DEF ServerEnds, Phase, sessionVars, clientVars
  <2>3. ASSUME ServerEnds("reset") PROVE SP!Lose
    BY <2>3 DEF ServerEnds, Phase, sessionVars, clientVars, SP!Lose
  <2> QED
    BY <1>5, <2>1, <2>2, <2>3 DEF Server
<1>6. ASSUME UNCHANGED <<fwd, clientVars, sst, ssent, srv>>, Hand = <<>>, Hand' = <<>>,
             Phase = "opening", Phase' \in {"opening", "relaying", "ended"},
             eagain' \in {eagain, TRUE}
      PROVE  SP!Open
  BY <1>6 DEF SP!Open, SP!Faults, Hand, clientVars
<1>7. ASSUME UNCHANGED <<fwd, clientVars, sst, ssent, srv>>, Hand = <<>>, Hand' = <<>>,
             Phase = "ended", Phase' = "ended", eagain' \in {eagain, TRUE}
      PROVE  SP!Part
  BY <1>7 DEF SP!Part, SP!Faults, Hand, clientVars
<1>8. ASSUME UNCHANGED <<clientVars, sst>>, Hand' = <<>>,
             fwd' = IF sst = "reset" THEN fwd ELSE fwd \o Hand, Taking' \in Taking..MaxDown,
             Phase = "relaying", Phase' \in {"relaying", "ended"}, eagain' \in {eagain, TRUE}
      PROVE  SP!Turn
  BY <1>8 DEF SP!Turn, SP!HandOver, SP!Faults, Hand, Taking, clientVars
<1>9. CASE ReadFirst
  <2>1. /\ pc = "first" /\ pc' \in {"dial", "over"} /\ eagain' \in {eagain, TRUE}
        /\ UNCHANGED <<fwd, clientVars, sst, ssent, srv>>
    BY <1>9, ResetFaults DEF ReadFirst, SendNothing, serverVars
  <2> QED
    BY <1>6, <2>1 DEF Phase, Hand
<1>10. CASE Dial
  <2>1. /\ pc = "dial" /\ pc' \in {"shake", "over"} /\ eagain' \in {eagain, TRUE}
        /\ UNCHANGED <<fwd, clientVars, sst, ssent, srv>>
    BY <1>10, SendFaults DEF Dial, serverVars
  <2> QED
    BY <1>6, <2>1 DEF Phase, Hand
<1>11. CASE Shake
  <2>1. /\ pc = "shake" /\ pc' \in {"poll", "over"} /\ eagain' \in {eagain, TRUE}
        /\ UNCHANGED <<fwd, clientVars, sst, ssent, srv>>
    BY <1>11, ResetFaults DEF Shake, SendNothing, serverVars
  <2> QED
    BY <1>6, <2>1 DEF Phase, Hand
<1>12. CASE PollClient
  <2>1. /\ pc = "poll" /\ pc' = "relay" /\ eagain' \in {eagain, TRUE}
        /\ UNCHANGED <<fwd, clientVars, sst, ssent, srv>>
    BY <1>12, PollHands DEF PollClient, serverVars
  <2>2. Phase = "relaying" /\ Phase' = "relaying" /\ Hand = <<>> /\ Taking' = Taking
    BY <2>1 DEF Phase, Hand, Taking
  <2>3. CASE rev'.client # "in"
    <3>1. Taking' \in Taking..MaxDown
      BY <1>1, <2>2, ConstAssumption DEF Numeric
    <3>2. Hand' = <<>> /\ fwd' = IF sst = "reset" THEN fwd ELSE fwd \o Hand
      BY <1>3, <2>1, <2>2, <2>3 DEF Hand
    <3> QED
      BY <1>8, <2>1, <2>2, <3>1, <3>2
  <2>4. CASE /\ rev'.client = "in" /\ Packet.len \in Nat /\ Packet.len > 0
             /\ state = "ESTABLISHED" /\ rnxt + Packet.len <= MaxUp + 1
             /\ cbuf' = [i \in 1..Packet.len |-> rnxt + i - 1]
    <3> DEFINE n == Packet.len
    <3>1. Hand' = [i \in 1..n |-> rnxt + i - 1]
      BY <2>1, <2>4 DEF Hand
    <3>2. PICK e : e = <<>>
      OBVIOUS
    <3>3. Counts(fwd, e, rnxt, acked, NoneDropped) /\ Len(e) = 0
      BY <2>1, <2>2, <2>4, <3>2 DEF Inv, ForwardInv, Streaming
    <3>4. /\ rnxt \in Nat /\ rnxt >= 1 /\ Len(fwd) \in Nat
          /\ \A i \in 1..Len(fwd) : fwd[i] < rnxt
          /\ NoneDropped => Len(fwd) = rnxt - 1
      BY <1>1, <3>3 DEF Counts, Forwards, Numeric
    <3>5. /\ \A i \in 1..Len(fwd) : fwd[i] \in Nat
          /\ ~eagain => \A i \in 1..Len(fwd) : fwd[i] = i
          /\ fwd = <<>> <=> Len(fwd) = 0
      <4>1. fwd \in Seq(1..MaxUp)
        BY <1>1 DEF Forwards
      <4>2. \A i \in 1..Len(fwd) : fwd[i] \in 1..MaxUp
        BY <4>1, QueueElements
      <4> QED
        BY <1>1, <4>1, <4>2, EmptySeq, ConstAssumption DEF Forwards, Whole
    <3> DEFINE last == Len(fwd)
    <3>6. SP!First = IF last = 0 THEN 1 ELSE fwd[last] + 1
      BY <3>5 DEF SP!First
    <3>7. SP!First \in Nat /\ SP!First <= rnxt
      <4>1. last # 0 => last \in 1..Len(fwd)
        BY <3>4
      <4>2. last # 0 => fwd[last] \in Nat /\ fwd[last] < rnxt
        BY <3>4, <3>5, <4>1
      <4> HIDE DEF last
      <4> QED
        BY <3>4, <3>6, <4>2
    <3>8. rnxt = SP!First \/ eagain \/ sst = "reset"
      <4>1. CASE NoneDropped
        <5>1. last # 0 => last \in 1..Len(fwd) /\ fwd[last] = last
          BY <3>4, <3>5, <4>1 DEF NoneDropped
        <5>2. last = rnxt - 1 /\ last \in Nat
          BY <3>4, <4>1
        <5> HIDE DEF last
        <5> QED
          BY <3>4, <3>6, <5>1, <5>2
      <4> QED
        BY <4>1 DEF NoneDropped
    <3>9. n \in 1..MaxUp /\ rnxt <= MaxUp - n + 1 /\ MaxUp - n + 1 \in Int
      BY <2>4, <3>4, ConstAssumption
    <3>10. rnxt \in SP!First..(MaxUp - n + 1)
      BY <3>4, <3>7, <3>9
    <3> HIDE DEF n, last
    <3>11. \E b \in SP!First..(MaxUp - n + 1) :
              /\ b = SP!First \/ eagain \/ sst = "reset"
              /\ Hand' = [i \in 1..n |-> b + i - 1]
      BY <3>1, <3>8, <3>10
    <3>12. SP!Take(n)
      <4> HIDE DEF SP!First
      <4> QED
        BY <2>1, <2>2, <3>11 DEF SP!Take, SP!Faults, Hand, Taking, clientVars
    <3> QED
      BY <3>9, <3>12
  <2> QED
    BY <1>12, <2>3, <2>4, PollHands
<1>13. CASE PollServer
  <2>1. /\ pc = "poll" /\ pc' = "relay" /\ rev'.client = "none"
        /\ UNCHANGED <<eagain, fwd, clientVars, sst, ssent, srv>>
    BY <1>13 DEF PollServer, ClientRev, serverVars
  <2> QED
    BY <2>1 DEF Phase, clientVars
<1>14. CASE PollTimeout \/ Stop
  <2>1. /\ pc = "poll" /\ pc' = "close"
        /\ UNCHANGED <<eagain, fwd, clientVars, sst, ssent, srv>>
    BY <1>14 DEF PollTimeout, Stop, serverVars
  <2>2. Hand = <<>> /\ Hand' = <<>> /\ Phase = "relaying" /\ Phase' = "ended"
        /\ Taking' = Taking
    BY <2>1 DEF Hand, Phase, Taking
  <2>3. Taking' \in Taking..MaxDown
    BY <1>1, <2>2, ConstAssumption DEF Numeric
  <2> QED
    BY <1>3, <1>8, <2>1, <2>2, <2>3
<1>15. ASSUME UNCHANGED ssent, UNCHANGED srv \/ TakeAndDrop
      PROVE  Taking' \in Taking..MaxDown
  <2>1. CASE UNCHANGED srv
    <3>1. Taking' = Taking
      BY <1>15, <2>1 DEF Taking
    <3> QED
      BY <1>1, <3>1, ConstAssumption DEF Numeric
  <2> QED
    BY <1>15, <2>1, InvWaiting, Takes DEF TakeAndDrop
<1>16. CASE RelayBreaks
  <2>1. /\ pc = "relay" /\ rev.client # "in" /\ pc' = "close"
        /\ UNCHANGED <<eagain, fwd, clientVars, sst, ssent>>
        /\ UNCHANGED srv \/ TakeAndDrop
    BY <1>16 DEF RelayBreaks
  <2>2. Hand = <<>> /\ Hand' = <<>> /\ Phase = "relaying" /\ Phase' = "ended"
    BY <2>1 DEF Hand, Phase
  <2>3. Taking' \in Taking..MaxDown
    BY <1>15, <2>1
  <2> QED
    BY <1>3, <1>8, <2>1, <2>2, <2>3
<1>17. CASE RelayEnds
  <2>1. /\ pc = "relay" /\ ForwardClient /\ pc' = "close" /\ TakeAndDrop
        /\ UNCHANGED <<eagain, clientVars, sst, ssent>>
    BY <1>17 DEF RelayEnds
  <2>2. Hand' = <<>> /\ Phase = "relaying" /\ Phase' = "ended"
    BY <2>1 DEF Hand, Phase
  <2>3. Taking' \in Taking..MaxDown
    BY <1>15, <2>1
  <2>4. fwd' = IF sst = "reset" THEN fwd ELSE fwd \o Hand
    BY <1>3, <2>1 DEF ForwardClient, Hand
  <2> QED
    BY <1>8, <2>1, <2>2, <2>3, <2>4
<1>18. CASE Relay
  <2>1. /\ pc = "relay" /\ ForwardClient /\ pc' = "poll" /\ eagain' \in {eagain, TRUE}
        /\ UNCHANGED <<clientVars, sst, ssent>>
        /\ UNCHANGED srv \/ TakeAndDrop
    BY <1>18, SendFaults DEF Relay, SendNothing, TakeAndDrop
  <2>2. Hand' = <<>> /\ Phase = "relaying" /\ Phase' = "relaying"
    BY <2>1 DEF Hand, Phase
  <2>3. Taking' \in Taking..MaxDown
    BY <1>15, <2>1
  <2>4. fwd' = IF sst = "reset" THEN fwd ELSE fwd \o Hand
    BY <1>3, <2>1 DEF ForwardClient, Hand
  <2> QED
    BY <1>8, <2>1, <2>2, <2>3, <2>4
<1>19. CASE \/ CloseFin("ESTABLISHED", "FIN_WAIT_1", "fin1")
            \/ CloseFin("CLOSE_WAIT", "LAST_ACK", "last")
            \/ CloseNothing \/ FinWait1 \/ FinWait2 \/ LastAck
  <2>1. /\ pc \in After /\ pc' \in After /\ eagain' \in {eagain, TRUE}
        /\ UNCHANGED <<fwd, clientVars, sst, ssent, srv>>
    BY <1>19, SendFaults
       DEF CloseFin, CloseNothing, FinWait1, FinWait2, LastAck, Finish, SendNothing, After,
           serverVars
  <2> QED
    BY <1>7, <2>1 DEF Phase, Hand, After
<1>20. CASE UNCHANGED vars
  BY <1>20 DEF vars, sessionVars, clientVars, serverVars, Phase
<1> QED
  BY <1>4, <1>5, <1>9, <1>10, <1>11, <1>12, <1>13, <1>14, <1>16, <1>17, <1>18, <1>19, <1>20
     DEF Next, Session

\* The first states are first states of StreamProxy.
LEMMA InitSimulates ==
  ASSUME Init PROVE SP!Init
<1>1. /\ pc = "first" /\ fwd = <<>> /\ sst = "open" /\ eagain = FALSE /\ ssent = 0
      /\ srv = <<>> /\ crcv = 0
  BY DEF Init
<1>2. ssent - Len(srv) = 0
  <2>1. Len(srv) = 0
    BY <1>1
  <2>2. ssent = 0
    BY <1>1
  <2> QED
    BY <2>1, <2>2
<1> QED
  BY <1>1, <1>2 DEF SP!Init, Phase

\* The session, whatever its two ends do, is the proxy that StreamProxy promises:
\* it takes bytes in order, hands over what it took before it takes more and before
\* it ends, and relays nothing outside its loop.
THEOREM SessionImplementsProxy == Spec => ImplementsStreamProxy
<1>1. Inv /\ [Next]_vars => [SP!Next]_(SP!vars)
  BY StepSimulates
<1> QED
  BY InitSimulates, SessionInvariant, <1>1, PTL DEF Spec, ImplementsStreamProxy, SP!Spec
=============================================================================
