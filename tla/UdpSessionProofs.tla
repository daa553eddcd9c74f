--------------------------- MODULE UdpSessionProofs ---------------------------
(***************************************************************************)
(* Proofs about UdpSession for every number of datagrams, every pair of    *)
(* timeouts and every number of descriptors of the process.                *)
(***************************************************************************)
EXTENDS UdpSession, SequenceTheorems, TLAPS

-----------------------------------------------------------------------------
(* Queues of datagrams.                                                    *)

\* A queue that holds the last of the datagrams 1..sent.
Pending(q, sent) ==
    /\ Len(q) <= sent
    /\ \A i \in 1..Len(q) : q[i] = sent - Len(q) + i

Ascending(q) == \A i \in 2..Len(q) : q[i - 1] < q[i]

\* The next datagram is appended to those that wait.
LEMMA PendingAppend ==
  ASSUME NEW m \in Nat, NEW q \in Seq(1..m), NEW sent \in Nat, sent < m, Pending(q, sent)
  PROVE  /\ Append(q, sent + 1) \in Seq(1..m)
         /\ Len(Append(q, sent + 1)) = Len(q) + 1
         /\ Append(q, sent + 1) # <<>>
         /\ Pending(Append(q, sent + 1), sent + 1)
<1>1. sent + 1 \in 1..m
  OBVIOUS
<1> QED
  BY <1>1, AppendProperties DEF Pending

\* The first datagram that waits is taken.
LEMMA PendingTail ==
  ASSUME NEW m \in Nat, NEW q \in Seq(1..m), NEW sent \in Nat, q # <<>>, Pending(q, sent)
  PROVE  /\ Head(q) = sent - Len(q) + 1 /\ Head(q) \in 1..m
         /\ Tail(q) \in Seq(1..m) /\ Len(Tail(q)) = Len(q) - 1
         /\ Len(q) \in Nat \ {0}
         /\ Pending(Tail(q), sent)
<1>1. Len(q) \in Nat \ {0} /\ Head(q) = q[1]
  BY EmptySeq
<1> QED
  BY <1>1, HeadTailProperties DEF Pending

\* r is q with d behind it; if d is later than all before, the order is kept.
Appended(r, q, d) ==
    /\ Len(r) = Len(q) + 1 /\ r[Len(q) + 1] = d
    /\ \A i \in 1..Len(q) : r[i] = q[i]

\* Append is Appended.
LEMMA AppendAppends ==
  ASSUME NEW S, NEW q \in Seq(S), NEW d \in S
  PROVE  Append(q, d) \in Seq(S) /\ Appended(Append(q, d), q, d)
BY AppendProperties DEF Appended

\* A bound, and a weak order, survive an element that is not below them.
LEMMA AppendedBounds ==
  ASSUME NEW r, NEW q, NEW d \in Int, Appended(r, q, d), Len(q) \in Nat,
         \A i \in 1..Len(q) : q[i] \in Int /\ q[i] <= d
  PROVE  /\ \A i \in 1..Len(r) : r[i] <= d
         /\ (\A i \in 2..Len(q) : q[i - 1] <= q[i]) => \A i \in 2..Len(r) : r[i - 1] <= r[i]
<1>1. ASSUME NEW i \in 1..Len(r) PROVE r[i] <= d /\ (i <= Len(q) => r[i] = q[i])
  BY DEF Appended
<1>2. ASSUME NEW i \in 2..Len(r), \A j \in 2..Len(q) : q[j - 1] <= q[j]
      PROVE  r[i - 1] <= r[i]
  BY <1>2 DEF Appended
<1> QED
  BY <1>1, <1>2

\* A strict order survives a later element.
LEMMA AppendedAscends ==
  ASSUME NEW r, NEW q, NEW d \in Int, Appended(r, q, d), Len(q) \in Nat,
         \A i \in 1..Len(q) : q[i] \in Int /\ q[i] < d, Ascending(q)
  PROVE  Ascending(r) /\ \A i \in 1..Len(r) : r[i] <= d
<1>1. ASSUME NEW i \in 1..Len(r) PROVE r[i] <= d /\ (i <= Len(q) => r[i] = q[i])
  BY DEF Appended
<1>2. ASSUME NEW i \in 2..Len(r) PROVE r[i - 1] < r[i]
  <2>1. CASE i <= Len(q)
    BY <1>2, <2>1 DEF Appended, Ascending
  <2>2. CASE i = Len(q) + 1
    BY <1>2, <2>2 DEF Appended
  <2> QED
    BY <2>1, <2>2 DEF Appended
<1> QED
  BY <1>1, <1>2 DEF Ascending

-----------------------------------------------------------------------------
(* The inductive invariant, in parts.                                      *)

\* What the client has sent is forwarded, lost on the way to the server, or the
\* last of it still in the pipe.
UpInv ==
    /\ Pending(pipe, csent)
    /\ Len(pipe) + Len(fwd) <= csent
    /\ \A i \in 1..Len(fwd) : fwd[i] <= csent - Len(pipe)
    /\ Ascending(fwd)
    /\ connected /\ "send" \notin refused =>
          Len(fwd) = csent - Len(pipe) /\ \A i \in 1..Len(fwd) : fwd[i] = i
    /\ pc = "init" => Len(pipe) = csent /\ fwd = <<>> /\ ~connected

\* What the server has sent was taken, the last of it into the buffer, or is still
\* in the socket.
DownInv ==
    /\ Pending(srv, ssent)
    /\ server_buffer <= ssent - Len(srv)
    /\ \A i \in 1..Len(got) : got[i] <= server_buffer
    /\ \A i \in 2..Len(got) : got[i - 1] <= got[i]
    /\ "recv" \notin refused =>
          Ascending(got) /\ \A i \in 1..Len(got) : got[i] > 0

\* What ::poll has reported is still there when it is read.
ReportInv ==
    /\ pc = "client" /\ rev.client => pipe # <<>>
    /\ pc \in {"client", "server"} /\ rev.server = "in" => srv # <<>>

\* The silence is as long as the wait, unless something waits to be polled; and
\* only an answer shortens the timeout.
TimeInv ==
    /\ pc \in {"init", "check", "client", "server"} => waited = 0
    /\ pc = "poll" /\ ~Ready => waited <= quiet
    /\ poll_timeout = Long \/ ssent > 0
    /\ TimesOutQuiet

\* The descriptors that the thread has, by how far it is with closing them, and
\* what the second run of ~SessionSocket may have closed.
Owned(n) ==
    \/ n = Skt /\ (InLoop \/ pc \in {"init", "close"})
    \/ n = PipeR /\ (InLoop \/ pc \in {"init", "close", "remove", "read1"})
    \/ n = PipeW /\ (InLoop \/ pc \in {"init", "close", "remove", "read1", "write1"})
FdInv ==
    /\ \A n \in Numbers : fd[n] = "own" <=> Owned(n)
    /\ stolen # {} => stolen \subseteq {PipeR, PipeW} /\ pc \in {"write2", "socket", "over"}

Inv == TypeOK /\ UpInv /\ DownInv /\ ReportInv /\ TimeInv /\ FdInv

\* The first states satisfy the invariant.
LEMMA InvInit == Init => Inv
<1> SUFFICES ASSUME Init PROVE Inv
  OBVIOUS
<1> USE ConstAssumption DEF Init
<1>1. <<>> \in Seq(1..MaxUp) /\ <<>> \in Seq(1..MaxDown) /\ <<>> \in Seq(0..MaxDown)
  OBVIOUS
<1>2. fd \in [Numbers -> {"own", "other", "free"}]
  OBVIOUS
<1>3. /\ csent \in 0..MaxUp /\ ssent \in 0..MaxDown /\ server_buffer \in 0..MaxDown
      /\ errors \in 0..MaxUp /\ waited \in 0..Long /\ quiet \in 0..Long /\ idle \in -1..Long
  OBVIOUS
<1>4. rev \in [client : BOOLEAN, server : {"none", "in", "err"}]
  OBVIOUS
<1>5. TypeOK
  BY <1>1, <1>2, <1>3, <1>4, Zenon DEF TypeOK
<1>6. UpInv /\ DownInv /\ ReportInv
  BY DEF UpInv, DownInv, ReportInv, Pending, Ascending
<1>7. TimeInv /\ FdInv
  BY DEF TimeInv, TimesOutQuiet, FdInv, Owned, InLoop, Numbers, PipeR, PipeW, Skt
<1> QED
  BY <1>6, <1>7, <1>5 DEF Inv

-----------------------------------------------------------------------------
(* The steps.                                                              *)

\* Every step of client, server, session and process keeps the invariant.
LEMMA InvNext == Inv /\ [Next]_vars => Inv'
<1> SUFFICES ASSUME Inv, [Next]_vars PROVE Inv'
  OBVIOUS
<1> USE ConstAssumption
    DEF Inv, TypeOK, loopVars, clientVars, serverVars, historyVars, fdVars
<1>1. ASSUME ClientSend PROVE Inv'
  <2> USE <1>1 DEF ClientSend
  <2>a. /\ pipe' \in Seq(1..MaxUp) /\ pipe' # <<>> /\ Len(pipe') = Len(pipe) + 1
        /\ Pending(pipe', csent')
    BY PendingAppend, SMTT(30) DEF UpInv
  <2>b. /\ Len(pipe) \in Nat /\ Len(fwd) \in Nat /\ csent' = csent + 1
        /\ csent' - Len(pipe') = csent - Len(pipe)
    BY <2>a, LenProperties
  <2>1. TypeOK'
    BY <2>a DEF TypeOK
  <2>2. UpInv'
    <3>1. Len(pipe') + Len(fwd') <= csent'
      BY <2>a, <2>b DEF UpInv
    <3>2. \A i \in 1..Len(fwd') : fwd'[i] <= csent' - Len(pipe')
      BY <2>a, <2>b DEF UpInv
    <3>3. connected' /\ "send" \notin refused' =>
            Len(fwd') = csent' - Len(pipe') /\ \A i \in 1..Len(fwd') : fwd'[i] = i
      BY <2>a, <2>b DEF UpInv
    <3>4. pc' = "init" => Len(pipe') = csent' /\ fwd' = <<>> /\ ~connected'
      BY <2>a, <2>b DEF UpInv
    <3> QED
      BY <2>a, <3>1, <3>2, <3>3, <3>4 DEF UpInv
  <2>3. ReportInv'
    BY <2>a DEF ReportInv
  <2>4. TimeInv'
    BY <2>a DEF TimeInv, TimesOutQuiet, Ready
  <2> QED
    BY <2>1, <2>2, <2>3, <2>4
       DEF DownInv, FdInv, Owned, InLoop
<1>2. ASSUME ServerSend PROVE Inv'
  <2> USE <1>2 DEF ServerSend
  <2>a. /\ srv' \in Seq(1..MaxDown) /\ srv' # <<>> /\ Len(srv') = Len(srv) + 1
        /\ Pending(srv', ssent')
    BY PendingAppend, SMTT(30) DEF DownInv
  <2>1. TypeOK'
    BY <2>a DEF TypeOK
  <2>2. DownInv'
    BY <2>a DEF DownInv
  <2>3. ReportInv'
    BY <2>a DEF ReportInv
  <2>4. TimeInv'
    BY <2>a DEF TimeInv, TimesOutQuiet, Ready
  <2> QED
    BY <2>1, <2>2, <2>3, <2>4
       DEF UpInv, FdInv, Owned, InLoop
<1>3. ASSUME ServerRefuses PROVE Inv'
  <2> USE <1>3 DEF ServerRefuses
  <2>a. Len(fwd) \in Nat /\ Len(pipe) \in Nat
    BY LenProperties
  <2>1. TypeOK'
    BY <2>a DEF UpInv
  <2>2. TimeInv'
    BY DEF TimeInv, TimesOutQuiet, Ready
  <2> QED
    BY <2>1, <2>2
       DEF UpInv, DownInv, ReportInv, FdInv, Owned, InLoop
<1>4. ASSUME Tick PROVE Inv'
  <2> USE <1>4 DEF Tick, InLoop
  <2>1. TypeOK'
    BY DEF TypeOK
  <2>2. TimeInv'
    BY DEF TimeInv, TimesOutQuiet, Ready
  <2> QED
    BY <2>1, <2>2
       DEF UpInv, DownInv, ReportInv, FdInv, Owned, InLoop
<1>5. ASSUME CloseTunnel PROVE Inv'
  <2> USE <1>5 DEF CloseTunnel
  <2>1. TypeOK'
    BY DEF TypeOK
  <2> QED
    BY <2>1, SMTT(30)
       DEF UpInv, DownInv, ReportInv, TimeInv, TimesOutQuiet, Ready, FdInv, Owned, InLoop
<1>6. ASSUME OtherOpens \/ OtherCloses PROVE Inv'
  <2> USE <1>6 DEF OtherOpens, OtherCloses
  <2>a. PICK n \in Numbers, w \in {"other", "free"} :
               fd[n] # "own" /\ fd' = [fd EXCEPT ![n] = w]
    OBVIOUS
  <2>b. /\ UNCHANGED <<pc, stop_flag, loopVars, clientVars, serverVars, historyVars, quiet>>
        /\ UNCHANGED stolen
    OBVIOUS
  <2> HIDE <1>6 DEF OtherOpens, OtherCloses
  <2>1. TypeOK'
    BY <2>a, <2>b DEF TypeOK
  <2>2. FdInv'
    BY <2>a, <2>b DEF FdInv, Owned, InLoop
  <2> QED
    BY <2>b, <2>1, <2>2
       DEF UpInv, DownInv, ReportInv, TimeInv, TimesOutQuiet, Ready
<1>7. ASSUME Open PROVE Inv'
  <2> USE <1>7 DEF Open
  <2>a. /\ Tail(pipe) \in Seq(1..MaxUp) /\ Len(Tail(pipe)) = Len(pipe) - 1
        /\ Head(pipe) = 1 /\ Len(pipe) = csent /\ Pending(Tail(pipe), csent)
    BY PendingTail, SMTT(30) DEF UpInv
  <2>b. /\ fwd' \in Seq(1..MaxUp) /\ Len(fwd') \in 0..1
        /\ connected' => Len(fwd') = 1
        /\ \A i \in 1..Len(fwd') : fwd'[i] = 1
    <3>1. CASE connected'
      <4>1. fwd' = <<1>> /\ 1 \in 1..MaxUp
        BY <2>a, <3>1
      <4>2. <<1>> \in Seq(1..MaxUp) /\ Len(<<1>>) = 1 /\ <<1>>[1] = 1
        BY <4>1
      <4>3. fwd' \in Seq(1..MaxUp) /\ Len(fwd') = 1 /\ fwd'[1] = 1
        BY <4>1, <4>2, ZenonT(30)
      <4> QED
        BY <4>3
    <3>2. CASE ~connected'
      BY <3>2
    <3> QED
      BY <3>1, <3>2
  <2>1. TypeOK'
    BY <2>a, <2>b DEF TypeOK
  <2>2. UpInv'
    BY <2>a, <2>b DEF UpInv, Ascending
  <2>3. ReportInv'
    BY DEF ReportInv
  <2>4. TimeInv'
    BY DEF TimeInv, TimesOutQuiet, Ready
  <2>5. FdInv'
    BY DEF FdInv, Owned, InLoop
  <2> QED
    BY <2>1, <2>2, <2>3, <2>4, <2>5
       DEF DownInv
<1>8. ASSUME CheckStop PROVE Inv'
  <2> USE <1>8 DEF CheckStop
  <2>1. TypeOK'
    BY DEF TypeOK
  <2>2. UpInv'
    BY DEF UpInv
  <2>3. ReportInv'
    BY DEF ReportInv
  <2>4. TimeInv'
    BY DEF TimeInv, TimesOutQuiet, Ready
  <2>5. FdInv'
    BY DEF FdInv, Owned, InLoop
  <2> QED
    BY <2>1, <2>2, <2>3, <2>4, <2>5
       DEF DownInv
<1>9. ASSUME Poll PROVE Inv'
  <2> USE <1>9 DEF Poll, NewWait
  <2>a. rev' \in [client : BOOLEAN, server : {"none", "in", "err"}]
    <3>1. (pipe # <<>>) \in BOOLEAN
      OBVIOUS
    <3>2. (IF icmp THEN "err" ELSE IF srv # <<>> THEN "in" ELSE "none") \in {"none", "in", "err"}
      OBVIOUS
    <3> QED
      BY <3>1, <3>2, Zenon
  <2>b. /\ pc' = "client" /\ waited' = 0
        /\ UNCHANGED <<stop_flag, poll_timeout, server_buffer, connected, clientVars,
                       serverVars, historyVars, quiet, fdVars>>
    OBVIOUS
  <2>1. TypeOK'
    <3> HIDE <1>9 DEF Poll
    <3> QED
      BY <2>a, <2>b DEF TypeOK
  <2>2. UpInv'
    BY DEF UpInv
  <2>3. ReportInv'
    BY DEF ReportInv
  <2>4. TimeInv'
    BY DEF TimeInv, TimesOutQuiet, Ready
  <2>5. FdInv'
    BY DEF FdInv, Owned, InLoop
  <2> QED
    BY <2>1, <2>2, <2>3, <2>4, <2>5
       DEF DownInv
<1>10. ASSUME PollTimeout PROVE Inv'
  <2> USE <1>10 DEF PollTimeout
  <2>1. TypeOK'
    BY DEF TypeOK
  <2>2. UpInv'
    BY DEF UpInv
  <2>3. ReportInv'
    BY DEF ReportInv
  <2>4. TimeInv'
    BY DEF TimeInv, TimesOutQuiet, Ready
  <2>5. FdInv'
    BY DEF FdInv, Owned, InLoop
  <2> QED
    BY <2>1, <2>2, <2>3, <2>4, <2>5
       DEF DownInv
<1>11. ASSUME PollFails PROVE Inv'
  <2> USE <1>11 DEF PollFails
  <2>1. TypeOK'
    BY DEF TypeOK
  <2>2. UpInv'
    BY DEF UpInv
  <2>3. ReportInv'
    BY DEF ReportInv
  <2>4. TimeInv'
    BY DEF TimeInv, TimesOutQuiet, Ready
  <2>5. FdInv'
    BY DEF FdInv, Owned, InLoop
  <2> QED
    BY <2>1, <2>2, <2>3, <2>4, <2>5
       DEF DownInv
<1>12. ASSUME RelayClient, ~rev.client PROVE Inv'
  <2> USE <1>12 DEF RelayClient, ReadAndSend, SendServer
  <2>1. TypeOK'
    BY DEF TypeOK
  <2>2. UpInv'
    BY DEF UpInv
  <2>3. DownInv'
    BY DEF DownInv
  <2>4. ReportInv'
    BY DEF ReportInv
  <2>5. TimeInv'
    BY DEF TimeInv, TimesOutQuiet, Ready
  <2>6. FdInv'
    BY DEF FdInv, Owned, InLoop
  <2> QED
    BY <2>1, <2>2, <2>3, <2>4, <2>5, <2>6
<1>13. ASSUME RelayClient, rev.client PROVE Inv'
  <2> USE <1>13 DEF RelayClient, ReadAndSend, SendServer
  <2>a. /\ pc = "client" /\ pc' = "server" /\ pipe' = Tail(pipe) /\ icmp' = FALSE
        /\ \/ fwd' = Append(fwd, Head(pipe)) /\ UNCHANGED refused
           \/ fwd' = fwd /\ (~connected \/ "send" \in refused')
        /\ refused' \in {refused, refused \cup {"send"}}
        /\ UNCHANGED <<stop_flag, poll_timeout, waited, rev, server_buffer, connected, csent,
                       srv, ssent, errors, got, idle, quiet, fd, stolen>>
    OBVIOUS
  <2>s. pipe # <<>>
    BY <2>a DEF ReportInv
  <2> HIDE <1>13 DEF RelayClient, ReadAndSend, SendServer
  <2>b. PICK d \in 1..MaxUp :
           /\ d = Head(pipe) /\ d = csent - Len(pipe) + 1
           /\ pipe' \in Seq(1..MaxUp) /\ Len(pipe') = Len(pipe) - 1
           /\ Len(pipe) \in Nat \ {0} /\ Pending(pipe', csent')
    BY <2>a, <2>s, PendingTail DEF UpInv
  <2>t. csent \in 0..MaxUp /\ fwd \in Seq(1..MaxUp) /\ UpInv
    OBVIOUS
  <2>c. /\ Len(fwd) \in Nat /\ \A i \in 1..Len(fwd) : fwd[i] \in 1..MaxUp
        /\ \A i \in 1..Len(fwd) : fwd[i] < d
    <3> HIDE DEF Inv, TypeOK
    <3>1. Len(fwd) \in Nat /\ \A i \in 1..Len(fwd) : fwd[i] \in 1..MaxUp
      BY <2>t, LenProperties, ElementOfSeq
    <3>2. csent - Len(pipe) < d
      BY <2>b, <2>t
    <3> QED
      BY <2>b, <2>t, <3>1, <3>2 DEF UpInv
  <2>d. PICK r \in Seq(1..MaxUp) : r = Append(fwd, d) /\ Appended(r, fwd, d)
    <3> HIDE DEF Inv, TypeOK
    <3> QED
      BY <2>t, AppendAppends
  <2>e. Ascending(r) /\ \A i \in 1..Len(r) : r[i] <= d
    <3> HIDE DEF Inv, TypeOK
    <3> QED
      BY <2>c, <2>d, <2>t, AppendedAscends, SMTT(30) DEF UpInv
  <2>1. TypeOK'
    BY <2>a, <2>b, <2>d DEF TypeOK
  <2>2. UpInv'
    <3> HIDE DEF Inv, TypeOK
    <3>1. CASE fwd' = r /\ UNCHANGED refused
      <4>1. Len(pipe') + Len(fwd') <= csent' /\ Ascending(fwd')
        BY <2>a, <2>b, <2>c, <2>d, <2>e, <2>t, <3>1 DEF UpInv, Appended
      <4>2. \A i \in 1..Len(fwd') : fwd'[i] <= csent' - Len(pipe')
        BY <2>a, <2>b, <2>e, <2>t, <3>1
      <4>3. connected' /\ "send" \notin refused' =>
              Len(fwd') = csent' - Len(pipe') /\ \A i \in 1..Len(fwd') : fwd'[i] = i
        <5>1. SUFFICES ASSUME connected, "send" \notin refused
                       PROVE  Len(r) = d /\ \A i \in 1..d : r[i] = i
          <6>1. csent' - Len(pipe') = d /\ UNCHANGED connected
            BY <2>a, <2>b, <2>t
          <6> QED
            BY <3>1, <6>1
        <5>2. Len(fwd) = d - 1 /\ \A i \in 1..Len(fwd) : fwd[i] = i
          BY <2>b, <2>t, <5>1 DEF UpInv
        <5> QED
          BY <2>c, <2>d, <5>2 DEF Appended
      <4> QED
        BY <2>a, <2>b, <4>1, <4>2, <4>3 DEF UpInv
    <3>2. CASE fwd' = fwd /\ (~connected \/ "send" \in refused')
      BY <2>a, <2>b, <2>c, <2>t, <3>2, SMTT(30) DEF UpInv
    <3> QED
      BY <2>a, <2>b, <2>d, <3>1, <3>2
  <2>3. DownInv'
    BY <2>a DEF DownInv
  <2>4. ReportInv'
    BY <2>a DEF ReportInv
  <2>5. TimeInv'
    BY <2>a DEF TimeInv, TimesOutQuiet
  <2>6. FdInv'
    BY <2>a DEF FdInv, Owned, InLoop
  <2> QED
    BY <2>1, <2>2, <2>3, <2>4, <2>5, <2>6
<1>14. ASSUME BreakOnError PROVE Inv'
  <2> USE <1>14 DEF BreakOnError
  <2>1. TypeOK'
    BY DEF TypeOK
  <2>2. UpInv'
    BY DEF UpInv
  <2>3. ReportInv'
    BY DEF ReportInv
  <2>4. TimeInv'
    BY DEF TimeInv, TimesOutQuiet, Ready
  <2>5. FdInv'
    BY DEF FdInv, Owned, InLoop
  <2> QED
    BY <2>1, <2>2, <2>3, <2>4, <2>5
       DEF DownInv
<1>15. ASSUME RelayServer, rev.server = "none" PROVE Inv'
  <2> USE <1>15 DEF RelayServer, RecvServer, ToClient, ShortenTimeout
  <2>1. TypeOK'
    BY DEF TypeOK
  <2>2. UpInv'
    BY DEF UpInv
  <2>3. DownInv'
    BY DEF DownInv
  <2>4. ReportInv'
    BY DEF ReportInv
  <2>5. TimeInv'
    BY DEF TimeInv, TimesOutQuiet, Ready
  <2>6. FdInv'
    BY DEF FdInv, Owned, InLoop
  <2> QED
    BY <2>1, <2>2, <2>3, <2>4, <2>5, <2>6
<1>16. ASSUME RelayServer, rev.server = "in", icmp PROVE Inv'
  <2> USE <1>16 DEF RelayServer, RecvServer, ToClient, ShortenTimeout
  <2>a. /\ pc = "server" /\ pc' = "check"
        /\ got' \in {got, Append(got, server_buffer)}
        /\ refused' = refused \cup {"recv"} /\ icmp' = FALSE /\ poll_timeout' = Short
        /\ UNCHANGED <<server_buffer, srv, stop_flag, waited, rev, connected, pipe, csent,
                       ssent, errors, fwd, idle, quiet, fd, stolen>>
    OBVIOUS
  <2> HIDE <1>16 DEF RelayServer, RecvServer, ToClient
  <2>b. /\ Append(got, server_buffer) \in Seq(0..MaxDown)
        /\ Len(Append(got, server_buffer)) = Len(got) + 1
        /\ \A i \in 1..Len(got) : Append(got, server_buffer)[i] = got[i]
        /\ Append(got, server_buffer)[Len(got) + 1] = server_buffer
        /\ Len(got) \in Nat
    BY AppendProperties, LenProperties
  <2>c. ssent > 0
    BY <1>16, <2>a, PendingTail DEF DownInv, ReportInv, Pending
  <2>1. TypeOK'
    BY <2>a, <2>b DEF TypeOK
  <2>2. UpInv'
    BY <2>a DEF UpInv
  <2>3. DownInv'
    <3>1. CASE got' = got
      BY <2>a, <3>1 DEF DownInv
    <3>2. CASE got' = Append(got, server_buffer)
      <4>1. \A i \in 1..Len(got') : got'[i] <= server_buffer'
        BY <2>a, <2>b, <3>2, SMTT(30) DEF DownInv
      <4>2. \A i \in 2..Len(got') : got'[i - 1] <= got'[i]
        BY <2>a, <2>b, <3>2 DEF DownInv
      <4> QED
        BY <2>a, <4>1, <4>2 DEF DownInv
    <3> QED
      BY <2>a, <3>1, <3>2
  <2>4. ReportInv'
    BY <2>a DEF ReportInv
  <2>5. TimeInv'
    BY <2>a, <2>c DEF TimeInv, TimesOutQuiet
  <2>6. FdInv'
    BY <2>a DEF FdInv, Owned, InLoop
  <2> QED
    BY <2>1, <2>2, <2>3, <2>4, <2>5, <2>6
<1>17. ASSUME RelayServer, rev.server = "in", ~icmp PROVE Inv'
  <2> USE <1>17 DEF RelayServer, RecvServer, ToClient, ShortenTimeout
  <2>a. /\ pc = "server" /\ pc' = "check"
        /\ server_buffer' = Head(srv) /\ srv' = Tail(srv)
        /\ got' \in {got, Append(got, Head(srv))} /\ poll_timeout' = Short
        /\ UNCHANGED <<refused, icmp, stop_flag, waited, rev, connected, pipe, csent,
                       ssent, errors, fwd, idle, quiet, fd, stolen>>
    OBVIOUS
  <2>s. srv # <<>>
    BY <2>a DEF ReportInv
  <2> HIDE <1>17 DEF RelayServer, RecvServer, ToClient
  <2>b. PICK d \in 1..MaxDown :
           /\ d = Head(srv) /\ d = ssent - Len(srv) + 1
           /\ srv' \in Seq(1..MaxDown) /\ Len(srv') = Len(srv) - 1
           /\ Len(srv) \in Nat \ {0} /\ Len(srv) <= ssent
           /\ Pending(srv', ssent')
    <3>1. ssent' = ssent /\ Pending(srv, ssent)
      BY <2>a DEF DownInv
    <3>2. Len(srv) <= ssent
      BY <3>1 DEF Pending
    <3> QED
      BY <2>a, <2>s, <3>1, <3>2, PendingTail
  <2>t. /\ ssent \in 0..MaxDown /\ server_buffer \in 0..MaxDown /\ got \in Seq(0..MaxDown)
        /\ DownInv
    OBVIOUS
  <2>c. /\ Len(got) \in Nat /\ \A i \in 1..Len(got) : got[i] \in 0..MaxDown
        /\ server_buffer < d /\ \A i \in 1..Len(got) : got[i] < d
    <3> HIDE DEF Inv, TypeOK
    <3>1. Len(got) \in Nat /\ \A i \in 1..Len(got) : got[i] \in 0..MaxDown
      BY <2>t, LenProperties, ElementOfSeq
    <3>2. server_buffer < d
      BY <2>b, <2>t DEF DownInv
    <3> QED
      BY <2>t, <3>1, <3>2 DEF DownInv
  <2>d. PICK r \in Seq(0..MaxDown) : r = Append(got, d) /\ Appended(r, got, d)
    <3>1. d \in 0..MaxDown
      OBVIOUS
    <3> HIDE DEF Inv, TypeOK
    <3> QED
      BY <2>t, <3>1, AppendAppends
  <2>e. got' \in {got, r} /\ server_buffer' = d
    BY <2>a, <2>b, <2>d
  <2>1. TypeOK'
    BY <2>a, <2>b, <2>e, SMTT(30) DEF TypeOK
  <2>2. UpInv'
    BY <2>a DEF UpInv
  <2>3. DownInv'
    <3> HIDE DEF Inv, TypeOK
    <3>1. server_buffer' <= ssent' - Len(srv')
      BY <2>a, <2>b, <2>e, <2>t
    <3>2. /\ \A i \in 1..Len(r) : r[i] <= d
          /\ \A i \in 2..Len(r) : r[i - 1] <= r[i]
      <4>1. \A i \in 1..Len(got) : got[i] \in Int /\ got[i] <= d
        BY <2>c
      <4> QED
        BY <2>c, <2>d, <2>t, <4>1, AppendedBounds, SMTT(30) DEF DownInv
    <3>3. \A i \in 1..Len(got') : got'[i] <= server_buffer'
      BY <2>c, <2>e, <3>2
    <3>4. \A i \in 2..Len(got') : got'[i - 1] <= got'[i]
      BY <2>e, <2>t, <3>2 DEF DownInv
    <3>5. "recv" \notin refused' =>
            Ascending(got') /\ \A i \in 1..Len(got') : got'[i] > 0
      <4>1. CASE got' = got
        BY <2>a, <2>t, <4>1 DEF DownInv
      <4>2. CASE got' = r /\ "recv" \notin refused
        <5>1. Ascending(got) /\ \A i \in 1..Len(got) : got[i] > 0
          BY <2>t, <4>2 DEF DownInv
        <5>2. Ascending(r)
          BY <2>c, <2>d, <5>1, AppendedAscends
        <5> QED
          BY <2>c, <2>d, <4>2, <5>1, <5>2 DEF Appended
      <4> QED
        BY <2>a, <2>e, <4>1, <4>2
    <3> QED
      BY <2>b, <3>1, <3>3, <3>4, <3>5 DEF DownInv
  <2>4. ReportInv'
    BY <2>a DEF ReportInv
  <2>5. TimeInv'
    BY <2>a, <2>b DEF TimeInv, TimesOutQuiet
  <2>6. FdInv'
    BY <2>a DEF FdInv, Owned, InLoop
  <2> QED
    BY <2>1, <2>2, <2>3, <2>4, <2>5, <2>6
<1>18. ASSUME CloseSocket PROVE Inv'
  <2> USE <1>18 DEF CloseSocket, EndStep, Close
  <2>1. TypeOK'
    BY DEF TypeOK, Numbers, PipeR, PipeW, Skt
  <2>2. ReportInv'
    BY DEF ReportInv
  <2>3. TimeInv'
    BY DEF TimeInv, TimesOutQuiet, Ready
  <2>4. FdInv'
    BY DEF FdInv, Owned, InLoop, Numbers, PipeR, PipeW, Skt
  <2> QED
    BY <2>1, <2>2, <2>3, <2>4
       DEF UpInv, DownInv
<1>19. ASSUME Remove PROVE Inv'
  <2> USE <1>19 DEF Remove, EndStep
  <2>1. FdInv'
    BY DEF FdInv, Owned, InLoop
  <2> QED
    BY <2>1
       DEF UpInv, DownInv, ReportInv, TimeInv, TimesOutQuiet, Ready
<1>20. ASSUME ClosePipe PROVE Inv'
  <2> USE <1>20 DEF ClosePipe, EndStep, Close
  <2>a. PICK from \in {"read1", "write1", "read2", "write2"},
               to \in {"write1", "read2", "write2", "socket"}, m \in {PipeR, PipeW} :
               /\ <<from, to, m>> \in
                     {<<"read1", "write1", PipeR>>, <<"write1", "read2", PipeW>>,
                      <<"read2", "write2", PipeR>>, <<"write2", "socket", PipeW>>}
               /\ EndStep(from, to) /\ Close(m)
    OBVIOUS
  <2> HIDE <1>20 DEF ClosePipe
  <2> USE <2>a
  <2>1. TypeOK'
    BY DEF TypeOK, Numbers, PipeR, PipeW, Skt
  <2>2. UpInv'
    BY DEF UpInv
  <2>3. ReportInv'
    BY DEF ReportInv
  <2>4. TimeInv'
    BY DEF TimeInv, TimesOutQuiet, Ready
  <2>5. FdInv'
    BY DEF FdInv, Owned, InLoop, Numbers, PipeR, PipeW, Skt
  <2> QED
    BY <2>1, <2>2, <2>3, <2>4, <2>5
       DEF DownInv
<1>21. ASSUME DeleteSocket PROVE Inv'
  <2> USE <1>21 DEF DeleteSocket, EndStep
  <2>1. FdInv'
    BY DEF FdInv, Owned, InLoop
  <2> QED
    BY <2>1
       DEF UpInv, DownInv, ReportInv, TimeInv, TimesOutQuiet, Ready
<1>22. CASE UNCHANGED vars
  BY <1>22, SMTT(30)
     DEF vars, UpInv, DownInv, ReportInv, TimeInv, TimesOutQuiet, Ready, FdInv, Owned, InLoop
<1>r. RelayServer => rev.server \in {"none", "in"}
  BY DEF RelayServer
<1> HIDE DEF Inv, TypeOK
<1> QED
  BY <1>r, <1>1, <1>2, <1>3, <1>4, <1>5, <1>6, <1>7, <1>8, <1>9, <1>10, <1>11, <1>12, <1>13,
     <1>14, <1>15, <1>16, <1>17, <1>18, <1>19, <1>20, <1>21, <1>22
     DEF Next, Thread

\* The inductive invariant of the session, its two ends and its descriptors holds in every
\* state.
THEOREM SessionInvariant == Spec => []Inv
<1>1. Init => Inv
  BY InvInit
<1>2. Inv /\ [Next]_vars => Inv'
  BY InvNext
<1> QED
  BY <1>1, <1>2, PTL DEF Spec

-----------------------------------------------------------------------------
(* What it implies.                                                        *)

\* Every variable of a session keeps the type of its field.
THEOREM TypeCorrect == Spec => []TypeOK
<1>1. Inv => TypeOK
  BY DEF Inv
<1> QED
  BY <1>1, SessionInvariant, PTL

\* The pipe keeps the client's order, and only an unconnected socket or an ICMP
\* error that send() reports loses a datagram on its way through the loop.
THEOREM UploadOrdered == Spec => []UploadInOrder
<1>1. Inv => UploadInOrder
  BY DEF Inv, UpInv, Ascending, UploadInOrder
<1> QED
  BY <1>1, SessionInvariant, PTL

\* The loop sends its buffer to the client whatever recv() returned, and still the
\* client gets nothing twice but after a recv() that reported an error.
THEOREM DownloadedOnce == Spec => []DownloadOnce
<1>1. Inv => DownloadOnce
  BY DEF Inv, TypeOK, DownInv, Ascending, DownloadOnce
<1> QED
  BY <1>1, SessionInvariant, PTL

\* The wait that ends a session is one of 60 s or of 10 s, and the shorter one comes
\* only after an answer.
THEOREM QuietTimeout == Spec => []TimesOutQuiet
<1>1. Inv => TimesOutQuiet
  BY DEF Inv, TimeInv
<1> QED
  BY <1>1, SessionInvariant, PTL

\* close(), the destructor and the base's destructor between them close what the
\* session opened, and what else they close was a number of its pipe.
THEOREM OwnClosed == Spec => []ClosesOwn
<1>1. Inv => ClosesOwn
  BY DEF Inv, FdInv, ClosesOwn
<1> QED
  BY <1>1, SessionInvariant, PTL

\* No descriptor is left when the session is deleted.
THEOREM NoneLeaks == Spec => []NothingLeaks
<1>1. Inv => NothingLeaks
  BY DEF Inv, FdInv, Owned, InLoop, NothingLeaks
<1> QED
  BY <1>1, SessionInvariant, PTL
=============================================================================
