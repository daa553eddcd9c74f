------------------------ MODULE TunnelLifecycleProofs ------------------------
(***************************************************************************)
(* Proofs about TunnelLifecycle and TunnelSessions for every number of     *)
(* opens and every set of flows.                                           *)
(*                                                                         *)
(* Types and the count of threads are proved for every user and every      *)
(* failure.  The other properties are proved of every behaviour in which   *)
(* opens do not overlap, again for every user and every failure.  The code *)
(* does not prevent overlap: two intents under way start two tunnel threads*)
(* (the run lc_double), and so do two clicks after an open that failed     *)
(* (the button says "Disconnected" before tunnelClosed has cleared the     *)
(* field tunnel).  OneIntentSuffices says that nothing else does.          *)
(***************************************************************************)
EXTENDS TunnelSessions, FiniteSetTheorems, SequenceTheorems, TLAPS

OneIntent == MaxPending = 1
LastMayFail == FailingOpens \subseteq {MaxOpens}

-----------------------------------------------------------------------------
(* The inductive invariant, in parts.                                      *)

\* A connect thread before it has a tunnel thread, and after it has waited for it.
Before == {"none", "establish", "announce", "failed", "native", "open", "promise", "run"}
After == {"close", "zero", "closed", "disconnected", "withdraw", "done"}

\* Opens are numbered as they begin, and do not overlap.
OpenInv ==
    /\ \A k \in Opens : cpc[k] = "none" <=> k > opened
    /\ OpensSerial

\* The tunnel thread lives while open_tunnel waits for it.
ThreadInv ==
    \A k \in Opens :
        /\ cpc[k] \in Before => lpc[k] = "none"
        /\ cpc[k] = "wait" => lpc[k] # "none"
        /\ cpc[k] \in After => ~Running(k)

\* The promise is that of the open which has made it last, and it is set exactly
\* when that open's tunnel thread is done.
PromiseInv ==
    /\ ~thrown
    /\ promise # None /\ future[promise] = "unset" => cpc[promise] \in {"run", "wait"}
    /\ \A k \in Opens :
          /\ future[k] # "broken"
          /\ cpc[k] \in Before => future[k] = "unset"
          /\ cpc[k] \in {"run", "wait"} => promise = k
          /\ cpc[k] = "wait" => (future[k] = "unset" <=> lpc[k] # "done")

\* thread_count counts the one thread between _thread_start and _thread_stop.
Counted(k) == lpc[k] \in {"check", "poll", "stop"}
CountInv == count = IF \E k \in Opens : Counted(k) THEN 1 ELSE 0

\* params::tun holds the descriptor of the open that is under way, from
\* tunnelOpenNative to _tunnel_closed, and the others have none that is open.
TunInv ==
    /\ tun # 0 => cpc[tun] \in {"open", "promise", "run", "wait", "close", "zero"}
    /\ \A k \in Opens :
          /\ cpc[k] \in {"open", "promise", "run", "wait", "close", "zero"} => tun = k
          /\ cpc[k] \in {"none", "establish", "failed"} => fd[k] = "none"
          /\ cpc[k] \in {"announce", "native", "open", "promise", "run", "wait", "close"}
                => fd[k] \in {"open", "dead"}
          /\ cpc[k] \in After \ {"close"} => fd[k] \in {"none", "closed"}

\* "Disconnected" is said when a descriptor is closed, and by a failed open.
IdleInv ==
    state = "DISCONNECTED" =>
        \A k \in Opens : cpc[k] \in {"none", "closed", "disconnected", "withdraw", "done"}

\* Without haste the open under way is alone, and its notification is up.
ForegroundInv ==
    ~hasty => \A k \in Opens :
        /\ k < opened => cpc[k] = "done"
        /\ cpc[k] \notin {"none", "done"} => foreground

\* What holds as long as opens do not overlap.
SerialInv ==
    /\ TypeOK
    /\ OpenInv /\ ThreadInv /\ PromiseInv /\ CountInv /\ TunInv /\ IdleInv
    /\ ForegroundInv

\* The user may ask for a tunnel only when the last open is over: the button says
\* "Disconnected", and a CONNECT that is under way finds it so.  Only a failed
\* open, the last, says so before its end.
IdleOpen(k) ==
    \/ cpc[k] \in {"none", "withdraw", "done"}
    \/ k = MaxOpens /\ cpc[k] \in {"closed", "disconnected"}
ButtonInv ==
    /\ \A k \in Opens : cpc[k] = "failed" => k = MaxOpens
    /\ state = "DISCONNECTED" => \A k \in Opens : IdleOpen(k)
    /\ Len(intents) <= 1
    /\ intents # <<>> => ui = "idle"
    /\ intents # <<>> /\ Head(intents) = "CONNECT" => state = "DISCONNECTED"

Inv == SerialInv /\ ButtonInv

-----------------------------------------------------------------------------
(* The count of threads, and who waits for them.                           *)

\* thread_count counts the threads between _thread_start and _thread_stop, however
\* many they are; who waits for a promise that is not set waits for the present one.
CountedThreads == {k \in Opens : Counted(k)}
WakeInv ==
    /\ \A k \in Opens : k > opened => cpc[k] = "none"
    /\ \A k \in Opens : cpc[k] \in Before => lpc[k] = "none"
    /\ count = Cardinality(CountedThreads)
    /\ \A k \in Opens : cpc[k] \in {"run", "wait"} \/ lpc[k] # "none" => promise # None
    /\ \A k \in Opens : cpc[k] \in {"run", "wait"} /\ future[k] = "unset" => promise = k
    /\ NoLostWakeup

\* Some of the threads are finitely many, and not more than all.
LEMMA CountedType ==
  ASSUME NEW S \in SUBSET Opens
  PROVE  IsFiniteSet(S) /\ Cardinality(S) \in 0..MaxOpens
<1>1. IsFiniteSet(1..MaxOpens) /\ Cardinality(1..MaxOpens) = MaxOpens
  <2>1. 1 \in Int /\ MaxOpens \in Int /\ MaxOpens \in Nat
    BY ConstAssumption
  <2> QED
    BY <2>1, FS_Interval
<1>2. IsFiniteSet(S) /\ Cardinality(S) <= MaxOpens
  BY <1>1, FS_Subset DEF Opens
<1>3. Cardinality(S) \in Nat
  BY <1>2, FS_CardinalityType
<1> QED
  BY <1>2, <1>3, ConstAssumption

\* No thread is counted and none is waited for in the first states.
LEMMA WakeInit == Init => WakeInv
<1> SUFFICES ASSUME Init PROVE WakeInv
  OBVIOUS
<1>1. CountedThreads = {}
  BY DEF Init, CountedThreads, Counted
<1>2. count = Cardinality(CountedThreads)
  BY <1>1, FS_EmptySet DEF Init
<1> QED
  BY <1>2 DEF Init, WakeInv, Before, NoLostWakeup

\* A step that no tunnel thread takes and that makes no promise.
LEMMA WakeStays ==
  ASSUME WakeInv, UNCHANGED <<lpc, count, promise, future>>,
         \A k \in Opens : k > opened' => cpc'[k] = "none",
         \A k \in Opens : cpc'[k] \in {"run", "wait"} => cpc'[k] = cpc[k],
         \A k \in Opens : cpc'[k] \in Before => cpc[k] \in Before
  PROVE  WakeInv'
<1>1. CountedThreads' = CountedThreads
  BY DEF CountedThreads, Counted
<1>2. NoLostWakeup'
  BY DEF WakeInv, NoLostWakeup, Running
<1> QED
  BY <1>1, <1>2 DEF WakeInv

\* A step of a tunnel thread that goes on in its loop, or leaves it to be counted out.
LEMMA WakeLoops ==
  ASSUME TypeOK, WakeInv, NEW k \in Opens, NEW to \in {"check", "poll", "stop"},
         Counted(k), lpc' = [lpc EXCEPT ![k] = to],
         UNCHANGED <<cpc, opened, count, promise, future>>
  PROVE  WakeInv'
<1>1. \A o \in Opens : Counted(o)' <=> Counted(o)
  BY DEF TypeOK, Counted
<1>2. CountedThreads' = CountedThreads
  BY <1>1 DEF CountedThreads
<1>3. \A o \in Opens : /\ Running(o)' <=> Running(o)
                       /\ lpc'[o] = "none" <=> lpc[o] = "none"
  BY DEF TypeOK, Counted, Running
<1>4. NoLostWakeup'
  BY <1>3 DEF WakeInv, NoLostWakeup
<1> QED
  BY <1>2, <1>3, <1>4 DEF WakeInv

\* Every step keeps count and promise, whoever clicks and whatever fails.
LEMMA WakeNext ==
  ASSUME TypeOK, WakeInv, [Next]_vars
  PROVE  WakeInv'
<1>u. ASSUME Click \/ UI PROVE WakeInv'
  <2>1. CASE Connect
    <3>1. /\ opened' = opened + 1 /\ opened' \in Opens /\ opened \in 0..MaxOpens
          /\ UNCHANGED <<lpc, count, promise, future>>
          /\ cpc' = [cpc EXCEPT ![opened'] = "establish"]
      BY <2>1, ConstAssumption DEF Connect, nativeVars, TypeOK, Opens
    <3>2. PICK n \in Opens : n = opened'
      BY <3>1
    <3>3. n = opened + 1 /\ cpc' = [cpc EXCEPT ![n] = "establish"]
      BY <3>1, <3>2
    <3>4. cpc[n] = "none"
      BY <3>1, <3>3, ConstAssumption DEF WakeInv, Opens
    <3>5. \A k \in Opens : k > n => cpc'[k] = "none"
      BY <3>1, <3>3, ConstAssumption DEF WakeInv, Opens, TypeOK
    <3>6. \A k \in Opens : /\ cpc'[k] \in {"run", "wait"} => cpc'[k] = cpc[k]
                           /\ cpc'[k] \in Before => cpc[k] \in Before
      BY <3>3, <3>4 DEF TypeOK, Before
    <3> QED
      BY <3>1, <3>2, <3>5, <3>6, WakeStays
  <2>2. CASE ~Connect
    <3>1. UNCHANGED <<opened, cpc, lpc, count, promise, future>>
      BY <1>u, <2>2 DEF Click, UI, ConnectNot, ConnectInVain, DisconnectNot, Disconnect,
                        Disconnecting, CloseTunnel, nativeVars
    <3>2. \A k \in Opens : k > opened => cpc[k] = "none"
      BY DEF WakeInv
    <3> QED
      BY <3>1, <3>2, WakeStays
  <2> QED
    BY <2>1, <2>2
<1>c. ASSUME NEW k \in Opens, ConnectThread(k) PROVE WakeInv'
  <2>1. opened' = opened /\ cpc[k] # "none"
    BY <1>c DEF ConnectThread, Establish, Announce, Failed, OpenNative, OpenTunnel, NewPromise,
                RunLoops, Wait, CloseTun, ZeroTun, TunnelClosed, Disconnected, Withdraw,
                Step, javaVars
  <2>2. ASSUME NEW to \in After \cup (Before \ {"none", "run"}), Step(k, cpc[k], to),
               to \in Before => cpc[k] \in Before,
               UNCHANGED <<lpc, count, promise, future>>
        PROVE  WakeInv'
    <3>1. /\ \A o \in Opens : o > opened' => cpc'[o] = "none"
          /\ \A o \in Opens : cpc'[o] \in {"run", "wait"} => cpc'[o] = cpc[o]
          /\ \A o \in Opens : cpc'[o] \in Before => cpc[o] \in Before
      BY <2>1, <2>2 DEF WakeInv, TypeOK, Step, Before, After
    <3> QED
      BY <2>2, <3>1, WakeStays
  <2>3. CASE NewPromise(k)
    <3>1. /\ cpc[k] = "promise" /\ cpc' = [cpc EXCEPT ![k] = "run"] /\ promise' = k
          /\ future' = [o \in Opens |->
                 IF o = promise /\ future[o] = "unset" THEN "broken" ELSE future[o]]
          /\ UNCHANGED <<lpc, count, opened>>
      BY <2>3 DEF NewPromise, Step, javaVars
    <3>2. CountedThreads' = CountedThreads
      BY <3>1 DEF CountedThreads, Counted
    <3>3. \A o \in Opens : cpc'[o] \in {"run", "wait"} /\ future'[o] = "unset" => o = k
      BY <3>1 DEF WakeInv, TypeOK
    <3>4. cpc'[k] = "run" /\ \A o \in Opens : o # k => cpc'[o] = cpc[o]
      BY <3>1 DEF TypeOK
    <3>5. NoLostWakeup'
      BY <3>3, <3>4 DEF NoLostWakeup
    <3>6. k # None
      BY ConstAssumption DEF Opens, None
    <3> QED
      BY <2>1, <3>1, <3>2, <3>3, <3>4, <3>5, <3>6 DEF WakeInv, Before
  <2>4. CASE RunLoops(k)
    <3>1. /\ cpc[k] = "run" /\ cpc' = [cpc EXCEPT ![k] = "wait"]
          /\ lpc' = [lpc EXCEPT ![k] = "start"]
          /\ UNCHANGED <<count, promise, future, opened>>
      BY <2>4 DEF RunLoops, Step, javaVars, nativeVars
    <3>2. lpc[k] = "none"
      BY <3>1 DEF WakeInv, Before
    <3>3. \A o \in Opens : Counted(o)' <=> Counted(o)
      BY <3>1, <3>2 DEF Counted, TypeOK
    <3>4. CountedThreads' = CountedThreads
      BY <3>3 DEF CountedThreads
    <3>5. /\ Running(k)' /\ cpc'[k] = "wait"
          /\ \A o \in Opens : o # k => cpc'[o] = cpc[o] /\ lpc'[o] = lpc[o]
      BY <3>1 DEF Running, TypeOK
    <3>6. NoLostWakeup'
      BY <3>5 DEF NoLostWakeup
    <3> QED
      BY <2>1, <3>1, <3>4, <3>5, <3>6 DEF WakeInv, Before
  <2>5. CASE ~NewPromise(k) /\ ~RunLoops(k)
    <3>1. /\ UNCHANGED <<lpc, count, promise, future>>
          /\ \E to \in After \cup (Before \ {"none", "run"}) :
                Step(k, cpc[k], to) /\ (to \in Before => cpc[k] \in Before)
      BY <1>c, <2>5 DEF ConnectThread, Establish, Announce, Failed, OpenNative, OpenTunnel,
                Wait, CloseTun, ZeroTun, TunnelClosed, Disconnected, Withdraw,
                Step, javaVars, nativeVars, After, Before
    <3> QED
      BY <2>2, <3>1
  <2> QED
    BY <2>3, <2>4, <2>5
<1>l. ASSUME NEW k \in Opens, TunnelThread(k) \/ PollFails(k) PROVE WakeInv'
  <2>1. UNCHANGED <<opened, cpc, promise>>
    BY <1>l DEF TunnelThread, ThreadStart, Check, Poll, PollHup, ThreadStop, SetValue,
                PollFails, javaVars, nativeVars
  <2>2. CASE Check(k) \/ Poll(k) \/ PollHup(k) \/ PollFails(k)
    <3>1. /\ Counted(k) /\ UNCHANGED <<count, future>>
          /\ \E to \in {"check", "poll", "stop"} : lpc' = [lpc EXCEPT ![k] = to]
      BY <2>2 DEF Check, CheckStop, Poll, PollHup, PollFails, LoopStep, Counted, nativeVars
    <3> QED
      BY <2>1, <3>1, WakeLoops
  <2>3. CASE ThreadStart(k)
    <3>1. /\ lpc[k] = "start" /\ lpc' = [lpc EXCEPT ![k] = "check"]
          /\ count' = count + 1 /\ UNCHANGED future
      BY <2>3 DEF ThreadStart, LoopStep
    <3>2. /\ k \notin CountedThreads /\ CountedThreads' = CountedThreads \cup {k}
          /\ CountedThreads \in SUBSET Opens
      BY <3>1 DEF CountedThreads, Counted, TypeOK
    <3>3. count' = Cardinality(CountedThreads')
      BY <3>1, <3>2, CountedType, FS_AddElement DEF WakeInv
    <3>4. \A o \in Opens : /\ Running(o)' <=> Running(o)
                           /\ lpc'[o] = "none" <=> lpc[o] = "none"
      BY <3>1 DEF Running, TypeOK
    <3>5. NoLostWakeup'
      BY <2>1, <3>1, <3>4 DEF WakeInv, NoLostWakeup
    <3> QED
      BY <2>1, <3>1, <3>3, <3>4, <3>5 DEF WakeInv
  <2>4. CASE ThreadStop(k)
    <3>1. /\ lpc[k] = "stop" /\ lpc' = [lpc EXCEPT ![k] = IF count = 1 THEN "set" ELSE "done"]
          /\ count' = count - 1 /\ UNCHANGED future
      BY <2>4 DEF ThreadStop, LoopStep
    <3>2. /\ k \in CountedThreads /\ CountedThreads' = CountedThreads \ {k}
          /\ CountedThreads \in SUBSET Opens
      BY <3>1 DEF CountedThreads, Counted, TypeOK
    <3>3. /\ count' = Cardinality(CountedThreads')
          /\ IsFiniteSet(CountedThreads) /\ count = Cardinality(CountedThreads)
      BY <3>1, <3>2, CountedType, FS_RemoveElement DEF WakeInv
    <3>4. \E o \in Opens : Running(o)'
      <4>1. CASE count = 1
        BY <3>1, <4>1 DEF Running, TypeOK
      <4>2. CASE count # 1
        <5>1. CountedThreads # {k}
          BY <3>3, <4>2, FS_Singleton
        <5>2. PICK o \in CountedThreads : o # k
          BY <3>2, <5>1
        <5> QED
          BY <3>1, <5>2 DEF CountedThreads, Counted, Running, TypeOK
      <4> QED
        BY <4>1, <4>2
    <3>5. \A o \in Opens : lpc'[o] = "none" <=> lpc[o] = "none"
      BY <3>1 DEF TypeOK
    <3>6. NoLostWakeup'
      BY <3>4 DEF NoLostWakeup
    <3> QED
      BY <2>1, <3>1, <3>3, <3>5, <3>6 DEF WakeInv
  <2>5. CASE SetValue(k)
    <3>1. /\ lpc[k] = "set" /\ lpc' = [lpc EXCEPT ![k] = "done"] /\ UNCHANGED count
          /\ IF future[promise] = "unset" THEN future' = [future EXCEPT ![promise] = "set"]
             ELSE UNCHANGED future
      BY <2>5 DEF SetValue, LoopStep
    <3>2. \A o \in Opens : Counted(o)' <=> Counted(o)
      BY <3>1 DEF Counted, TypeOK
    <3>3. CountedThreads' = CountedThreads
      BY <3>2 DEF CountedThreads
    <3>4. \A o \in Opens : cpc[o] \in {"run", "wait"} => future'[o] # "unset"
      BY <3>1 DEF WakeInv, TypeOK
    <3>5. \A o \in Opens : lpc'[o] = "none" <=> lpc[o] = "none"
      BY <3>1 DEF TypeOK
    <3>6. NoLostWakeup'
      BY <2>1, <3>4 DEF NoLostWakeup
    <3> QED
      BY <2>1, <3>1, <3>3, <3>4, <3>5, <3>6 DEF WakeInv
  <2> QED
    BY <1>l, <2>2, <2>3, <2>4, <2>5 DEF TunnelThread
<1>r. ASSUME (\E k \in Opens : Revoke(k)) \/ UNCHANGED vars PROVE WakeInv'
  <2>1. UNCHANGED <<opened, cpc, lpc, count, promise, future>>
    BY <1>r DEF Revoke, vars, javaVars, nativeVars
  <2>2. \A k \in Opens : k > opened => cpc[k] = "none"
    BY DEF WakeInv
  <2> QED
    BY <2>1, <2>2, WakeStays
<1> QED
  BY <1>u, <1>c, <1>l, <1>r DEF Next

-----------------------------------------------------------------------------
(* Type correctness.                                                       *)

\* The first states have the types.
LEMMA TypeInit == Init => TypeOK
<1> SUFFICES ASSUME Init PROVE TypeOK
  OBVIOUS
<1> USE ConstAssumption DEF Init, Opens, None
<1>1. intents \in Seq({"CONNECT", "DISCONNECT"})
  OBVIOUS
<1>2. /\ cpc \in [Opens -> {"none", "establish", "announce", "failed", "native", "open",
                          "promise", "run", "wait", "close", "zero", "closed",
                          "disconnected", "withdraw", "done"}]
      /\ lpc \in [Opens -> {"none", "start", "check", "poll", "stop", "set", "done"}]
  OBVIOUS
<1>3. /\ future \in [Opens -> {"unset", "set", "broken"}]
      /\ fd \in [Opens -> {"none", "open", "dead", "closed"}]
  OBVIOUS
<1>4. opened \in 0..MaxOpens /\ count \in 0..MaxOpens /\ tun \in 0..MaxOpens
  OBVIOUS
<1> QED
  BY <1>1, <1>2, <1>3, <1>4, Zenon DEF TypeOK

\* Every step keeps the types, the number of threads being what it counts.
LEMMA TypeNext ==
  ASSUME TypeOK, WakeInv, [Next]_vars
  PROVE  TypeOK'
<1>c. count' \in 0..MaxOpens
  BY WakeNext, CountedType DEF WakeInv, CountedThreads
<1> USE ConstAssumption DEF TypeOK, Opens, None, javaVars, nativeVars
<1>i. intents # <<>> => Tail(intents) \in Seq({"CONNECT", "DISCONNECT"})
  OBVIOUS
<1>1. ASSUME Click PROVE TypeOK'
  <2>1. \A op \in {"CONNECT", "DISCONNECT"} :
            Append(intents, op) \in Seq({"CONNECT", "DISCONNECT"})
    OBVIOUS
  <2> QED
    BY <1>1, <2>1 DEF Click
<1>2. ASSUME ConnectNot PROVE TypeOK'
  BY <1>i, <1>2 DEF ConnectNot, Deliver
<1>3. ASSUME ConnectInVain PROVE TypeOK'
  BY <1>i, <1>3 DEF ConnectInVain, Deliver
<1>4. ASSUME Connect PROVE TypeOK'
  BY <1>i, <1>4 DEF Connect, Deliver
<1>5. ASSUME DisconnectNot PROVE TypeOK'
  BY <1>i, <1>5 DEF DisconnectNot, Deliver
<1>6. ASSUME Disconnect PROVE TypeOK'
  BY <1>i, <1>6 DEF Disconnect, Deliver
<1>7. ASSUME Disconnecting PROVE TypeOK'
  BY <1>7 DEF Disconnecting
<1>8. ASSUME CloseTunnel PROVE TypeOK'
  BY <1>8 DEF CloseTunnel
<1>9. ASSUME NEW k \in Opens, Establish(k) PROVE TypeOK'
  <2>1. CASE tunnel' = TRUE /\ fd' = [fd EXCEPT ![k] = "open"]
    BY <1>9, <2>1 DEF Establish, Step
  <2>2. CASE tunnel' = FALSE /\ UNCHANGED fd
    BY <1>9, <2>2 DEF Establish, Step
  <2> QED
    BY <1>9, <2>1, <2>2 DEF Establish
<1>10. ASSUME NEW k \in Opens, Announce(k) PROVE TypeOK'
  BY <1>10 DEF Announce, Step
<1>11. ASSUME NEW k \in Opens, Failed(k) PROVE TypeOK'
  BY <1>11 DEF Failed, Step
<1>12. ASSUME NEW k \in Opens, OpenNative(k) PROVE TypeOK'
  BY <1>12 DEF OpenNative, Step
<1>13. ASSUME NEW k \in Opens, OpenTunnel(k) PROVE TypeOK'
  BY <1>13 DEF OpenTunnel, Step
<1>14. ASSUME NEW k \in Opens, NewPromise(k) PROVE TypeOK'
  BY <1>14 DEF NewPromise, Step
<1>15. ASSUME NEW k \in Opens, RunLoops(k) PROVE TypeOK'
  BY <1>15 DEF RunLoops, Step
<1>16. ASSUME NEW k \in Opens, Wait(k) PROVE TypeOK'
  BY <1>16 DEF Wait, Step, Ready
<1>17. ASSUME NEW k \in Opens, CloseTun(k) PROVE TypeOK'
  BY <1>17 DEF CloseTun, Step
<1>18. ASSUME NEW k \in Opens, ZeroTun(k) PROVE TypeOK'
  BY <1>18 DEF ZeroTun, Step
<1>19. ASSUME NEW k \in Opens, TunnelClosed(k) PROVE TypeOK'
  BY <1>19 DEF TunnelClosed, Step
<1>20. ASSUME NEW k \in Opens, Disconnected(k) PROVE TypeOK'
  BY <1>20 DEF Disconnected, Step
<1>21. ASSUME NEW k \in Opens, Withdraw(k) PROVE TypeOK'
  BY <1>21 DEF Withdraw, Step
<1>22. ASSUME NEW k \in Opens, ThreadStart(k) PROVE TypeOK'
  BY <1>c, <1>22 DEF ThreadStart, LoopStep
<1>23. ASSUME NEW k \in Opens, Check(k) PROVE TypeOK'
  BY <1>23 DEF Check, CheckStop, LoopStep
<1>24. ASSUME NEW k \in Opens, Poll(k) PROVE TypeOK'
  BY <1>24 DEF Poll, LoopStep
<1>25. ASSUME NEW k \in Opens, PollHup(k) PROVE TypeOK'
  BY <1>25 DEF PollHup, LoopStep
<1>26. ASSUME NEW k \in Opens, ThreadStop(k) PROVE TypeOK'
  BY <1>c, <1>26 DEF ThreadStop, LoopStep
<1>27. ASSUME NEW k \in Opens, SetValue(k) PROVE TypeOK'
  BY <1>27 DEF SetValue, LoopStep
<1>28. ASSUME NEW k \in Opens, PollFails(k) PROVE TypeOK'
  BY <1>28 DEF PollFails, LoopStep
<1>29. ASSUME NEW k \in Opens, Revoke(k) PROVE TypeOK'
  BY <1>29 DEF Revoke
<1>30. CASE UNCHANGED vars
  BY <1>30 DEF vars
<1> QED
  BY <1>1, <1>2, <1>3, <1>4, <1>5, <1>6, <1>7, <1>8, <1>9, <1>10, <1>11, <1>12, <1>13, <1>14,
     <1>15, <1>16, <1>17, <1>18, <1>19, <1>20, <1>21, <1>22, <1>23, <1>24, <1>25, <1>26, <1>27,
     <1>28, <1>29, <1>30
     DEF Next, UI, ConnectThread, TunnelThread

-----------------------------------------------------------------------------
(* What holds for every user and every failure.                            *)

\* Types and count hold in every state, whoever clicks and whatever fails.
THEOREM WakeInvariant == Spec => [](TypeOK /\ WakeInv)
<1>1. Init => TypeOK /\ WakeInv
  BY TypeInit, WakeInit
<1>2. TypeOK /\ WakeInv /\ [Next]_vars => (TypeOK /\ WakeInv)'
  BY TypeNext, WakeNext
<1> QED
  BY <1>1, <1>2, PTL DEF Spec

\* Every variable of the lifecycle keeps its type; thread_count is never negative.
THEOREM TypeCorrect == Spec => []TypeOK
BY WakeInvariant, PTL

\* Whoever waits for the promise waits for a thread that runs, even where two
\* tunnel threads share the counter: the one that _thread_stop finds last sets the
\* promise, and a new promise wakes who waited for the old one.
THEOREM WakeupKept == Spec => []NoLostWakeup
<1>1. WakeInv => NoLostWakeup
  BY DEF WakeInv
<1> QED
  BY <1>1, WakeInvariant, PTL

-----------------------------------------------------------------------------
(* The invariant is inductive.                                             *)

\* The first states satisfy the invariant.
LEMMA InvInit == Init => Inv
<1> SUFFICES ASSUME Init PROVE Inv
  OBVIOUS
<1> USE ConstAssumption DEF Init
<1>1. TypeOK
  BY TypeInit
<1>2. OpenInv /\ ThreadInv /\ TunInv /\ IdleInv /\ ForegroundInv
  BY DEF OpenInv, OpensSerial, ThreadInv, TunInv, IdleInv, ForegroundInv, Opens, Before,
         After, Running
<1>3. PromiseInv /\ CountInv /\ ButtonInv
  BY DEF PromiseInv, CountInv, ButtonInv, IdleOpen, Counted, Opens, Before, None
<1> QED
  BY <1>1, <1>2, <1>3 DEF Inv, SerialInv

\* What an open does beyond its withdrawal, the last open does.
LEMMA Current ==
  ASSUME TypeOK, OpenInv, NEW k \in Opens, cpc[k] \notin {"none", "withdraw", "done"}
  PROVE  k = opened /\ \A o \in Opens : o # k => cpc[o] \in {"none", "withdraw", "done"}
BY ConstAssumption DEF TypeOK, OpenInv, OpensSerial, Opens

\* open_tunnel waits for a tunnel thread that runs, and no other runs.
LEMMA Alone ==
  ASSUME TypeOK, OpenInv, ThreadInv, NEW k \in Opens, Running(k)
  PROVE  cpc[k] = "wait" /\ \A o \in Opens : o # k => ~Running(o)
<1>1. \A o \in Opens : Running(o) => cpc[o] = "wait"
  BY DEF TypeOK, ThreadInv, Running, Before, After
<1> QED
  BY <1>1, Current

\* Every step that lets no two opens overlap keeps the invariant, whoever clicks and
\* whatever fails.
LEMMA SerialNext ==
  ASSUME SerialInv, TypeOK', OpensSerial', [Next]_vars
  PROVE  SerialInv'
<1>t. TypeOK'
  OBVIOUS
<1> USE ConstAssumption
    DEF SerialInv, TypeOK, Opens, None, javaVars, nativeVars, Before, After
<1>1. ASSUME Click PROVE SerialInv'
  <2> USE <1>1 DEF Click
  <2>1. IdleInv'
    BY DEF IdleInv
  <2> QED
    BY <1>t, <2>1
       DEF OpenInv, OpensSerial, ThreadInv, Running, PromiseInv, CountInv, Counted, TunInv,
           ForegroundInv
<1>2. ASSUME ConnectNot PROVE SerialInv'
  <2> USE <1>2 DEF ConnectNot, Deliver
  <2>1. IdleInv'
    BY DEF IdleInv
  <2> QED
    BY <1>t, <2>1
       DEF OpenInv, OpensSerial, ThreadInv, Running, PromiseInv, CountInv, Counted, TunInv,
           ForegroundInv
<1>3. ASSUME ConnectInVain PROVE SerialInv'
  <2> USE <1>3 DEF ConnectInVain, Deliver
  <2>1. IdleInv'
    BY DEF IdleInv
  <2>2. ForegroundInv'
    BY DEF ForegroundInv
  <2> QED
    BY <1>t, <2>1, <2>2
       DEF OpenInv, OpensSerial, ThreadInv, Running, PromiseInv, CountInv, Counted, TunInv
<1>4. ASSUME Connect PROVE SerialInv'
  <2> USE <1>4 DEF Connect, Deliver
  <2>a. /\ opened' = opened + 1 /\ opened + 1 \in Opens /\ cpc[opened + 1] = "none"
        /\ \A k \in Opens : cpc'[k] = IF k = opened + 1 THEN "establish" ELSE cpc[k]
    BY DEF OpenInv
  <2>b. \A k \in Opens : k < opened + 1 => cpc'[k] \in {"withdraw", "done"}
    BY <2>a DEF OpensSerial
  <2>c. /\ opened + 1 \in Opens /\ cpc[opened + 1] = "none"
        /\ \A k \in Opens : cpc[k] \in {"none", "withdraw", "done"}
    BY <2>a, <2>b DEF OpenInv
  <2>1. OpenInv'
    BY <2>a, <2>c DEF OpenInv, OpensSerial
  <2>2. ThreadInv'
    BY <2>a, <2>c DEF ThreadInv, Running
  <2>3. PromiseInv'
    BY <2>a, <2>c DEF PromiseInv
  <2>4. TunInv'
    BY <2>a, <2>c DEF TunInv
  <2>5. IdleInv'
    BY <2>c DEF IdleInv
  <2>6. ForegroundInv'
    BY <2>a, <2>c DEF ForegroundInv, OpenInv, OpensSerial
  <2> QED
    BY <1>t, <2>1, <2>2, <2>3, <2>4, <2>5, <2>6 DEF CountInv, Counted
<1>5. ASSUME DisconnectNot PROVE SerialInv'
  <2> USE <1>5 DEF DisconnectNot, Deliver
  <2>1. IdleInv'
    BY DEF IdleInv
  <2> QED
    BY <1>t, <2>1
       DEF OpenInv, OpensSerial, ThreadInv, Running, PromiseInv, CountInv, Counted, TunInv,
           ForegroundInv
<1>6. ASSUME Disconnect PROVE SerialInv'
  <2> USE <1>6 DEF Disconnect, Deliver
  <2>1. IdleInv'
    BY DEF IdleInv
  <2> QED
    BY <1>t, <2>1
       DEF OpenInv, OpensSerial, ThreadInv, Running, PromiseInv, CountInv, Counted, TunInv,
           ForegroundInv
<1>7. ASSUME Disconnecting PROVE SerialInv'
  <2> USE <1>7 DEF Disconnecting
  <2>1. IdleInv'
    BY DEF IdleInv
  <2> QED
    BY <1>t, <2>1
       DEF OpenInv, OpensSerial, ThreadInv, Running, PromiseInv, CountInv, Counted, TunInv,
           ForegroundInv
<1>8. ASSUME CloseTunnel PROVE SerialInv'
  <2> USE <1>8 DEF CloseTunnel
  <2>1. IdleInv'
    BY DEF IdleInv
  <2> QED
    BY <1>t, <2>1
       DEF OpenInv, OpensSerial, ThreadInv, Running, PromiseInv, CountInv, Counted, TunInv,
           ForegroundInv
<1>9. ASSUME NEW k \in Opens, Establish(k) PROVE SerialInv'
  <2> USE <1>9 DEF Establish, Step
  <2>a. k = opened /\ \A o \in Opens : o # k => cpc[o] \in {"none", "withdraw", "done"}
    BY Current
  <2>1. OpenInv'
    BY <2>a DEF OpenInv, OpensSerial
  <2>2. ThreadInv'
    BY <2>a DEF ThreadInv, Running
  <2>3. PromiseInv'
    BY <2>a DEF PromiseInv
  <2>4. TunInv'
    BY <2>a DEF TunInv
  <2>5. IdleInv'
    BY <2>a DEF IdleInv
  <2>6. ForegroundInv'
    BY <2>a DEF ForegroundInv
  <2> QED
    BY <1>t, <2>1, <2>2, <2>3, <2>4, <2>5, <2>6 DEF CountInv, Counted
<1>10. ASSUME NEW k \in Opens, Announce(k) PROVE SerialInv'
  <2> USE <1>10 DEF Announce, Step
  <2>a. k = opened /\ \A o \in Opens : o # k => cpc[o] \in {"none", "withdraw", "done"}
    BY Current
  <2>1. OpenInv'
    BY <2>a DEF OpenInv, OpensSerial
  <2>2. ThreadInv'
    BY <2>a DEF ThreadInv, Running
  <2>3. PromiseInv'
    BY <2>a DEF PromiseInv
  <2>4. TunInv'
    BY <2>a DEF TunInv
  <2>5. IdleInv'
    BY <2>a DEF IdleInv
  <2>6. ForegroundInv'
    BY <2>a DEF ForegroundInv
  <2> QED
    BY <1>t, <2>1, <2>2, <2>3, <2>4, <2>5, <2>6 DEF CountInv, Counted
<1>11. ASSUME NEW k \in Opens, Failed(k) PROVE SerialInv'
  <2> USE <1>11 DEF Failed, Step
  <2>a. k = opened /\ \A o \in Opens : o # k => cpc[o] \in {"none", "withdraw", "done"}
    BY Current
  <2>1. OpenInv'
    BY <2>a DEF OpenInv, OpensSerial
  <2>2. ThreadInv'
    BY <2>a DEF ThreadInv, Running
  <2>3. PromiseInv'
    BY <2>a DEF PromiseInv
  <2>4. TunInv'
    BY <2>a DEF TunInv
  <2>5. IdleInv'
    BY <2>a DEF IdleInv
  <2>6. ForegroundInv'
    BY <2>a DEF ForegroundInv
  <2> QED
    BY <1>t, <2>1, <2>2, <2>3, <2>4, <2>5, <2>6 DEF CountInv, Counted
<1>12. ASSUME NEW k \in Opens, OpenNative(k) PROVE SerialInv'
  <2> USE <1>12 DEF OpenNative, Step
  <2>a. k = opened /\ \A o \in Opens : o # k => cpc[o] \in {"none", "withdraw", "done"}
    BY Current
  <2>1. OpenInv'
    BY <2>a DEF OpenInv, OpensSerial
  <2>2. ThreadInv'
    BY <2>a DEF ThreadInv, Running
  <2>3. PromiseInv'
    BY <2>a DEF PromiseInv
  <2>4. TunInv'
    BY <2>a DEF TunInv
  <2>5. IdleInv'
    BY <2>a DEF IdleInv
  <2>6. ForegroundInv'
    BY <2>a DEF ForegroundInv
  <2> QED
    BY <1>t, <2>1, <2>2, <2>3, <2>4, <2>5, <2>6 DEF CountInv, Counted
<1>13. ASSUME NEW k \in Opens, OpenTunnel(k) PROVE SerialInv'
  <2> USE <1>13 DEF OpenTunnel, Step
  <2>a. k = opened /\ \A o \in Opens : o # k => cpc[o] \in {"none", "withdraw", "done"}
    BY Current
  <2>1. OpenInv'
    BY <2>a DEF OpenInv, OpensSerial
  <2>2. ThreadInv'
    BY <2>a DEF ThreadInv, Running
  <2>3. PromiseInv'
    BY <2>a DEF PromiseInv
  <2>4. TunInv'
    BY <2>a DEF TunInv
  <2>5. IdleInv'
    BY <2>a DEF IdleInv
  <2>6. ForegroundInv'
    BY <2>a DEF ForegroundInv
  <2> QED
    BY <1>t, <2>1, <2>2, <2>3, <2>4, <2>5, <2>6 DEF CountInv, Counted
<1>14. ASSUME NEW k \in Opens, NewPromise(k) PROVE SerialInv'
  <2> USE <1>14 DEF NewPromise, Step
  <2>a. k = opened /\ \A o \in Opens : o # k => cpc[o] \in {"none", "withdraw", "done"}
    BY Current
  <2>1. OpenInv'
    BY <2>a DEF OpenInv, OpensSerial
  <2>2. ThreadInv'
    BY <2>a DEF ThreadInv, Running
  <2>3. PromiseInv'
    BY <2>a, SMTT(30) DEF PromiseInv
  <2>4. TunInv'
    BY <2>a DEF TunInv
  <2>5. IdleInv'
    BY <2>a DEF IdleInv
  <2>6. ForegroundInv'
    BY <2>a, SMTT(30) DEF ForegroundInv
  <2> QED
    BY <1>t, <2>1, <2>2, <2>3, <2>4, <2>5, <2>6 DEF CountInv, Counted
<1>15. ASSUME NEW k \in Opens, RunLoops(k) PROVE SerialInv'
  <2> USE <1>15 DEF RunLoops, Step
  <2>a. k = opened /\ \A o \in Opens : o # k => cpc[o] \in {"none", "withdraw", "done"}
    BY Current
  <2>1. OpenInv'
    BY <2>a DEF OpenInv, OpensSerial
  <2>2. ThreadInv'
    BY <2>a DEF ThreadInv, Running
  <2>3. PromiseInv'
    BY <2>a DEF PromiseInv, ThreadInv
  <2>4. CountInv'
    <3>1. \A o \in Opens : Counted(o)' <=> Counted(o)
      BY DEF Counted, ThreadInv
    <3> QED
      BY <3>1 DEF CountInv
  <2>5. TunInv'
    BY <2>a DEF TunInv
  <2>6. IdleInv'
    BY <2>a DEF IdleInv
  <2>7. ForegroundInv'
    BY <2>a DEF ForegroundInv
  <2> QED
    BY <1>t, <2>1, <2>2, <2>3, <2>4, <2>5, <2>6, <2>7
<1>16. ASSUME NEW k \in Opens, Wait(k) PROVE SerialInv'
  <2> USE <1>16 DEF Wait, Step, Ready
  <2>a. k = opened /\ \A o \in Opens : o # k => cpc[o] \in {"none", "withdraw", "done"}
    BY Current
  <2>1. OpenInv'
    BY <2>a DEF OpenInv, OpensSerial
  <2>2. ThreadInv'
    BY <2>a DEF ThreadInv, Running, PromiseInv
  <2>3. PromiseInv'
    BY <2>a DEF PromiseInv, ThreadInv, Running
  <2>4. TunInv'
    BY <2>a DEF TunInv
  <2>5. IdleInv'
    BY <2>a DEF IdleInv
  <2>6. ForegroundInv'
    BY <2>a DEF ForegroundInv
  <2> QED
    BY <1>t, <2>1, <2>2, <2>3, <2>4, <2>5, <2>6 DEF CountInv, Counted
<1>17. ASSUME NEW k \in Opens, CloseTun(k) PROVE SerialInv'
  <2> USE <1>17 DEF CloseTun, Step
  <2>a. k = opened /\ \A o \in Opens : o # k => cpc[o] \in {"none", "withdraw", "done"}
    BY Current
  <2>1. OpenInv'
    BY <2>a DEF OpenInv, OpensSerial
  <2>2. ThreadInv'
    BY <2>a DEF ThreadInv, Running
  <2>3. PromiseInv'
    BY <2>a DEF PromiseInv
  <2>4. TunInv'
    BY <2>a DEF TunInv
  <2>5. IdleInv'
    BY <2>a DEF IdleInv
  <2>6. ForegroundInv'
    BY <2>a DEF ForegroundInv
  <2> QED
    BY <1>t, <2>1, <2>2, <2>3, <2>4, <2>5, <2>6 DEF CountInv, Counted
<1>18. ASSUME NEW k \in Opens, ZeroTun(k) PROVE SerialInv'
  <2> USE <1>18 DEF ZeroTun, Step
  <2>a. k = opened /\ \A o \in Opens : o # k => cpc[o] \in {"none", "withdraw", "done"}
    BY Current
  <2>1. OpenInv'
    BY <2>a DEF OpenInv, OpensSerial
  <2>2. ThreadInv'
    BY <2>a DEF ThreadInv, Running
  <2>3. PromiseInv'
    BY <2>a DEF PromiseInv
  <2>4. TunInv'
    BY <2>a DEF TunInv
  <2>5. IdleInv'
    BY <2>a DEF IdleInv
  <2>6. ForegroundInv'
    BY <2>a DEF ForegroundInv
  <2> QED
    BY <1>t, <2>1, <2>2, <2>3, <2>4, <2>5, <2>6 DEF CountInv, Counted
<1>19. ASSUME NEW k \in Opens, TunnelClosed(k) PROVE SerialInv'
  <2> USE <1>19 DEF TunnelClosed, Step
  <2>a. k = opened /\ \A o \in Opens : o # k => cpc[o] \in {"none", "withdraw", "done"}
    BY Current
  <2>1. OpenInv'
    BY <2>a DEF OpenInv, OpensSerial
  <2>2. ThreadInv'
    BY <2>a DEF ThreadInv, Running
  <2>3. PromiseInv'
    BY <2>a DEF PromiseInv
  <2>4. TunInv'
    BY <2>a DEF TunInv
  <2>5. IdleInv'
    BY <2>a DEF IdleInv
  <2>6. ForegroundInv'
    BY <2>a DEF ForegroundInv
  <2> QED
    BY <1>t, <2>1, <2>2, <2>3, <2>4, <2>5, <2>6 DEF CountInv, Counted
<1>20. ASSUME NEW k \in Opens, Disconnected(k) PROVE SerialInv'
  <2> USE <1>20 DEF Disconnected, Step
  <2>a. k = opened /\ \A o \in Opens : o # k => cpc[o] \in {"none", "withdraw", "done"}
    BY Current
  <2>1. OpenInv'
    BY <2>a DEF OpenInv, OpensSerial
  <2>2. ThreadInv'
    BY <2>a DEF ThreadInv, Running
  <2>3. PromiseInv'
    BY <2>a DEF PromiseInv
  <2>4. TunInv'
    BY <2>a DEF TunInv
  <2>5. IdleInv'
    BY <2>a DEF IdleInv
  <2>6. ForegroundInv'
    BY <2>a DEF ForegroundInv
  <2> QED
    BY <1>t, <2>1, <2>2, <2>3, <2>4, <2>5, <2>6 DEF CountInv, Counted
<1>21. ASSUME NEW k \in Opens, Withdraw(k) PROVE SerialInv'
  <2> USE <1>21 DEF Withdraw, Step
  <2>1. OpenInv'
    BY DEF OpenInv, OpensSerial
  <2>2. ThreadInv'
    BY DEF ThreadInv, Running
  <2>3. PromiseInv'
    BY DEF PromiseInv
  <2>4. TunInv'
    BY DEF TunInv
  <2>5. IdleInv'
    BY DEF IdleInv
  <2>6. ForegroundInv'
    BY DEF ForegroundInv, OpenInv, OpensSerial
  <2> QED
    BY <1>t, <2>1, <2>2, <2>3, <2>4, <2>5, <2>6 DEF CountInv, Counted
<1>22. ASSUME NEW k \in Opens, ThreadStart(k) PROVE SerialInv'
  <2> USE <1>22 DEF ThreadStart, LoopStep
  <2>a. cpc[k] = "wait" /\ promise = k /\ \A o \in Opens : o # k => ~Running(o)
    BY Alone DEF Running, PromiseInv
  <2>1. ThreadInv'
    BY <2>a DEF ThreadInv, Running
  <2>2. PromiseInv'
    BY <2>a DEF PromiseInv
  <2>3. CountInv'
    <3>1. \A o \in Opens : ~Counted(o)
      BY <2>a DEF Counted, Running
    <3>2. Counted(k)'
      BY DEF Counted
    <3> QED
      BY <3>1, <3>2 DEF CountInv
  <2> QED
    BY <1>t, <2>1, <2>2, <2>3 DEF OpenInv, OpensSerial, TunInv, IdleInv, ForegroundInv
<1>23. ASSUME NEW k \in Opens, Check(k) PROVE SerialInv'
  <2> USE <1>23 DEF Check, CheckStop, LoopStep
  <2>a. cpc[k] = "wait" /\ promise = k /\ \A o \in Opens : o # k => ~Running(o)
    BY Alone DEF Running, PromiseInv
  <2>1. ThreadInv'
    BY <2>a DEF ThreadInv, Running
  <2>2. PromiseInv'
    BY <2>a DEF PromiseInv
  <2>3. CountInv'
    BY <2>a DEF CountInv, Counted, Running
  <2> QED
    BY <1>t, <2>1, <2>2, <2>3 DEF OpenInv, OpensSerial, TunInv, IdleInv, ForegroundInv
<1>24. ASSUME NEW k \in Opens, Poll(k) PROVE SerialInv'
  <2> USE <1>24 DEF Poll, LoopStep
  <2>a. cpc[k] = "wait" /\ promise = k /\ \A o \in Opens : o # k => ~Running(o)
    BY Alone DEF Running, PromiseInv
  <2>1. ThreadInv'
    BY <2>a DEF ThreadInv, Running
  <2>2. PromiseInv'
    BY <2>a DEF PromiseInv
  <2>3. CountInv'
    BY <2>a DEF CountInv, Counted, Running
  <2> QED
    BY <1>t, <2>1, <2>2, <2>3 DEF OpenInv, OpensSerial, TunInv, IdleInv, ForegroundInv
<1>25. ASSUME NEW k \in Opens, PollHup(k) PROVE SerialInv'
  <2> USE <1>25 DEF PollHup, LoopStep
  <2>a. cpc[k] = "wait" /\ promise = k /\ \A o \in Opens : o # k => ~Running(o)
    BY Alone DEF Running, PromiseInv
  <2>1. ThreadInv'
    BY <2>a DEF ThreadInv, Running
  <2>2. PromiseInv'
    BY <2>a DEF PromiseInv
  <2>3. CountInv'
    BY <2>a DEF CountInv, Counted, Running
  <2> QED
    BY <1>t, <2>1, <2>2, <2>3 DEF OpenInv, OpensSerial, TunInv, IdleInv, ForegroundInv
<1>26. ASSUME NEW k \in Opens, ThreadStop(k) PROVE SerialInv'
  <2> USE <1>26 DEF ThreadStop, LoopStep
  <2>a. cpc[k] = "wait" /\ promise = k /\ \A o \in Opens : o # k => ~Running(o)
    BY Alone DEF Running, PromiseInv
  <2>1. ThreadInv'
    BY <2>a DEF ThreadInv, Running
  <2>2. PromiseInv'
    BY <2>a DEF PromiseInv, CountInv, Counted, Running
  <2>3. CountInv'
    <3>1. Counted(k)
      BY DEF Counted
    <3>2. \A o \in Opens : ~Counted(o)'
      BY <2>a DEF Counted, Running
    <3> QED
      BY <3>1, <3>2 DEF CountInv
  <2> QED
    BY <1>t, <2>1, <2>2, <2>3 DEF OpenInv, OpensSerial, TunInv, IdleInv, ForegroundInv
<1>27. ASSUME NEW k \in Opens, SetValue(k) PROVE SerialInv'
  <2> USE <1>27 DEF SetValue, LoopStep
  <2>a. cpc[k] = "wait" /\ promise = k /\ \A o \in Opens : o # k => ~Running(o)
    BY Alone DEF Running, PromiseInv
  <2>1. ThreadInv'
    BY <2>a DEF ThreadInv, Running
  <2>2. PromiseInv'
    BY <2>a DEF PromiseInv, CountInv, Counted, Running
  <2>3. CountInv'
    BY <2>a DEF CountInv, Counted, Running
  <2> QED
    BY <1>t, <2>1, <2>2, <2>3 DEF OpenInv, OpensSerial, TunInv, IdleInv, ForegroundInv
<1>28. ASSUME NEW k \in Opens, PollFails(k) PROVE SerialInv'
  <2> USE <1>28 DEF PollFails, LoopStep
  <2>a. cpc[k] = "wait" /\ promise = k /\ \A o \in Opens : o # k => ~Running(o)
    BY Alone DEF Running, PromiseInv
  <2>1. ThreadInv'
    BY <2>a DEF ThreadInv, Running
  <2>2. PromiseInv'
    BY <2>a DEF PromiseInv
  <2>3. CountInv'
    BY <2>a DEF CountInv, Counted, Running
  <2> QED
    BY <1>t, <2>1, <2>2, <2>3 DEF OpenInv, OpensSerial, TunInv, IdleInv, ForegroundInv
<1>29. ASSUME NEW k \in Opens, Revoke(k) PROVE SerialInv'
  <2> USE <1>29 DEF Revoke
  <2>1. TunInv'
    BY DEF TunInv
  <2> QED
    BY <1>t, <2>1
       DEF OpenInv, OpensSerial, ThreadInv, Running, PromiseInv, CountInv, Counted, IdleInv,
           ForegroundInv
<1>30. CASE UNCHANGED vars
  BY <1>t, <1>30
     DEF vars, OpenInv, OpensSerial, ThreadInv, PromiseInv, CountInv, TunInv, IdleInv,
         ForegroundInv,
         Running, Counted, IdleOpen
<1> HIDE DEF SerialInv, TypeOK
<1> QED
  BY <1>1, <1>2, <1>3, <1>4, <1>5, <1>6, <1>7, <1>8, <1>9, <1>10, <1>11, <1>12, <1>13, <1>14,
     <1>15, <1>16, <1>17, <1>18, <1>19, <1>20, <1>21, <1>22, <1>23, <1>24, <1>25, <1>26, <1>27,
     <1>28, <1>29, <1>30
     DEF Next, UI, ConnectThread, TunnelThread

\* Where opens do not overlap, service, activity and native threads keep the invariant.
THEOREM SerialInvariant == Spec /\ []OpensSerial => []SerialInv
<1>1. Init => SerialInv
  BY InvInit DEF Inv
<1>2. SerialInv /\ TypeOK' /\ OpensSerial' /\ [Next]_vars => SerialInv'
  BY SerialNext
<1> QED
  BY <1>1, <1>2, TypeCorrect, PTL DEF Spec

-----------------------------------------------------------------------------
(* A user with one intent at a time makes no opens overlap.                *)

\* No two opens overlap after a step of a user who has one intent under way.
LEMMA OneIntentSerial ==
  ASSUME Inv, [Next]_vars
  PROVE  OpensSerial'
<1> USE ConstAssumption DEF Inv, SerialInv, TypeOK, OpenInv, OpensSerial, Opens
<1>1. CASE Connect
  <2>1. \A k \in Opens : cpc[k] \in {"none", "withdraw", "done"}
    BY <1>1 DEF Connect, Deliver, ButtonInv, IdleOpen
  <2>2. opened' = opened + 1 /\ cpc' = [cpc EXCEPT ![opened'] = "establish"]
    BY <1>1 DEF Connect
  <2> QED
    BY <2>1, <2>2
<1>2. ASSUME NEW k \in Opens, ConnectThread(k) PROVE OpensSerial'
  <2>1. opened' = opened /\ cpc[k] \notin {"none", "done"}
    BY <1>2 DEF ConnectThread, Establish, Announce, Failed, OpenNative, OpenTunnel, NewPromise,
                RunLoops, Wait, CloseTun, ZeroTun, TunnelClosed, Disconnected, Withdraw,
                Step, javaVars
  <2>2. cpc[k] = "withdraw" => cpc' = [cpc EXCEPT ![k] = "done"]
    BY <1>2 DEF ConnectThread, Establish, Announce, Failed, OpenNative, OpenTunnel, NewPromise,
                RunLoops, Wait, CloseTun, ZeroTun, TunnelClosed, Disconnected, Withdraw, Step
  <2>3. \A o \in Opens : o # k => cpc'[o] = cpc[o]
    BY <1>2 DEF ConnectThread, Establish, Announce, Failed, OpenNative, OpenTunnel, NewPromise,
                RunLoops, Wait, CloseTun, ZeroTun, TunnelClosed, Disconnected, Withdraw, Step
  <2> QED
    BY <2>1, <2>2, <2>3
<1>3. CASE UNCHANGED <<opened, cpc>>
  BY <1>3
<1>4. ASSUME Next, ~Connect, ~(\E k \in Opens : ConnectThread(k))
      PROVE  UNCHANGED <<opened, cpc>>
  BY <1>4 DEF Next, UI, Click, ConnectNot, ConnectInVain, DisconnectNot, Disconnect,
              Disconnecting, CloseTunnel, TunnelThread, ThreadStart, Check, Poll, PollHup,
              ThreadStop, SetValue, PollFails, Revoke, javaVars, nativeVars
<1> QED
  BY <1>1, <1>2, <1>3, <1>4 DEF vars, javaVars

\* Nothing is behind the only member of a queue.
LEMMA TailOfOne ==
  ASSUME NEW S, NEW q \in Seq(S), q # <<>>, Len(q) <= 1
  PROVE  Tail(q) = <<>>
<1>1. Len(q) = 1
  <2>1. Len(q) \in Nat \ {0}
    BY EmptySeq
  <2> QED
    BY <2>1
<1>2. Tail(q) \in Seq(S) /\ Len(Tail(q)) = 0
  BY <1>1
<1>3. ASSUME Tail(q) # <<>> PROVE FALSE
  <2>1. Len(Tail(q)) \in Nat \ {0}
    BY <1>2, <1>3, EmptySeq
  <2> QED
    BY <1>2, <2>1
<1> QED
  BY <1>3

\* Nor does such a user find the button where it should not be.
LEMMA ButtonNext ==
  ASSUME OneIntent, LastMayFail, Inv, TypeOK', [Next]_vars
  PROVE  ButtonInv'
<1> USE ConstAssumption
    DEF OneIntent, LastMayFail, Inv, SerialInv, TypeOK, Opens, javaVars, nativeVars,
        ButtonInv, IdleOpen
<1>1. ASSUME Click PROVE ButtonInv'
  BY <1>1 DEF Click
<1>2. ASSUME ConnectNot \/ ConnectInVain \/ DisconnectNot PROVE ButtonInv'
  BY <1>2 DEF ConnectNot, ConnectInVain, DisconnectNot, Deliver
<1>3. ASSUME Connect PROVE ButtonInv'
  <2>1. /\ intents' = Tail(intents) /\ intents # <<>> /\ state' = "CONNECTING"
        /\ UNCHANGED ui
        /\ cpc' = [cpc EXCEPT ![opened + 1] = "establish"]
    BY <1>3 DEF Connect, Deliver
  <2>2. intents' = <<>>
    BY <2>1, TailOfOne
  <2> QED
    BY <2>1, <2>2
<1>4. ASSUME Disconnect \/ Disconnecting \/ CloseTunnel PROVE ButtonInv'
  BY <1>4 DEF Disconnect, Disconnecting, CloseTunnel, Deliver
<1>5. ASSUME NEW k \in Opens, ConnectThread(k) PROVE ButtonInv'
  <2>1. CASE cpc[k] = "withdraw"
    BY <1>5, <2>1
       DEF ConnectThread, Establish, Announce, Failed, OpenNative, OpenTunnel, NewPromise,
           RunLoops, Wait, CloseTun, ZeroTun, TunnelClosed, Disconnected, Withdraw, Step
  <2>2. CASE cpc[k] # "withdraw"
    <3>a. k = opened /\ \A o \in Opens : o # k => cpc[o] \in {"none", "withdraw", "done"}
      <4>1. cpc[k] \notin {"none", "withdraw", "done"}
        BY <1>5, <2>2
           DEF ConnectThread, Establish, Announce, Failed, OpenNative, OpenTunnel, NewPromise,
               RunLoops, Wait, CloseTun, ZeroTun, TunnelClosed, Disconnected, Withdraw, Step
      <4> QED
        BY <4>1, Current
    <3>1. CASE Establish(k)
      BY <3>a, <3>1, ZenonT(30) DEF Establish, Step
    <3>2. CASE Announce(k)
      BY <3>a, <3>2 DEF Announce, Step
    <3>3. CASE Failed(k)
      BY <3>a, <3>3 DEF Failed, Step, OpenInv
    <3>4. CASE OpenNative(k)
      BY <3>a, <3>4 DEF OpenNative, Step
    <3>5. CASE OpenTunnel(k)
      BY <3>a, <3>5 DEF OpenTunnel, Step
    <3>6. CASE NewPromise(k)
      BY <3>a, <3>6 DEF NewPromise, Step
    <3>7. CASE RunLoops(k)
      BY <3>a, <3>7 DEF RunLoops, Step
    <3>8. CASE Wait(k)
      BY <3>a, <3>8 DEF Wait, Step
    <3>9. CASE CloseTun(k)
      BY <3>a, <3>9 DEF CloseTun, Step
    <3>10. CASE ZeroTun(k)
      BY <3>a, <3>10 DEF ZeroTun, Step
    <3>11. CASE TunnelClosed(k)
      BY <3>a, <3>11 DEF TunnelClosed, Step
    <3>12. CASE Disconnected(k)
      BY <3>a, <3>12 DEF Disconnected, Step, OpenInv
    <3> QED
      BY <1>5, <2>2, <3>1, <3>2, <3>3, <3>4, <3>5, <3>6, <3>7, <3>8, <3>9, <3>10, <3>11, <3>12
         DEF ConnectThread, Withdraw, Step
  <2> QED
    BY <2>1, <2>2
<1>6. ASSUME NEW k \in Opens, TunnelThread(k) \/ PollFails(k) \/ Revoke(k) PROVE ButtonInv'
  BY <1>6 DEF TunnelThread, ThreadStart, Check, Poll, PollHup, ThreadStop, SetValue, PollFails,
              Revoke
<1>7. CASE UNCHANGED vars
  BY <1>7 DEF vars
<1> QED
  BY <1>1, <1>2, <1>3, <1>4, <1>5, <1>6, <1>7 DEF Next, UI

\* For such a user the whole invariant is inductive, the absence of overlap included.
LEMMA LifecycleInvariant ==
  ASSUME OneIntent, LastMayFail
  PROVE  Spec => []Inv
<1>1. Init => Inv
  BY InvInit
<1>2. Inv /\ TypeOK' /\ [Next]_vars => Inv'
  BY OneIntentSerial, SerialNext, ButtonNext DEF Inv
<1> QED
  BY <1>1, <1>2, TypeCorrect, PTL DEF Spec

\* Opens do not overlap for a user who has one intent under way, if only the last may
\* fail: then the theorems about opens that do not overlap apply.
THEOREM OneIntentSuffices ==
  ASSUME OneIntent, LastMayFail
  PROVE  Spec => []OpensSerial
<1>1. Inv => OpensSerial
  BY DEF Inv, SerialInv, OpenInv
<1> QED
  BY <1>1, LifecycleInvariant, PTL

-----------------------------------------------------------------------------
(* What it implies of the lifecycle.                                       *)

\* What is promised where opens do not overlap.
TunnelSafe ==
    /\ OneTunnelThread /\ DisconnectedIsIdle /\ PromiseSetOnce /\ PollsOwnTun
    /\ ForegroundWhileRunning

\* The invariant is what the promise needs.
LEMMA SerialSafe == SerialInv => TunnelSafe
<1> SUFFICES ASSUME SerialInv PROVE TunnelSafe
  OBVIOUS
<1>1. OneTunnelThread
  BY Alone DEF SerialInv, OneTunnelThread
<1>2. DisconnectedIsIdle
  BY DEF SerialInv, TypeOK, DisconnectedIsIdle, IdleInv, ThreadInv, TunInv, Running,
         Before, After
<1>3. PromiseSetOnce
  BY DEF SerialInv, PromiseInv, PromiseSetOnce
<1>4. PollsOwnTun
  <2> SUFFICES ASSUME NEW k \in Opens, lpc[k] \in {"check", "poll"}
               PROVE  tun = k /\ fd[k] # "closed"
    BY DEF PollsOwnTun
  <2>1. cpc[k] = "wait"
    BY Alone DEF SerialInv, Running
  <2> QED
    BY <2>1 DEF SerialInv, TunInv
<1>5. ForegroundWhileRunning
  <2> SUFFICES ASSUME ~hasty, NEW k \in Opens, Running(k) PROVE foreground
    BY DEF ForegroundWhileRunning
  <2>1. cpc[k] = "wait"
    BY Alone DEF SerialInv
  <2> QED
    BY <2>1 DEF SerialInv, ForegroundInv
<1> QED
  BY <1>1, <1>2, <1>3, <1>4, <1>5 DEF TunnelSafe

\* Overlapping opens are the only cause of what the run lc_double shows: a connect()
\* that waited for the end of the open before would keep all of this, for any number of
\* intents under way and whatever fails.
THEOREM SerialOpensSuffice == Spec /\ []OpensSerial => []TunnelSafe
BY SerialInvariant, SerialSafe, PTL

\* Where opens do not overlap, one tunnel thread at a time calls protect_socket and the
\* managers: open_tunnel does not return, and the service is not DISCONNECTED, before
\* _tunnel_closed has waited for the thread.
THEOREM OneThread == Spec /\ []OpensSerial => []OneTunnelThread
<1>1. TunnelSafe => OneTunnelThread
  BY DEF TunnelSafe
<1> QED
  BY <1>1, SerialOpensSuffice, PTL

\* There, "Disconnected" is said when the thread is done, the descriptor closed and
\* open_tunnel has returned.
THEOREM IdleWhenDisconnected == Spec /\ []OpensSerial => []DisconnectedIsIdle
<1>1. TunnelSafe => DisconnectedIsIdle
  BY DEF TunnelSafe
<1> QED
  BY <1>1, SerialOpensSuffice, PTL

\* There, params::tunnel_promise, of which there is one for all opens, is set by the
\* thread of the open that waits for it and is never replaced before that.
THEOREM PromiseKept == Spec /\ []OpensSerial => []PromiseSetOnce
<1>1. TunnelSafe => PromiseSetOnce
  BY DEF TunnelSafe
<1> QED
  BY <1>1, SerialOpensSuffice, PTL

\* There, the tunnel thread polls the descriptor of its own open, and open_tunnel closes
\* that only after the thread is done.
THEOREM OwnTunPolled == Spec /\ []OpensSerial => []PollsOwnTun
<1>1. TunnelSafe => PollsOwnTun
  BY DEF TunnelSafe
<1> QED
  BY <1>1, SerialOpensSuffice, PTL

\* There, the notification of a tunnel that was not asked for in haste is up as long as
\* its thread runs.
THEOREM ForegroundKept == Spec /\ []OpensSerial => []ForegroundWhileRunning
<1>1. TunnelSafe => ForegroundWhileRunning
  BY DEF TunnelSafe
<1> QED
  BY <1>1, SerialOpensSuffice, PTL

-----------------------------------------------------------------------------
(* The lifecycle with its sessions.                                        *)

\* A packet for a session is one that the tunnel thread polled, and what session
\* threads do the lifecycle does not see.
LEMMA SessionsStep == [NextSessions]_allVars => [Next]_vars
<1>1. ASSUME NEW k \in Opens, NEW f \in Flows, PacketIn(k, f) PROVE Next
  <2>1. Poll(k)
    BY <1>1 DEF PacketIn, Poll
  <2> QED
    BY <2>1 DEF Next, TunnelThread
<1>2. ASSUME NEW f \in Flows, SessionThread(f) \/ LoopEnds(f) \/ LoopReads(f)
      PROVE  UNCHANGED vars
  BY <1>2 DEF SessionThread, ReadFirst, Dial, Shake, LoopStops, CloseRead, LoopEnds,
              LoopReads, Goes
<1>3. ASSUME UNCHANGED allVars PROVE UNCHANGED vars
  BY <1>3 DEF allVars
<1> QED
  BY <1>1, <1>2, <1>3 DEF NextSessions

\* Sessions that outlive the tunnel, start with it and share its descriptor and its
\* flag leave its lifecycle as it is.
THEOREM SessionsImplementLifecycle == SpecSessions => Spec
<1>1. InitSessions => Init
  BY DEF InitSessions
<1> QED
  BY <1>1, SessionsStep, PTL DEF SpecSessions, Spec

\* A session was started for an open that had a tunnel thread.
BornInv == \A f \in Flows : Alive(f) => born[f] \in Opens /\ lpc[born[f]] # "none"

SessionsType ==
    /\ where \in [Flows -> {"none", "first", "dial", "shake", "loop", "close"}]
    /\ inbox \in [Flows -> BOOLEAN] /\ born \in [Flows -> 0..MaxOpens]

SessionsInv == SessionsType /\ BornInv

\* No session was started in the first states.
LEMMA SessionsInit == InitSessions => SessionsInv
BY ConstAssumption DEF InitSessions, SessionsInv, SessionsType, BornInv, Alive, None

\* What a session thread does: it goes on or ends, and its pipe is one packet
\* shorter or not.
LEMMA SessionThreadStep ==
  ASSUME NEW f \in Flows, SessionThread(f) \/ LoopEnds(f) \/ LoopReads(f), SessionsType
  PROVE  SessionsType' /\ (BornInv => BornInv')
<1> USE ConstAssumption DEF SessionsType
<1>1. inbox' \in [Flows -> BOOLEAN]
  BY DEF SessionThread, ReadFirst, Dial, Shake, LoopStops, CloseRead, LoopEnds, LoopReads,
         Read, NoRead, ReadAndEnd
<1>2. \/ \E from \in {"first", "dial", "shake", "loop", "close"},
            to \in {"none", "dial", "shake", "loop", "close"} : Goes(f, from, to)
      \/ UNCHANGED <<vars, where, born>>
  BY DEF SessionThread, ReadFirst, Dial, Shake, LoopStops, CloseRead, LoopEnds, LoopReads,
         AfterLoop
<1>3. CASE UNCHANGED <<vars, where, born>>
  BY <1>1, <1>3 DEF BornInv, Alive, vars
<1>4. ASSUME NEW from \in {"first", "dial", "shake", "loop", "close"},
             NEW to \in {"none", "dial", "shake", "loop", "close"}, Goes(f, from, to)
      PROVE  SessionsType' /\ (BornInv => BornInv')
  BY <1>1, <1>4 DEF Goes, BornInv, Alive, vars, None
<1> QED
  BY <1>2, <1>3, <1>4

\* Every step of the composition keeps the types of the sessions, whose open is one
\* that has a descriptor.
LEMMA SessionsTypeNext ==
  ASSUME TypeOK, SessionsType, [NextSessions]_allVars
  PROVE  SessionsType'
<1>1. ASSUME UNCHANGED sessionVars PROVE SessionsType'
  BY <1>1 DEF sessionVars, SessionsType
<1>2. ASSUME NEW k \in Opens, NEW f \in Flows, PacketIn(k, f) PROVE SessionsType'
  BY <1>2, ConstAssumption DEF PacketIn, Opens, SessionsType
<1>3. ASSUME NEW f \in Flows, SessionThread(f) \/ LoopEnds(f) \/ LoopReads(f)
      PROVE  SessionsType'
  BY <1>3, SessionThreadStep
<1> QED
  BY <1>1, <1>2, <1>3 DEF NextSessions, allVars

\* Every variable of the lifecycle and of its sessions keeps its type.
THEOREM SessionsTypeCorrect == SpecSessions => []TypeOKSessions
<1>1. InitSessions => SessionsType
  BY SessionsInit DEF SessionsInv
<1>2. TypeOK /\ SessionsType /\ [NextSessions]_allVars => SessionsType'
  BY SessionsTypeNext
<1>3. TypeOK /\ SessionsType => TypeOKSessions
  BY DEF SessionsType, TypeOKSessions
<1> QED
  BY <1>1, <1>2, <1>3, TypeCorrect, SessionsImplementLifecycle, PTL DEF SpecSessions

\* Every step of the composition keeps what is known of the sessions.
LEMMA SessionsNext ==
  ASSUME SerialInv, SessionsInv, [NextSessions]_allVars
  PROVE  SessionsInv'
<1>a. ASSUME NEW k \in Opens, lpc[k] # "none", [Next]_vars PROVE lpc'[k] # "none"
  <2> USE <1>a DEF SerialInv, TypeOK, ThreadInv, Before, Step, LoopStep, javaVars, nativeVars, vars
  <2>1. ASSUME NEW o \in Opens, ConnectThread(o) PROVE lpc'[k] # "none"
    BY <2>1 DEF ConnectThread, Establish, Announce, Failed, OpenNative, OpenTunnel,
       NewPromise, RunLoops, Wait, CloseTun, ZeroTun, TunnelClosed, Disconnected, Withdraw
  <2>2. ASSUME NEW o \in Opens, TunnelThread(o) \/ PollFails(o) \/ Revoke(o)
        PROVE  lpc'[k] # "none"
    BY <2>2 DEF TunnelThread, ThreadStart, Check, CheckStop, Poll, PollHup, ThreadStop,
       SetValue, PollFails, Revoke
  <2>3. ASSUME Click \/ UI \/ UNCHANGED vars PROVE lpc'[k] # "none"
    BY <2>3 DEF Click, UI, ConnectNot, ConnectInVain, Connect, DisconnectNot, Disconnect,
       Disconnecting, CloseTunnel
  <2> QED
    BY <2>1, <2>2, <2>3 DEF Next
<1>b. \A k \in Opens : lpc[k] # "none" => lpc'[k] # "none"
  BY <1>a, SessionsStep
<1>t. SessionsType'
  BY SessionsTypeNext DEF SerialInv, SessionsInv
<1> USE DEF SessionsInv
<1>1. ASSUME UNCHANGED sessionVars PROVE SessionsInv'
  BY <1>b, <1>t, <1>1 DEF sessionVars, BornInv, Alive
<1>2. ASSUME NEW k \in Opens, NEW f \in Flows, PacketIn(k, f) PROVE SessionsInv'
  <2>1. tun = k /\ lpc[k] # "none"
    <3>1. cpc[k] = "wait"
      BY <1>2, Alone DEF SerialInv, PacketIn, LoopStep, Running
    <3> QED
      BY <1>2, <3>1 DEF SerialInv, TunInv, PacketIn, LoopStep
  <2>2. BornInv'
    BY <1>b, <1>2, <2>1 DEF PacketIn, BornInv, Alive, SessionsType
  <2> QED
    BY <1>t, <2>2
<1>3. ASSUME NEW f \in Flows, SessionThread(f) \/ LoopEnds(f) \/ LoopReads(f)
      PROVE  SessionsInv'
  BY <1>3, SessionThreadStep
<1> QED
  BY <1>1, <1>2, <1>3 DEF NextSessions, allVars

\* In the composition both invariants hold: the lifecycle's, and that of the sessions that
\* its tunnel threads start.
THEOREM SessionsInvariant == SpecSessions /\ []OpensSerial => [](SerialInv /\ SessionsInv)
<1>1. InitSessions => SessionsInv
  BY SessionsInit
<1>2. SerialInv /\ SessionsInv /\ [NextSessions]_allVars => SessionsInv'
  BY SessionsNext
<1> QED
  BY <1>1, <1>2, SerialInvariant, SessionsImplementLifecycle, PTL DEF SpecSessions

\* A session thread that outlives its tunnel is harmless to the next one, as long as opens
\* do not overlap: it never writes to another open's device while its own is open, nor to
\* a closed number but between close() and the assignment in _tunnel_closed.
THEOREM LateSessionsSafe == SpecSessions /\ []OpensSerial => []WritesToOwnTun
<1>1. SerialInv /\ SessionsInv => WritesToOwnTun
  <2> SUFFICES ASSUME SerialInv, SessionsInv, NEW f \in Flows, Alive(f)
               PROVE  /\ fd[born[f]] \in {"open", "dead"} => tun = born[f]
                      /\ tun \in Opens /\ fd[tun] = "closed" => \E k \in Opens : cpc[k] = "zero"
    BY DEF WritesToOwnTun
  <2>1. ASSUME fd[born[f]] \in {"open", "dead"} PROVE tun = born[f]
    <3>1. born[f] \in Opens /\ lpc[born[f]] # "none"
      BY DEF SessionsInv, BornInv
    <3>2. cpc[born[f]] \in {"wait", "close"}
      BY <2>1, <3>1 DEF SerialInv, TypeOK, ThreadInv, TunInv, Before, After
    <3> QED
      BY <2>1, <3>1, <3>2 DEF SerialInv, TunInv
  <2>2. ASSUME tun \in Opens, fd[tun] = "closed" PROVE \E k \in Opens : cpc[k] = "zero"
    BY <2>2, ConstAssumption DEF SerialInv, TunInv, Opens, After
  <2> QED
    BY <2>1, <2>2
<1> QED
  BY <1>1, SessionsInvariant, PTL
=============================================================================
