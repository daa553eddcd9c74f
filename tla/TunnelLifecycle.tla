---------------------------- MODULE TunnelLifecycle ----------------------------
(***************************************************************************)
(* How the tunnel is opened and closed: the button, the service's intents, *)
(* the thread that the service starts for each CONNECT and that waits in   *)
(* open_tunnel, and the detached tunnel thread that open_tunnel starts.    *)
(*                                                                         *)
(* The UI thread runs the button's listener and onStartCommand, one at a   *)
(* time; an intent is delivered some time after the click.  The other      *)
(* threads run at any time, and share with it TunModeService.state, the    *)
(* field tunnel and the native params without a lock.                      *)
(***************************************************************************)
EXTENDS Naturals, Sequences

CONSTANTS
    MaxOpens,        \* bound: CONNECT intents that start a thread
    MaxPending,      \* intents that the user can have under way
    FailingOpens     \* opens for which Builder.establish may return null

ASSUME ConstAssumption ==
    /\ MaxOpens \in Nat /\ MaxPending \in Nat \ {0}
    /\ FailingOpens \subseteq 1..MaxOpens

\* A connect thread, its TUN descriptor, its promise and its tunnel thread all
\* have the number of the CONNECT.
Opens == 1..MaxOpens
None == 0

VARIABLES
    state,     \* TunModeService.state
    tunnel,    \* TunModeService.tunnel is not null
    intents,   \* intents sent and not delivered
    ui,        \* where the UI thread is
    foreground,\* the service is in the foreground, with its notification
    hasty,     \* history: the last CONNECT was taken before the end of the one before
    opened,    \* connect threads started
    cpc,       \* per open: where the connect thread is
    lpc,       \* per open: where the tunnel thread is
    stop_flag, \* params::stop_flag
    count,     \* params::thread_count
    promise,   \* params::tunnel_promise: which open's, or None
    future,    \* per open: its future is "unset", "set" or "broken"
    tun,       \* params::tun
    fd,        \* per open: its TUN descriptor is "none", "open", "dead", "closed"
    thrown     \* set_value threw, as the promise was set: the process would end

javaVars == <<state, tunnel, intents, ui, opened, foreground, hasty>>
nativeVars == <<stop_flag, count, promise, future, tun, fd, thrown>>
vars == <<javaVars, cpc, lpc, nativeVars>>

Init ==
    /\ state = "DISCONNECTED" /\ tunnel = FALSE
    /\ intents = <<>> /\ ui = "idle" /\ opened = 0
    /\ foreground = FALSE /\ hasty = FALSE
    /\ cpc = [k \in Opens |-> "none"] /\ lpc = [k \in Opens |-> "none"]
    /\ stop_flag = FALSE /\ count = 0
    /\ promise = None /\ future = [k \in Opens |-> "unset"]
    /\ tun = 0 /\ fd = [k \in Opens |-> "none"]
    /\ thrown = FALSE

-----------------------------------------------------------------------------
(* The UI thread.                                                          *)

\* The button asks for what the state is not; else it says "Try Again".
Click ==
    /\ ui = "idle" /\ Len(intents) < MaxPending
    /\ \/ state = "CONNECTED" /\ intents' = Append(intents, "DISCONNECT")
       \/ state = "DISCONNECTED" /\ intents' = Append(intents, "CONNECT")
    /\ UNCHANGED <<state, tunnel, ui, opened, foreground, hasty, cpc, lpc, nativeVars>>

\* onStartCommand takes an intent.
Deliver(op) ==
    /\ ui = "idle" /\ intents # <<>> /\ Head(intents) = op
    /\ intents' = Tail(intents)

\* No permission: the user is asked for it.
ConnectNot ==
    /\ Deliver("CONNECT")
    /\ UNCHANGED <<state, tunnel, ui, opened, foreground, hasty, cpc, lpc, nativeVars>>

\* startForeground, and then connect(), which finds a tunnel or no network.
ConnectInVain ==
    /\ Deliver("CONNECT")
    /\ foreground' = TRUE
    /\ UNCHANGED <<state, tunnel, ui, opened, hasty, cpc, lpc, nativeVars>>

\* Or which starts a thread.
ConnectUnseen ==                              \* mutant: no startForeground
    /\ Deliver("CONNECT")
    /\ ~tunnel /\ opened < MaxOpens
    /\ state' = "CONNECTING"
    /\ opened' = opened + 1
    /\ cpc' = [cpc EXCEPT ![opened'] = "establish"]
    /\ UNCHANGED <<tunnel, ui, foreground, hasty, lpc, nativeVars>>
Connect ==
    /\ Deliver("CONNECT")
    /\ ~tunnel /\ opened < MaxOpens
    /\ foreground' = TRUE
    /\ state' = "CONNECTING"
    /\ opened' = opened + 1
    /\ cpc' = [cpc EXCEPT ![opened'] = "establish"]
    /\ hasty' = \E o \in 1..opened : cpc[o] # "done"
    /\ UNCHANGED <<tunnel, ui, lpc, nativeVars>>

\* disconnect(): test, setState, tunnelCloseNative.
DisconnectNot ==
    /\ Deliver("DISCONNECT") /\ ~tunnel
    /\ UNCHANGED <<state, tunnel, ui, opened, foreground, hasty, cpc, lpc, nativeVars>>
Disconnect ==
    /\ Deliver("DISCONNECT") /\ tunnel
    /\ ui' = "disconnecting"
    /\ UNCHANGED <<state, tunnel, opened, foreground, hasty, cpc, lpc, nativeVars>>
Disconnecting ==
    /\ ui = "disconnecting"
    /\ state' = "DISCONNECTING" /\ ui' = "close_native"
    /\ UNCHANGED <<tunnel, intents, opened, foreground, hasty, cpc, lpc, nativeVars>>
CloseTunnel ==
    /\ ui = "close_native"
    /\ stop_flag' = TRUE /\ ui' = "idle"
    /\ UNCHANGED <<state, tunnel, intents, opened, foreground, hasty, cpc, lpc, count,
                   promise, future, tun, fd, thrown>>

-----------------------------------------------------------------------------
(* A connect thread.                                                       *)

Step(k, from, to) == cpc[k] = from /\ cpc' = [cpc EXCEPT ![k] = to]

Establish(k) ==
    /\ \/ /\ Step(k, "establish", "announce")
          /\ tunnel' = TRUE /\ fd' = [fd EXCEPT ![k] = "open"]
       \/ /\ k \in FailingOpens /\ Step(k, "establish", "failed")
          /\ tunnel' = FALSE /\ UNCHANGED fd
    /\ UNCHANGED <<state, intents, ui, opened, foreground, hasty, lpc, stop_flag, count,
                   promise, future, tun, thrown>>

Announce(k) ==
    /\ Step(k, "announce", "native")
    /\ state' = "CONNECTED"
    /\ UNCHANGED <<tunnel, intents, ui, opened, foreground, hasty, lpc, nativeVars>>

Failed(k) ==
    /\ Step(k, "failed", "closed")
    /\ state' = "DISCONNECTED"
    /\ UNCHANGED <<tunnel, intents, ui, opened, foreground, hasty, lpc, nativeVars>>

\* tunnelOpenNative: the TUN descriptor, detached from its Java object.
OpenNative(k) ==
    /\ Step(k, "native", "open")
    /\ tun' = k
    /\ UNCHANGED <<javaVars, lpc, stop_flag, count, promise, future, fd, thrown>>

\* open_tunnel: the flag, then a new promise, which breaks one that is not set.
OpenTunnel(k) ==
    /\ Step(k, "open", "promise")
    /\ stop_flag' = FALSE
    /\ UNCHANGED <<javaVars, lpc, count, promise, future, tun, fd, thrown>>

KeepPromise(k) ==                             \* mutant: one promise for all opens
    /\ Step(k, "promise", "run")
    /\ promise' = IF promise = None THEN k ELSE promise
    /\ UNCHANGED <<javaVars, lpc, stop_flag, count, future, tun, fd, thrown>>
NewPromise(k) ==
    /\ Step(k, "promise", "run")
    /\ future' = [o \in Opens |->
           IF o = promise /\ future[o] = "unset" THEN "broken" ELSE future[o]]
    /\ promise' = k
    /\ UNCHANGED <<javaVars, lpc, stop_flag, count, tun, fd, thrown>>

RunLoops(k) ==
    /\ Step(k, "run", "wait")
    /\ lpc' = [lpc EXCEPT ![k] = "start"]
    /\ UNCHANGED <<javaVars, nativeVars>>

\* tunnel_future.wait() returns when the promise is set, or broken.
DoesNotWait(k) == TRUE                        \* mutant: the future is not waited for
Ready(k) == future[k] # "unset"
Wait(k) ==
    /\ Ready(k)
    /\ Step(k, "wait", "close")
    /\ UNCHANGED <<javaVars, lpc, nativeVars>>

\* _tunnel_closed: the descriptor that params::tun now holds.
CloseTunNot(k) ==                             \* mutant: params::tun.close() left out
    /\ Step(k, "close", "zero") /\ UNCHANGED <<javaVars, lpc, nativeVars>>
CloseTun(k) ==
    /\ Step(k, "close", "zero")
    /\ fd' = [o \in Opens |-> IF o = tun THEN "closed" ELSE fd[o]]
    /\ UNCHANGED <<javaVars, lpc, stop_flag, count, promise, future, tun, thrown>>
ZeroTunNot(k) ==                              \* mutant: params::tun keeps the number
    /\ Step(k, "zero", "closed") /\ UNCHANGED <<javaVars, lpc, nativeVars>>
ZeroTun(k) ==
    /\ Step(k, "zero", "closed")
    /\ tun' = 0
    /\ UNCHANGED <<javaVars, lpc, stop_flag, count, promise, future, fd, thrown>>

\* tunnelClosed.
TunnelClosed(k) ==
    /\ Step(k, "closed", "disconnected")
    /\ tunnel' = FALSE
    /\ UNCHANGED <<state, intents, ui, opened, foreground, hasty, lpc, nativeVars>>
Disconnected(k) ==
    /\ Step(k, "disconnected", "withdraw")
    /\ state' = "DISCONNECTED"
    /\ UNCHANGED <<tunnel, intents, ui, opened, foreground, hasty, lpc, nativeVars>>
\* stopForeground; or stopSelf, if no activity listens.
Withdraw(k) ==
    /\ Step(k, "withdraw", "done")
    /\ foreground' = FALSE
    /\ UNCHANGED <<state, tunnel, intents, ui, opened, hasty, lpc, nativeVars>>

-----------------------------------------------------------------------------
(* A tunnel thread: _tunnel_loop.                                          *)

LoopStep(k, from, to) == lpc[k] = from /\ lpc' = [lpc EXCEPT ![k] = to]

ThreadStartUncounted(k) ==                    \* mutant: _thread_start left out
    /\ LoopStep(k, "start", "check")
    /\ UNCHANGED <<javaVars, cpc, nativeVars>>
ThreadStart(k) ==
    /\ LoopStep(k, "start", "check")
    /\ count' = count + 1
    /\ UNCHANGED <<javaVars, cpc, stop_flag, promise, future, tun, fd, thrown>>

IgnoresStop(k) == LoopStep(k, "check", "poll")     \* mutant: while (true)
CheckStop(k) == LoopStep(k, "check", IF stop_flag THEN "stop" ELSE "poll")
Check(k) ==
    /\ CheckStop(k)
    /\ UNCHANGED <<javaVars, cpc, nativeVars>>

\* A packet, or 2 s without one.  A closed number, and 0, may be another file's.
Poll(k) ==
    /\ LoopStep(k, "poll", "check")
    /\ tun \in Opens => fd[tun] # "dead"
    /\ UNCHANGED <<javaVars, cpc, nativeVars>>
\* An error or a hang-up of the device, or no descriptor.
PollHup(k) ==
    /\ LoopStep(k, "poll", "check")
    /\ tun \in Opens /\ fd[tun] # "open"
    /\ stop_flag' = TRUE
    /\ UNCHANGED <<javaVars, cpc, count, promise, future, tun, fd, thrown>>
\* poll itself fails, and ends the loop.
PollFails(k) ==
    /\ LoopStep(k, "poll", "stop")
    /\ UNCHANGED <<javaVars, cpc, nativeVars>>

\* _thread_stop: fetch_sub, and set_value by the last thread.
ThreadStop(k) ==
    /\ LoopStep(k, "stop", IF count = 1 THEN "set" ELSE "done")
    /\ count' = count - 1
    /\ UNCHANGED <<javaVars, cpc, stop_flag, promise, future, tun, fd, thrown>>
SetValue(k) ==
    /\ LoopStep(k, "set", "done")
    /\ IF future[promise] = "unset"
       THEN future' = [future EXCEPT ![promise] = "set"] /\ UNCHANGED thrown
       ELSE thrown' = TRUE /\ UNCHANGED future
    /\ UNCHANGED <<javaVars, cpc, stop_flag, count, promise, tun, fd>>

\* The system takes the TUN device away: another VPN, or the user's settings.
Revoke(k) ==
    /\ fd[k] = "open"
    /\ fd' = [fd EXCEPT ![k] = "dead"]
    /\ UNCHANGED <<javaVars, cpc, lpc, stop_flag, count, promise, future, tun, thrown>>

-----------------------------------------------------------------------------
UI ==
    \/ ConnectNot \/ ConnectInVain \/ Connect \/ DisconnectNot \/ Disconnect
    \/ Disconnecting \/ CloseTunnel
ConnectThread(k) ==
    \/ Establish(k) \/ Announce(k) \/ Failed(k) \/ OpenNative(k) \/ OpenTunnel(k)
    \/ NewPromise(k) \/ RunLoops(k) \/ Wait(k) \/ CloseTun(k) \/ ZeroTun(k)
    \/ TunnelClosed(k) \/ Disconnected(k) \/ Withdraw(k)
TunnelThread(k) ==
    \/ ThreadStart(k) \/ Check(k) \/ Poll(k) \/ PollHup(k) \/ ThreadStop(k) \/ SetValue(k)

Next ==
    \/ Click \/ UI
    \/ \E k \in Opens : ConnectThread(k) \/ TunnelThread(k) \/ PollFails(k) \/ Revoke(k)

Spec == Init /\ [][Next]_vars

\* Threads run, and intents are delivered.  Nobody need click, and the system
\* need not take the device away.
FairSpec ==
    /\ Spec
    /\ WF_vars(UI)
    /\ \A k \in Opens : WF_vars(ConnectThread(k)) /\ WF_vars(TunnelThread(k))

-----------------------------------------------------------------------------
TypeOK ==
    /\ state \in {"DISCONNECTED", "CONNECTING", "CONNECTED", "DISCONNECTING"}
    /\ tunnel \in BOOLEAN /\ intents \in Seq({"CONNECT", "DISCONNECT"})
    /\ ui \in {"idle", "disconnecting", "close_native"} /\ opened \in 0..MaxOpens
    /\ cpc \in [Opens -> {"none", "establish", "announce", "failed", "native", "open",
                          "promise", "run", "wait", "close", "zero", "closed",
                          "disconnected", "withdraw", "done"}]
    /\ foreground \in BOOLEAN /\ hasty \in BOOLEAN
    /\ lpc \in [Opens -> {"none", "start", "check", "poll", "stop", "set", "done"}]
    /\ stop_flag \in BOOLEAN /\ count \in 0..MaxOpens /\ promise \in Opens \cup {None}
    /\ future \in [Opens -> {"unset", "set", "broken"}]
    /\ tun \in 0..MaxOpens /\ fd \in [Opens -> {"none", "open", "dead", "closed"}]
    /\ thrown \in BOOLEAN

Running(k) == lpc[k] \notin {"none", "done"}

\* Opens do not overlap: connect() starts one only when the one before has nothing left
\* to do but to withdraw its notification, although all share one promise, one counter,
\* one flag and one descriptor, and connect() looks at none of them.
OpensSerial == \A k \in Opens : k < opened => cpc[k] \in {"withdraw", "done"}

\* At most one tunnel thread runs: it is the only caller of protect_socket, which
\* says "Call only in one thread", and of the managers.
OneTunnelThread == \A k, o \in Opens : Running(k) /\ Running(o) => k = o

\* When the button says "Disconnected", and a click opens a tunnel, no tunnel
\* thread runs, no descriptor is open, and no open_tunnel is under way.
DisconnectedIsIdle ==
    state = "DISCONNECTED" => \A k \in Opens :
        ~Running(k) /\ fd[k] # "open"
        /\ cpc[k] \in {"none", "closed", "disconnected", "withdraw", "done"}

\* The promise of an open is set once, by its own tunnel thread: set_value never
\* throws, and no open_tunnel is woken because its promise was replaced.
PromiseSetOnce == ~thrown /\ \A k \in Opens : future[k] # "broken"

\* An open_tunnel that waits has a tunnel thread left to wake it: _thread_stop
\* sets the promise that is waited for.
NoLostWakeup ==
    \A k \in Opens : cpc[k] = "wait" /\ future[k] = "unset" => \E o \in Opens : Running(o)

\* Until its loop ends, a tunnel thread polls and reads the descriptor of its own
\* open, and _tunnel_closed has not closed it.
PollsOwnTun == \A k \in Opens : lpc[k] \in {"check", "poll"} => tun = k /\ fd[k] # "closed"

\* A tunnel runs in the foreground, where the system does not end its process, and
\* the user sees its notification.  The exception is a tunnel whose CONNECT was
\* taken when tunnelClosed, which sets DISCONNECTED first, had not yet withdrawn
\* the notification of the one before.
ForegroundWhileRunning == (\E k \in Opens : Running(k)) /\ ~hasty => foreground

\* Once the tunnel thread runs, stop_flag or the loss of the device ends it, and
\* the service gets to DISCONNECTED.
StopHeeded ==
    (\E k \in Opens : Running(k) /\ (stop_flag \/ fd[k] = "dead")) ~> state = "DISCONNECTED"

\* A tunnel that runs while the button says "Disconnecting..." ends.
DisconnectEndsTunnel ==
    \A k \in Opens : Running(k) /\ state = "DISCONNECTING" ~> ~Running(k)
=============================================================================
