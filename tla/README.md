# TunMode, in TLA+

TunMode is an Android VPN application. The system routes the IP packets of all applications into a TUN device;
TunMode reads them, opens an ordinary socket to the server of each TCP connection or UDP exchange, relays the bytes,
and plays the other end of TCP towards the application itself. This directory holds TLA+ models of the native code
(`app/src/main/cpp/src/tunmode`) and of the Java service that opens and closes the tunnel, the TLC runs that check them and the theorems that TLAPS proves about them.

Paths below are relative to `app/src/main/cpp/src/tunmode/` unless they begin with `app/`.

## The system

| Part | State | Operations | Talks to |
|---|---|---|---|
| Tunnel loop, `tunmode.cxx` | `stop_flag`, `thread_count`, `tunnel_promise`, the TUN descriptor | poll the TUN device, read a packet, call the manager of its protocol | managers (calls), lifecycle (flag, promise) |
| Session managers, `manager/` | `mtx`, `sessions` | `handle_packet`, `get_or_add`, `add`, `remove` | sessions (objects, pipe), Java (`protect`) |
| TCP session, `session/tcpsession.cxx`, `socket/tcpsocket.cxx` | TCP state, `rcv.nxt`, `snd.nxt`, buffers, `syn_recved` | `connect`, `recv`, `send`, `close`, `reset`, `poll2`, `_loop` | pipe, TUN device, server's socket, its manager |
| UDP session, `session/udpsession.cxx`, `socket/udpsocket.cxx` | addresses, `poll_timeout` | `init`, `recv`, `send`, `_loop` | the same |
| Sockets, `socket/` | pipe descriptors, socket descriptor, `closed` | blocking pipe read and write, TUN read and write | kernel |
| Lifecycle, `tunmode.cxx`, `app/src/main/cpp/main.cxx` | parameters, promise, counters | `open_tunnel`, `close_tunnel`, `initialize` | Java service, tunnel loop |
| Service and activity, `app/src/main/java` | `state`, `tunnel`, notification | intents, `connect`, `disconnect`, `tunnelClosed` | lifecycle |
| Packets and checksums, `common/`, `app/.../RawSocket` | buffers | build, finalize, ids, checksums | all |

Threads: one tunnel thread; one detached thread per session; the Java thread that sits in `open_tunnel`; the UI thread.
The tunnel thread and a session thread meet at the manager's mutex, at the map and at the session's pipe. Nothing else
is locked. A session ends itself: its thread calls `remove`, which deletes the object whose method it is running.

What is hard here, and what correctness means for each part:

* Managers. A session must not be used after its deletion, a flow must not have two sessions, a session must delete
  itself and nothing else, its socket must be protected before it is connected, packets must reach the right session
  in order, and the two threads must not wait for each other.
* TCP session. Both byte streams must stay whole and in order whatever the client resends and however the two ends
  finish; nothing may be acknowledged and then lost; the end of the client must end the session. There is no
  retransmission, the reads in `connect` and `close` have no timeout, and a FIN races data, the server's end and the
  stop flag.
* UDP session. A session must last while it is used, and end when it is not; datagrams go once and in order; its
  descriptors are closed, and no others.
* Lifecycle. A stop must not be lost, one tunnel at a time, sessions must not outlive their tunnel.
* Checksums and sequence numbers: boundaries of 16 and 32 bits.

`PROJECT.json` lists the hazards line by line.

## Modules

| Module | What it is |
|---|---|
| `SessionManager` | both managers, the tunnel thread, and every session thread reduced to when it reads its pipe and when it leaves its loop |
| `FlowTable` | what the managers promise: one session per flow, each packet delivered once, in order |
| `MCSessionManager` | model values and symmetry for TLC |
| `SessionManagerProofs` | the inductive invariant and the theorems that follow from it |
| `SessionManagerQueues` | the invariants on what the pipes hold, and the theorems about order and about the wedge |
| `SessionManagerRefinement` | that `SessionManager` implements `FlowTable` |
| `TcpSession` | one TCP session between the client's kernel and the server's socket |
| `StreamProxy` | what a TCP session promises to the two applications |
| `TcpSessionLossy` | `TcpSession` with a TUN device that loses packets of the client |
| `SeqWindow` | the window check with the width of its numbers |
| `MCTcpSession` | `TcpSession` and `SeqWindow` for TLC, and what joins them |
| `TcpSessionProofs` | the inductive invariant of a TCP session, its theorems and those of the window, and that it implements `StreamProxy` |
| `TcpSessionLossyProofs` | what holds of the download whatever the client loses |
| `UdpSession` | one UDP session: datagrams, ICMP errors, timeouts, descriptors |
| `Checksum`, `ChecksumProofs` | the checksums of what is written to the TUN device, and the theorem that they verify |
| `MCUdpSession` | `UdpSession` and `Checksum` for TLC |
| `UdpSessionProofs` | the inductive invariant of a UDP session and its theorems |
| `TunnelLifecycle` | button, intents, connect threads and tunnel threads: how the tunnel is opened and closed |
| `TunnelSessions` | `TunnelLifecycle` with the session threads, which outlive their tunnel |
| `MCTunnelSessions` | model values for TLC |
| `TunnelLifecycleProofs` | the invariants of the lifecycle, alone and with its sessions, and their theorems |

### SessionManager

`mtx` and `sessions` are the fields of the two `SessionManager` objects. `tpc`, `packet` and `session` are the tunnel
thread's position and local variables in `_tunnel_loop`, `handle_packet` and `get_or_add`; `pc`, `id`, `pipe`,
`syn_recved`, `victim` belong to a session object and its thread. An object is an address that the allocator may hand
out again after `delete`, so a stale pointer is expressible.

`handle_packet` is split where another thread can see the difference: taking the mutex (`HandlePacket`), the lookup
(`GetSession`, `AddSession`), `protect_socket` and the insertion (`ProtectSocket`, `InsertSession`), since the session
thread runs from the constructor on, the pipe write (`WritePipe`, `SkipSyn`), and the return. `remove` is split into
taking the mutex, erasing and deleting. A session's reads are `ReadFirst`, `Shake`, `Recv` and `CloseRead`; `Break` is
every way out of `_loop`, with the number of packets that `TCPSocket::close` will then wait for.

A packet carries its flow, whether its flags are SYN alone, and its rank in the order of arrival. The model lets the
TUN device deliver any packet at any time, a SYN for a live flow and data for an unknown one included.

### FlowTable and the refinement

The flow table has no threads: a packet is taken in hand, its flow gets a session if it has none, the packet is
appended to the session's queue or, if it is a SYN, possibly discarded, and a session may consume or close. `FT` in
`SessionManager` maps the owner of a flow to the object that has its id, from its constructor to its destructor, and
the queue to that object's pipe. The map `sessions` does not appear in the mapping: that it agrees with the objects is
what the proof needs the invariant for.

### TcpSession

The session thread is a `pc`: `first`, `dial` and `shake` are `connect`; `poll` is the head of the loop; `relay` is
the rest of the turn; `close`, `fin1`, `fin2` and `last` are the blocking reads of `close`; `over` is the return of
`_loop`. A turn is two steps, `PollClient` (`poll`, then `recv` with what it writes to the TUN device) or `PollServer`,
and `Relay` or one of its two ways out, which receive from the server, forward to it, and send to the client. The
client's and the server's own steps come between.

Bytes are their position in the stream, so `fwd = <<1, 2, 3>>` says that the server was sent the first three bytes, in
order; a segment is its kind, number, length or bytes, and acknowledgment. Numbers count from those in the SYN and in
the SYN|ACK. (The code puts `iss + 1` into its SYN|ACK and adds one again when the handshake ends: for the client
`iss + 1` is the initial number.)

The client is a TCP as far as the session can tell: it sends within a limit ahead of the last acknowledgment, chooses
PSH freely except on its last byte, resends from the oldest outstanding byte in any cut, sends its FIN bare or with
data, may abort, and answers with RST once its socket is gone. It answers the SYN|ACK with an ACK that carries no data, and
sends one SYN, because the manager's filter lets no second one into a live session (`SynFiltered`, proved).

Three numbers limit the client. `MaxSeg` is its largest segment, `Wnd` is the window that `recv` checks against (1500,
`socket/tcpsocket.cxx:54`), and `InFlight` is how far it may send ahead of what is acknowledged. Only `MaxSeg <= Wnd` is
assumed: a segment is at most 1460 bytes, since the device's MTU is 1500 (`TunModeService.java:200`). What is in flight may
be much more than the window: the session advertises 512 (`common/utils.cxx:50`) with a scale of 8
(`socket/tcpsocket.cxx:33`), 131072 bytes.

The server sends, ends or resets at any time, with bytes still queued in the session's socket. `ServerReady` is what `::poll`
reports of it. Of a socket that was reset it reports POLLIN with POLLERR and POLLHUP, so the turn that the error ends
receives what is queued, and drops it (`TakeAndDrop`); the same happens to the server's bytes of a turn that the
client's end breaks. `close` then sends a FIN with the number of the first byte that was dropped.

`TunFails` says whether a write to the non-blocking TUN descriptor may fail with EAGAIN. The code ignores the result
everywhere but in the acknowledgment of data, where `recv` returns it; `eagain` is the `errno` that such a failure
leaves and that `poll2` reads later.

### StreamProxy and the refinement

The stream proxy has no segments, no acknowledgments and no states of TCP. It opens or refuses; it takes the client's
next bytes into its hand, hands them over in the next turn, and takes the server's bytes in the same turn; its last
turn ends it. `SP` in `TcpSession` maps the hand to `client_buffer` between `recv` and `send`, and the phase to the
position of the thread. What the refinement adds to the invariants about the streams is the order of the steps: nothing
is relayed before the handshake or after the loop, what is in hand is handed over whatever ends the loop, and bytes are
left out only after a write to the TUN device has failed or the server is gone. The bytes that a broken turn takes and drops leave the
server's queue there too, as the proxy's turn allows.

### SeqWindow

`TcpSession` counts from the initial number and does not wrap. `SeqWindow` has the comparisons of `recv` (179-196) with
32-bit addition, and with the last byte's number as a `size_t` of 64 or of 32 bits, against distances modulo 2^32. The
two agree as long as `rcv.nxt + rcv.wnd` does not wrap. Once it does, the code accepts nothing: `rcv.nxt` cannot move
past it, so an upload that crosses 2^32 stops there and so does the client's FIN. Initial numbers are random, so this
takes up to 4 GB, or one unlucky initial number. `WindowExact` in `MCTcpSession` joins the two modules: whatever the
initial number, the 32-bit comparisons accept of the segments in the pipe exactly those that `TcpSession` accepts, until
the window's end passes 2^32, and none after that. So what is checked and proved of `TcpSession` is about the code up to
there.

### UdpSession

`pc` follows `_loop`: `init`, then `check` (the stop flag), `poll`, `client` and `server` (the two halves of a turn),
`close`, and from `remove` on the destructors, one `::close` a step. A datagram is its rank among those of its
direction, and 0 is the empty buffer. An ICMP error of the server's host waits in the socket (`icmp`): `poll` reports it
and keeps it, `send` and `recv` report and clear it, in which case `send` sends nothing and `recv` leaves the buffer
alone. The code looks at neither result. Time passes in ticks, also while the thread is busy or not scheduled; the
waiting time of `::poll` starts anew with each call.

Each number from 1 to `MaxFd` is the session's, another's or free. Other threads take the lowest free number, as the
kernel hands them out. `~UDPSocket` calls `SessionSocket::~SessionSocket()`, which C++ runs again as the base's
destructor: four calls of `::close` for two descriptors. `ClosesOwn` says that exactly this second run may take a number
from another thread, and no other step.

### Checksum

`CalSum` runs over 16-bit words with a high byte in front, into a 32-bit sum. A byte has `Base` values here, so a word
has `Base^2` and the sum `Base^4`. Of a packet the fields that the code treats in an order of their own are kept:
`tot_len` before the sums that run over it, the UDP length, the checksum fields that are cleared first. The reference is
RFC 1071: ones' complement addition over the padded packet gives all ones.

### TunnelLifecycle

Three kinds of thread share `TunModeService.state`, the field `tunnel` and the native `params` without a lock: the UI
thread (`ui`, and `intents` under way to it), a connect thread for each CONNECT (`cpc`) that ends up waiting in
`open_tunnel`, and the tunnel thread that it starts (`lpc`). An open has a number, which names its two threads, its
promise and its descriptor. Each store to a shared variable is a step: `disconnect` is three (test, state, flag),
`open_tunnel` is flag, promise, thread and wait, `_tunnel_closed` closes the descriptor, clears `tun` and calls back.
Replacing an unset promise breaks it, which wakes its waiter; setting a set one throws (`thrown`), where the process
would end and the model goes on. `foreground` is what `startForeground` and `stopForeground`
set; `tunnelClosed` is three steps, since it sets DISCONNECTED before it withdraws the notification. `Revoke` is the system that takes the device away. The Java fields are not volatile;
the model gives every thread the value last written.

### TunnelSessions

Every session thread, reduced to where it is (`first`, `dial`, `shake`, `loop`, `close`) and whether its pipe holds
anything, is added to the lifecycle. A packet that the tunnel thread reads starts a session or goes to the one that is
there, from whichever open that one stems (`born`). A session looks at `stop_flag` at the head of its loop only. The
reads of `TCPSocket::connect` and `close` block, and with the tunnel gone nobody writes to the pipe: `OnlyBlockedRemain`
says that these are the only sessions that a stopped tunnel leaves behind. They are taken up again by the next packet of
their flow after the next open.

## Runs

| Run | Instance | Shows |
|---|---|---|
| `sm_safety` | 2 TCP flows, 1 UDP flow, 3 objects, pipe of 2, 5 packets; 660 000 states | types, the six safety properties, the refinement; the wedge is the only deadlock, takes a burst, and never ends |
| `sm_live` | 1 TCP and 1 UDP flow, 2 objects, pipe of 1, 4 packets | a session that ends is deleted, the tunnel thread returns, unless wedged |
| `sm_wedge` | 1 TCP and 1 UDP flow | a violation: the two threads wait for each other |
| `tcp_safety` | 2 bytes each way, in flight and in a segment, window of 2, pipe and TUN queue of 2, TUN writes that fail; numbers modulo 7; 6 million states | both streams, acknowledgment against forwarding, FIN against data both ways, the refinement of `StreamProxy`, the window check with numbers that wrap |
| `tcp_live` | 2 bytes up and in flight, segments and window of 1; 1 byte down, no failing write; 237 000 states | FIN and abort end the session, an upload is acknowledged |
| `tcp_acked` | 2 bytes each way, segments and window of 2, no failing write | a violation: `close` acknowledges data it throws away |
| `tcp_abandon` | the same, 1 byte down | a violation: RST as third packet establishes |
| `tcp_gap` | 2 bytes up, 1 down, and segments that are lost before the pipe | a violation: a hole in the upload, and bytes twice |
| `udp` | 2 datagrams each way, timeouts of 3 and 1 ticks, 4 descriptors; checksums of packets of up to 3 bytes of base 3; 1.7 million states | order and completeness of datagrams, timeouts, descriptors, the end; every checksum verifies |
| `lc_safety` | 3 opens, 1 intent under way, the last open may fail, 1 TCP and 1 UDP flow; 459 000 states | one tunnel thread, promise and descriptor; a running tunnel in the foreground; a stop is heeded; what sessions that outlive their tunnel may do |
| `lc_double` | 2 opens, 2 intents under way | a violation: two tunnel threads |
| `lc_lost` | 1 open | a violation: a disconnect that is lost |

Bounds. Two flows of one protocol are needed for a packet to go astray, one of the other protocol for two mutexes; a
third object lets a flow start anew while the old object is not yet free. A pipe of two slots can be empty, partly
filled and full. Five packets fill a pipe, keep one in hand and leave two for a second session. Two bytes with two in
flight give every overlap of a resent segment with a new one that the window check must tell apart: whole repetition,
repetition with new bytes behind, a FIN with, after and without data. `tcp_safety` has
segments as long as the window, the tightest case that `ConstAssumption` allows, and `tcp_live` has twice the window in
flight, so that a segment can be out of it. Two bytes from the server let one be relayed and one be queued when it resets.
The pipe's real capacity is 16 packets; nothing in the
properties depends on it, and the proofs are for any.

`lc_safety` is what holds for a user who waits for one click to have its effect before the next (`MaxPending` of 1), where
only the last of the opens may fail (`FailingOpens` is {3}): an `establish` that fails earlier can break it, as hazard
`TunModeService.java:214` and the proofs' section below say. Nothing in the activity or the service enforces either. Three opens let each
variable be used twice after its first reset, which is where a stale flag, counter, promise or descriptor would show.
The other two runs leave the first restriction, or ask for more than the flag's order allows. One flow of each protocol is
enough beside it: sessions do not act on each other there, and each outlives opens in every way.

Two datagrams each way let one be repeated, left out or overtaken; an ICMP error is possible for each one sent. Ticks need
only be enough to tell 10 s from 60 s and both from "at once". With four descriptors there is one beyond the session's,
so that another thread can hold one before and get a closed one after. Three bytes of data give an odd packet with
words in front, and base 3 every carry, a zero sum and a sum of all ones; the 32-bit sum cannot overflow there, nor in
the code, where 1600 bytes give at most 2^26. `ChecksumsVerify` says nothing of the state and is
looked at in the first states only. `WindowExact` tries every initial number; modulo 7, which is one more than the upload,
its two control flags and the window need, the window and every segment lie on either side of the wrap.

No run checks for deadlock: when packets are used up, or the client has nothing more to say, waiting is what the threads
should do. The deadlock that matters is stated as `NotWedged`, and that there is no other as `OnlyBurstsDeadlock`, in terms
of which thread each thread waits for: the holder of the mutex it wants, the reader of the full pipe it writes, the writer
of the empty pipe it reads.

Fairness. `SessionManager!FairSpec` makes the tunnel thread and every session thread take a step that stays enabled:
they are kernel threads, and the mutex goes to one of its waiters. It does not make a session leave its loop, nor a
client send. `TcpSession!FairSpec` assumes a fair session thread, that the client's kernel reads the TUN device, that
its retransmission timer, which fires again and again, finds room in the pipe at some time, and that its application
goes on to send what it has. Nobody is assumed to close, abort or answer. Hence the violations are not the client's or
the server's silence. `TunnelLifecycle!FairSpec` makes every thread and the delivery of intents go on (a poll returns after
two seconds at most); it assumes no click, no failure of `poll` and no revocation. `TunnelSessions!FairSessions`
adds session threads that go on unless they wait in a blocking read; a loop's next look at the flag is at most 60 s (UDP)
or 120 s (TCP) away. `UdpSession!FairSpec` assumes the thread and the clock; datagrams and errors are bounded by number,
so a session cannot be kept alive for ever.

### Findings

* `sm_wedge`: `handle_packet` writes to a blocking pipe with the mutex held. A session whose client keeps sending after
  the session left its loop, as in an upload that the server cuts off, fills the pipe, and `remove` waits for the mutex.
  All flows of that protocol stop, and the tunnel thread with them. It is proved that nothing ends it (`WedgeIsForever`),
  that no other circle of waiting threads exists, and that it takes two packets more than the pipe holds, 18 with the real
  pipe (`OneDeadlock`).
* `tcp_acked`: `close` reads "the ACK of FIN" and "FIN | ACK" from a queue that may hold data.
* `tcp_abandon`: a client that gave up during a slow connect leaves a session that nothing ends.
* `tcp_gap`: a segment anywhere in the window is taken for the one at its beginning. The TUN device's queue is bounded and
  one thread serves all flows, so a loss is a matter of load; the next segment then fills the gap with the wrong bytes.
* `lc_double`: `connect` tests a field that its new thread sets much later; two clicks in a row open two tunnels. It is
  proved that overlapping opens are all it takes and the only cause (`SerialOpensSuffice`).
* `lc_lost`: CONNECTED is announced before `open_tunnel` clears the stop flag; a disconnect in between is forgotten and
  the state stays DISCONNECTING.

What the properties say by their exceptions:

* `UploadAcked` is about a client that could send all it has. Data without PSH is acknowledged only with later data
  (214-235), and a retransmission is dropped without an answer (181-195), so a client whose window is full of segments
  without PSH waits for ever (rfc9293.txt:3848-3850 asks for the acknowledgment).
* `WindowExact`: near 2^32 nothing is accepted (rfc9293.txt:871-879 asks for arithmetic modulo 2^32).
* `FinAfterDownload`: a FIN is behind the server's whole stream if the server ended it, and behind all that was taken if the
  tunnel's end stopped the loop. When the client's own FIN or an error breaks the loop, or the server's reset does, the
  server's bytes of that turn are taken and dropped, and a FIN follows with the number of the first of them: a download that
  the server's reset cut off looks complete to the client (rfc9293.txt:389 calls a FIN "No more data from sender").
* `ClosesOwn`: the second run of `~SessionSocket` may close another thread's file.
* `DownloadOnce`: a `recv` that fails sends the datagram before once more; `UploadInOrder`: a `send` that reports an
  earlier ICMP error loses its datagram.
* `WritesToOwnTun`: between `close` and the assignment of 0 in `_tunnel_closed` a session may write to a closed number.
* `ForegroundWhileRunning`: a CONNECT that is taken between DISCONNECTED and the end of `tunnelClosed` opens a tunnel whose
  notification the old thread then withdraws (`hasty`).
* `OnlyBlockedRemain`: sessions in the handshake or in `close` survive the tunnel.

`UploadIntegrity` holds of every run without a failing TUN write. With one it is stated with its exception, because
`recv` then returns -1 and `poll2`, seeing EAGAIN, drops bytes that `rcv.nxt` already counts.

## Proofs

### Managers

`SessionManagerProofs` proves, for every set of flows, set of objects, capacity and number of packets (from
`ConstAssumption` alone), `TypeOK`, `NoDangling`, `OneSessionPerFlow`, `RemoveOwn` and `ProtectBeforeConnect`;
`SessionManagerQueues` proves `SynFiltered`, `RoutedInOrder`, `OnlyBurstsDeadlock` and `WedgeStays`; `SessionManagerRefinement` proves
`Spec => ImplementsFlowTable`.

None of the properties is inductive. `NoDangling` needs to know why the object that the map returned is alive, which is
that (a) the map and the ids agree, except for a session in the middle of `add` or `remove`; (b) such a session's
manager is locked by the thread that is in the middle; (c) no thread is in a critical section without the mutex. That
is `TableInv`, and `IInv` is `TypeInv /\ TableInv`. `ProtectBeforeConnect` needs in addition that a session under
construction has an empty pipe and waits for its first packet: the only thing that keeps its thread from connecting an
unprotected socket, or from removing itself before it is in the map. `QueueInv` adds that a pipe's packets are older
than the one in hand, and that a TCP session past its first packet whose pipe holds no SYN has `syn_recved` set.

The refinement is one lemma per kind of step: a step that changes no id and no pipe is a stutter, `AddSession` is
`Open`, the pipe write is `Deliver`, `SkipSyn` is `Discard`, a pipe read is `Consume`, and `Delete` is `Close`, for
which `RemoveOwn` is needed so that one owner disappears and no other.

`OnlyBurstsDeadlock` has two halves. That every chain of waiting threads ends, unless they are wedged, follows from
`TableInv`: a session that holds a mutex waits for nothing, so a thread in front of a mutex waits for at most one more;
the tunnel thread in front of a full pipe waits for its reader, which can only be stopped by a mutex, the one that the tunnel
thread holds. That a wedge takes `PipeCap + 2` packets is `BurstInv`: what a pipe holds, and the packet that its session
has read if it is past its first, is no more than was delivered. `WedgeStays` goes through the actions: whoever could free
the mutex or the pipe is one of the two that wait.

The invariants were checked with TLC before they were proved.

### Checksums and numbers

`ChecksumProofs` proves that what `finalize_packet_tcp` and `finalize_packet_udp` leave verifies (`FinalizedVerify`,
`ChecksumsRight`): for bytes of any width (`BaseAssumption`), data of any length that the IP length field can hold
(`MaxData + 4 < WordLimit`; the code's packets have at most 1600 bytes, the field 16 bits), and whatever the fields held before.

The loop of `CalSum` is a recursive function over the words, and what it computes needs induction. The library's induction
theorems take an operator, which the installed provers cannot instantiate; their equivalent for a set needs only that
`<` on the naturals is well-founded: a statement that fails somewhere fails at a least number, and not at the one before
(`Least`, `Induction`). On it rest that the function exists (`Recursion`), that the loop's sum is the plain total,
because as many words as an IP packet has cannot overflow 32 bits (`CalSumIsTotal`), and that ones' complement addition,
word by word, gives the same number up to a multiple of `WordLimit - 1` (`OnesSumRepresents`). The two foldings are one
ones' complement addition of the halves of the sum (`FoldIsOnesAdd`): after the first, the sum is less than two words, so
one carry is left, and the second brings it around without making another. The complement that is stored then closes the
sum to all ones, and a UDP checksum that would be 0 is stored as the other zero.

`WindowCheck` proves `AcceptsExactly`, that recv's comparisons are those modulo 2^32 until the window wraps, for every
modulus, window and length with `Window + len < Modulus`; the code's are 2^32, 1500 and less than 1600. `WindowExact` needs
in addition that no number of a session is far from its stream. `NumberInv` says that until the loop ends `rcv.nxt`, the
numbers in the pipe and the acknowledgments to the client, which it uses when it resets, are at most two above the last
byte of the upload. With an upload shorter than the modulus less a window (`WidthAssumption`) two such numbers differ by
less than one turn, so that distances modulo 2^32 say what the unbounded ones do.

### TCP session

`TcpSessionProofs` proves, for streams of any length, any window, any amount in flight and any capacity of pipe and TUN
queue, with and without failing writes, `TypeOK`, `UploadIntegrity`, `DownloadIntegrity`, `AckedIsForwarded`, `FinAfterData`,
`WindowExact` and `Spec => ImplementsStreamProxy`; `FinAfterDownload` is proved in `TcpSessionLossyProofs`. They assume
`ConstAssumption` (and for `WindowExact` what the section above says): that one segment fits recv's window, whatever the
client has in flight, and that the client has a byte to send, since one of the first packets carries one. Without
the first, `recv` would drop even a segment that begins where it should, and the upload would stand still.

Nothing of this is inductive by itself. Where the bytes of the upload are depends on what the client has put into the
pipe, so the centre of the invariant is `StreamInv`: there is a sequence of numbers, one for each place in the pipe, that
begins with `rcv.nxt`, ends with what the client has sent, and that each segment takes from one to the next - by
continuing the stream there, by repeating only what has come, or by being empty; a FIN leads to the end of everything.
Appending and removing a segment have a lemma each (`StreamAppend`, `StreamTail`). `ForwardInv` relates `rcv.nxt` to the
other side: the bytes that were forwarded and those in hand are together exactly the ones below it, unless a write to
the TUN device failed, in which case they are still in order (`Counts`). `DownInv` does the same for the server's bytes
and `snd.nxt` while the loop runs; `SegInv` says which segments may be on their way to either end, so that a data segment
remains numbered while it waits; `PhaseInv` and `ClientInv` say how position, TCP
state, the last turn's events and the client's state go together, which is what excludes the branches of `recv` and
`close` that would break the rest.

The proof has three kinds of steps: of the client (`ClientStep` is what all of them have in common), of the server, and
of the session (`SessionFrame` and `Writes` are what each leaves alone or writes; then one lemma per action). The
refinement follows from the invariant: the two halves of a turn are `StreamProxy`'s steps, where `PollHands` shows that
the bytes a packet puts in hand are the next of the stream.

`Inv` does not hold of `SpecLossy`: after a loss the pipe no longer holds a stream, and the upload is indeed cut and repeated
(`tcp_gap`). `TcpSessionLossyProofs` proves that the harm stays in that direction: `DownloadIntegrity` and `FinAfterDownload` hold
whatever is lost. A FIN is written once, by `close`, and the loop's last turn decides what it is behind: `EndInv` says, from
that turn on, what is left of the server's stream for each way the loop can end (`Cut` is those that may drop bytes). Since
`Spec` is `SpecLossy` without the losses, `FinBehindDownload` follows from `FinSurvivesLoss`. `LossyInv` says nothing of client and pipe, only of `snd.nxt`, of what was taken from the server's
socket and of the segments in the TUN device, so the argument would do for any client; a client's step is to it one that may
read a segment there. A write of the session that fails is covered as well.

### UDP session

`UdpSessionProofs` proves, for any number of datagrams, any two timeouts and any number of descriptors, the invariants
that `udp` checks of the session. `Pending` says that the pipe and the socket hold the last of what was sent,
without a gap; with it, `UploadInOrder` and `DownloadOnce` have to exclude only that something is taken twice, for which
`ReportInv` says that what `::poll` reported is still there when the loop reads it. `TimeInv` relates the silence to the
running wait, and `FdInv` gives for each position in `close` and the destructors which numbers are still the session's.

### Lifecycle

`TunnelLifecycleProofs` proves two invariants. `WakeInv`, for every user and every failure, says that `thread_count` is
the number of threads between `_thread_start` and `_thread_stop` and that whoever waits for an unset promise waits for
the present one. `TypeOK`, `TypeOKSessions` and `NoLostWakeup` follow: even where two tunnel threads run, an `open_tunnel`
that waits is woken.

`SerialInv` is for opens that do not overlap (`OpensSerial`: when one begins, those before it have at most their notification
to withdraw), with any number of intents under way and whatever fails. It says where an open's tunnel thread may be
while its connect thread is at each place (`ThreadInv`), and that the one promise, the one counter and the one descriptor
are then that open's (`PromiseInv`, `CountInv`, `TunInv`, `IdleInv`, `ForegroundInv`). `SerialOpensSuffice` is
`Spec /\ []OpensSerial => []TunnelSafe`, where `TunnelSafe` is `OneTunnelThread`, `DisconnectedIsIdle`, `PromiseSetOnce`,
`PollsOwnTun` and `ForegroundWhileRunning` together: nothing in the native code breaks them, only two opens at once.

When do opens not overlap? `OneIntentSuffices` proves it for a user with one intent under way at a time (`OneIntent`) and
failures of the last open only (`LastMayFail`), from what the button may say meanwhile (`ButtonInv`). Neither hypothesis can
be left out. `lc_double` violates `OneTunnelThread` with two intents. With one, but an `establish` that fails before
others (`MaxOpens` 3, `MaxPending` 1, `FailingOpens` {1} in that run's configuration), TLC finds it violated too: the
failed open says DISCONNECTED twice, a CONNECT taken in between has its CONNECTING hidden by the second, and one more click
opens a second tunnel before the first has set the field `tunnel`. The theorems `OneThread`, `IdleWhenDisconnected`, `PromiseKept`, `OwnTunPolled`
and `ForegroundKept` therefore assume neither, but `[]OpensSerial`. What `lc_safety` checks is that the two together are
enough, on its instance, and `OneIntentSuffices` is why they are, for any number of opens.

Sessions are added by a refinement, `SpecSessions => Spec`, so that all of this holds of the composition. `WritesToOwnTun`
needs one thing more, that a session was started for an open that had a tunnel thread (`BornInv`); it, too, holds for every
user and every failure as long as opens do not overlap (`LateSessionsSafe`).

All these invariants were checked with TLC, on the instances of `tcp_safety` and `lc_safety`, on that of `udp` with a third
datagram to the server, `WakeInv` with 3 opens, 2 intents and failures of each, `SerialInv` with
the same where opens do not overlap, and `NumberInv` on that of `tcp_safety`, before they were proved.

### Only model-checked

* The liveness properties (`RemovalCompletes`, `TunnelReturns`, `ClientEnds`, `UploadAcked`, `SessionEnds`,
  `StopHeeded`, `OnlyBlockedRemain`): fairness is out of the prover's reach.
* The violations, which are counterexamples.

## Not modelled

* In `TcpSession`: `snd.una` and `snd.wnd`, which no decision reads where the loop can get;
  the branches of `recv` for FIN_WAIT, TIME_WAIT, CLOSE_WAIT and LAST_ACK, in which states the loop never polls;
  MSG_MORE; a `::send` to the server that blocks; the client's receive buffer; a client whose third packet of the handshake
  carries data, which `connect` throws away (without PSH) or resets (with it), `socket/tcpsocket.cxx:99`.
* In `SessionManager`: `protect_socket`'s early return when the tunnel thread cannot attach to the Java VM
  (`common/utils.cxx:118`).
* In `UdpSession`: what the thread sees whose descriptor the second `::close` takes; a datagram that the client's kernel
  drops for its checksum (`ChecksumsVerify` says there is none).
* In `TunnelSessions`: a pipe that fills (`SessionManager` has it). A session's write to the TUN device is one step: it reads the
  descriptor from `tun` and writes to it at once, so a descriptor that is closed between the two is not seen.
* In `TunnelLifecycle`: the service's end (`stopSelf`, when no activity listens), its creation anew, whose `initialize`
  would clear the parameters under a running tunnel, and the button's text.
* Header layout and buffers.
* `json.hpp` (24 596 lines) and `obfuscate.h`, which no source file includes; logging, resources and build files. Of the
  implementation's lines counted with them the map covers a small share; of the program's own 2 950 lines nearly half.

## Plan

A proof that would say more is the step from `FlowTable` to the sessions, that what the managers promise of a session's
pipe (`SessionManagerQueues`) is what `TcpSession` and `UdpSession` assume of theirs.

In the models: the life of the service object and of the activity that listens, with `initialize` under a running
tunnel.
