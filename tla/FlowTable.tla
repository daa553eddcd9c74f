------------------------------ MODULE FlowTable ------------------------------
(***************************************************************************)
(* What the session managers promise the rest of TunMode: a flow belongs   *)
(* to one session at a time, every packet taken from the TUN device ends   *)
(* in the queue of its flow's session, once and in order of arrival, and   *)
(* the only packet that may be left out is a SYN of a flow that has a      *)
(* session.  Which thread does what, the mutexes and the map are absent.   *)
(***************************************************************************)
EXTENDS Sequences

CONSTANTS Flows, Objects, Packets, None

VARIABLES
    hand,     \* the packet taken and not delivered yet, or None
    owner,    \* per flow: its session, or None
    queue     \* per flow: the packets delivered to its session and not read

vars == <<hand, owner, queue>>

Init ==
    /\ hand = None
    /\ owner = [f \in Flows |-> None]
    /\ queue = [f \in Flows |-> <<>>]

Arrive(p) ==
    /\ hand = None
    /\ hand' = p
    /\ UNCHANGED <<owner, queue>>

\* A session is created only for the packet in hand, and serves one flow.
Open(s) ==
    /\ hand # None
    /\ owner[hand.flow] = None
    /\ \A f \in Flows : owner[f] # s
    /\ owner' = [owner EXCEPT ![hand.flow] = s]
    /\ UNCHANGED <<hand, queue>>

Deliver ==
    /\ hand # None
    /\ owner[hand.flow] # None
    /\ queue' = [queue EXCEPT ![hand.flow] = Append(@, hand)]
    /\ hand' = None
    /\ UNCHANGED owner

Discard ==
    /\ hand # None
    /\ hand.syn
    /\ owner[hand.flow] # None
    /\ hand' = None
    /\ UNCHANGED <<owner, queue>>

Consume(f) ==
    /\ queue[f] # <<>>
    /\ queue' = [queue EXCEPT ![f] = Tail(@)]
    /\ UNCHANGED <<hand, owner>>

\* The session of the flow ends; what it has not read goes with it.
Close(f) ==
    /\ owner[f] # None
    /\ owner' = [owner EXCEPT ![f] = None]
    /\ queue' = [queue EXCEPT ![f] = <<>>]
    /\ UNCHANGED hand

Next ==
    \/ \E p \in Packets : Arrive(p)
    \/ \E s \in Objects : Open(s)
    \/ Deliver
    \/ Discard
    \/ \E f \in Flows : Consume(f) \/ Close(f)

Spec == Init /\ [][Next]_vars
=============================================================================
