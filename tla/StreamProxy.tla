----------------------------- MODULE StreamProxy -----------------------------
(***************************************************************************)
(* What a TCP session promises to the two applications at its ends, without*)
(* segments, acknowledgments and the states of TCP: it opens or refuses;   *)
(* while it relays, it takes the client's bytes in order, has at most one  *)
(* piece of them in hand, and hands that piece over before it takes another*)
(* one and before it ends; it takes the server's bytes in order, and the   *)
(* client receives no other; and what has ended neither relays nor starts  *)
(* again.                                                                  *)
(*                                                                         *)
(* Bytes are their positions in their stream.                              *)
(***************************************************************************)
EXTENDS Integers, Sequences

CONSTANTS MaxUp, MaxDown

VARIABLES
    phase,     \* "opening", "relaying", "ended"
    hand,      \* bytes taken from the client and not handed over yet
    fwd,       \* bytes handed to the server, in order
    lost,      \* the server's end is gone: what is handed over goes nowhere
    full,      \* the TUN device had no room for a packet, and the thread knows it
    taken,     \* bytes taken from the server
    received   \* bytes that the client has received

upVars == <<hand, fwd>>
downVars == <<taken, received>>
faultVars == <<lost, full>>
vars == <<phase, upVars, downVars, faultVars>>

Init ==
    /\ phase = "opening"
    /\ hand = <<>> /\ fwd = <<>>
    /\ lost = FALSE /\ full = FALSE
    /\ taken = 0 /\ received = 0

-----------------------------------------------------------------------------
\* The two ends.
Receive ==
    /\ received' \in received..taken
    /\ UNCHANGED <<phase, upVars, taken, faultVars>>
Lose ==
    /\ lost' = TRUE
    /\ UNCHANGED <<phase, upVars, downVars, full>>

\* A packet for the client that the device had no room for.
Faults == full' \in {full, TRUE} /\ UNCHANGED lost

\* The handshake with the client, which may fail; and what is said to the client
\* when nothing is relayed any more.
Open ==
    /\ phase = "opening"
    /\ phase' \in {"opening", "relaying", "ended"}
    /\ Faults /\ UNCHANGED <<upVars, downVars>>
Part ==
    /\ phase = "ended"
    /\ Faults /\ UNCHANGED <<phase, upVars, downVars>>

\* The next bytes of the client: those behind what was handed over, or behind a
\* piece that went nowhere, or was dropped because its acknowledgment found no room.
First == IF fwd = <<>> THEN 1 ELSE fwd[Len(fwd)] + 1
Take(n) ==
    /\ phase = "relaying" /\ hand = <<>>
    /\ Faults
    /\ \E b \in First..(MaxUp - n + 1) :
          /\ b = First \/ full \/ lost
          /\ hand' = [i \in 1..n |-> b + i - 1]
    /\ UNCHANGED <<phase, fwd, downVars>>

\* A turn of the loop: what is in hand is handed over, what the server has sent is
\* taken; or it is the last turn, which ends the session.
HandOver == hand' = <<>> /\ fwd' = IF lost THEN fwd ELSE fwd \o hand
Turn ==
    /\ phase = "relaying" /\ phase' \in {"relaying", "ended"}
    /\ HandOver
    /\ taken' \in taken..MaxDown
    /\ Faults
    /\ UNCHANGED received

-----------------------------------------------------------------------------
Next ==
    \/ Receive \/ Lose
    \/ Open \/ (\E n \in 1..MaxUp : Take(n)) \/ Turn \/ Part

Spec == Init /\ [][Next]_vars
=============================================================================
