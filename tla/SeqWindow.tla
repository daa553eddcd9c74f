------------------------------ MODULE SeqWindow ------------------------------
(***************************************************************************)
(* The window check at the head of TCPSocket::recv, with the width of its  *)
(* numbers: sequence numbers and rcv.nxt + rcv.wnd are 32 bits wide, and   *)
(* seq + len - 1 is a size_t, wider on some devices than on others.        *)
(* TcpSession has the check for numbers that do not wrap (InWindow); this  *)
(* module says when that is the same.                                      *)
(***************************************************************************)
EXTENDS Integers

CONSTANTS
    Modulus,    \* 2^32
    Window      \* rcv.wnd

ASSUME WindowAssumption == Modulus \in Nat /\ Window \in Nat \ {0} /\ Window < Modulus

SeqNumber == 0..(Modulus - 1)

\* Addition of 32-bit numbers.
Plus(a, b) == IF a + b < Modulus THEN a + b ELSE a + b - Modulus

\* The comparisons in recv.
AtMost(nxt, x) == nxt <= x /\ x <= Plus(nxt, Window)      \* mutant: <=
Below(nxt, x) == nxt <= x /\ x < Plus(nxt, Window)
Accepts(nxt, seq, len, last) == Below(nxt, seq) /\ (len > 0 => Below(nxt, last))

\* The number of a segment's last byte, as a size_t of 64 bits and of 32.
Last(seq, len) == {seq + len - 1, Plus(seq, len - 1)}

-----------------------------------------------------------------------------
(* The reference: distances modulo 2^32, as rfc9293.txt:874 wants them.    *)

Distance(a, b) == IF b >= a THEN b - a ELSE b - a + Modulus
InWindowMod(nxt, seq, len) ==
    /\ Distance(nxt, seq) < Window
    /\ len > 0 => Distance(nxt, Plus(seq, len - 1)) < Window

\* The check accepts what lies in the window of Window numbers from rcv.nxt on,
\* and nothing as long as the end of that window is past 2^32, on every device.
AcceptsExactly(nxt, seq, len) ==
    \A last \in Last(seq, len) :
        Accepts(nxt, seq, len, last) <=> InWindowMod(nxt, seq, len) /\ nxt + Window < Modulus
=============================================================================
