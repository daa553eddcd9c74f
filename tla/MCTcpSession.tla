---------------------------- MODULE MCTcpSession ----------------------------
(* TcpSession for TLC, with the width of the numbers in its window check.  *)
EXTENDS TcpSession, SeqWindow

\* One window, and an upload that does not go around all the numbers (which no
\* session lives to see: WindowExact says that nothing is accepted at the wrap).
ASSUME WidthAssumption == Window = Wnd /\ MaxUp + 2 + Window <= Modulus

\* The 32-bit number behind number n of a stream that begins at iss.
Wrapped(iss, n) == (iss + n) % Modulus

\* Whatever number the client's stream begins with, recv's comparisons of 32-bit
\* numbers accept exactly those of the client's segments that TcpSession, whose
\* numbers do not wrap, accepts, as long as the window's end is below 2^32; from
\* then on they accept none, and rcv.nxt never moves again.
WindowExact ==
    pc = "poll" => \A iss \in SeqNumber, i \in 1..Len(pipe) :
        LET nxt == Wrapped(iss, rnxt)
            seq == Wrapped(iss, pipe[i].seq)
            len == pipe[i].len
        IN  \A last \in Last(seq, len) :
                Accepts(nxt, seq, len, last) <=> Acceptable(pipe[i]) /\ nxt + Window < Modulus
=============================================================================
