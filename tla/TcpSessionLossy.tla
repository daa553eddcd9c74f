--------------------------- MODULE TcpSessionLossy ---------------------------
(***************************************************************************)
(* TcpSession with a TUN device that loses packets of the client: its queue*)
(* in the kernel is bounded, and the tunnel thread, which serves all flows,*)
(* may be late.                                                            *)
(***************************************************************************)
EXTENDS TcpSession

ClientSendLost(n) ==
    /\ cst = "estab" /\ CanSend /\ MayFlow(n)
    /\ csent' = csent + n
    /\ UNCHANGED <<sessionVars, pipe, tun, cst, cuna, crcv, serverVars>>

NextLossy == Next \/ \E n \in 1..MaxSeg : ClientSendLost(n)

SpecLossy == Init /\ [][NextLossy]_vars

\* The server gets the client's stream, without holes and repetitions.  recv
\* takes a segment that begins behind rcv.nxt for the one that begins there: the
\* lost bytes are missing for good, and acknowledged in the place of those that
\* came, which are then sent and forwarded again.
UploadWhole == \A i \in 1..Len(fwd) : fwd[i] = i
=============================================================================
