--------------------------- MODULE MCTunnelSessions ---------------------------
(* Instances of TunnelSessions for TLC: one flow of each protocol.         *)
EXTENDS TunnelSessions

CONSTANTS t1, u1

OneTcp == {t1}
OneUdp == {u1}
=============================================================================
