--------------------------- MODULE MCSessionManager ---------------------------
(* Instances of SessionManager for TLC: model values for flows and objects.*)
EXTENDS SessionManager, TLC

CONSTANTS t1, t2, u1, o1, o2, o3

OneTcp == {t1}
TwoTcp == {t1, t2}
OneUdp == {u1}
TwoObjects == {o1, o2}
ThreeObjects == {o1, o2, o3}

\* The addresses of Session objects are interchangeable.
ObjectSymmetry == Permutations(Objects)
=============================================================================
