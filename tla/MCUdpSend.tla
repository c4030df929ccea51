----------------------------- MODULE MCUdpSend -----------------------------
(***************************************************************************)
(* Two tasks call udp_send on one socket, a third builds its packets step  *)
(* by step on another.                                                     *)
(***************************************************************************)
EXTENDS UdpSend, TLC

CONSTANTS a, b, c, shared, own

MCSenders == {a, b, c}
MCSocketOf == [t \in MCSenders |-> IF t = c THEN own ELSE shared]

Symmetry == Permutations({a, b})

=============================================================================
