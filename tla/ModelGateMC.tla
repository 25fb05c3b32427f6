----------------------------- MODULE ModelGateMC -----------------------------
(* Instances of ModelGate for TLC: two calls of one user and one of another. *)
EXTENDS ModelGate, TLC

CONSTANTS a1, a2, b1, A, B

MCTickets == {a1, a2, b1}
MCUsers == {A, B}
MCUserOf == [t \in MCTickets |-> IF t = b1 THEN B ELSE A]
Interchangeable == Permutations({a1, a2})
=============================================================================
