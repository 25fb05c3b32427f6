---------------------------- MODULE JwtKeyringMC ----------------------------
EXTENDS JwtKeyring, TLC
(* Model values: kids k1 (imported), k2, k3; processes of one kind are      *)
(* interchangeable, and so are the kids not used yet.                       *)
CONSTANTS k1, k2, k3, w1, w2, s1, v1
Interchangeable == Permutations(Kids \ {Imported}) \union Permutations(Workers)
=============================================================================
