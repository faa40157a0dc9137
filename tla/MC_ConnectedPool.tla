-------------------------- MODULE MC_ConnectedPool --------------------------
(***************************************************************************)
(* Instances of ConnectedPool for TLC: requests as model values, of which  *)
(* the last has other parameters than the rest.                            *)
(***************************************************************************)
EXTENDS ConnectedPool, TLC

CONSTANTS r1, r2, r3, r4

Three == {r1, r2, r3}
Four == {r1, r2, r3, r4}

SameParams == [r \in Requests |-> "p"]
OtherParams == [r \in Requests |-> IF r = r3 THEN "q" ELSE "p"]

\* requests of the same parameters are interchangeable
Symmetry3 == Permutations(Three)
Symmetry4 == Permutations(Four)
SymmetryOther == Permutations({r1, r2})

=============================================================================
