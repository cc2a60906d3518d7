------------------------------ MODULE MCFactory ------------------------------
(***************************************************************************)
(* Instances of Factory for TLC.                                           *)
(***************************************************************************)
EXTENDS Factory, TLC

\* Every single position of the mask, and a list that runs past its end.
Lists == {{p} : p \in Position} \cup {{0, Capacity}}

ActorSymmetry == Permutations(Actor)

=============================================================================
