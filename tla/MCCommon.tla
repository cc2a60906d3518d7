------------------------------ MODULE MCCommon ------------------------------
(***************************************************************************)
(* An instance of BitMask and Merkle for TLC.  The two algorithms share    *)
(* nothing: each is explored with the other at rest.                       *)
(***************************************************************************)
EXTENDS BitMask, Merkle

MCInit == MaskInit /\ MerkleInit

MCNext ==
    \/ DOMAIN snapshot = {} /\ MaskNext /\ UNCHANGED merkleVars
    \/ bits = {} /\ MerkleNext /\ UNCHANGED maskVars

MCSpec == MCInit /\ [][MCNext]_<<maskVars, merkleVars>>

=============================================================================
