------------------------------- MODULE Merkle -------------------------------
(***************************************************************************)
(* common/src/merkle.rs, against the trees it is meant for: "the off-chain *)
(* Sorted-pair Merkle tree of (account, balance) pairs" of docs/coupon.md. *)
(* The balances of a snapshot are joined pairwise, in any order and so to  *)
(* a tree of any shape; every subtree could be the root that is stored.    *)
(*                                                                         *)
(* keccak is taken to be free of collisions: a digest is its own preimage, *)
(* a string of small numbers.  The first one stands for the length of the  *)
(* preimage, 40 bytes in a leaf and 64 in an inner node.                   *)
(***************************************************************************)
EXTENDS Integers, Sequences, SequencesExt

CONSTANTS
    Key,     \* accounts, as numbers
    Balance, \* balances
    MaxProof \* bound: siblings in a proof

ASSUME MerkleAssumption ==
    /\ Key \subseteq Nat
    /\ Balance \subseteq Nat
    /\ MaxProof \in Nat

LeafHash(account, balance) == <<40, account, balance>>

NodeHash(left, right) == <<64>> \o left \o right

\* <= on byte arrays: at the first difference, or one begins the other.
Leq(x, y) ==
    \/ IsPrefix(x, y)
    \/ \E i \in DOMAIN x \cap DOMAIN y :
         x[i] < y[i] /\ \A j \in 1..(i - 1) : x[j] = y[j]

\* Mutant: the pair is hashed in the order it is met.
AbsorbUnsorted(computed, sibling) == NodeHash(computed, sibling)

\* One step of the loop in verify_balance_proof.
Absorb(computed, sibling) ==
    IF Leq(computed, sibling) THEN NodeHash(computed, sibling)
                              ELSE NodeHash(sibling, computed)

VerifyBalanceProof(proof, root, account, balance) ==
    LET computed[i \in 0..Len(proof)] ==
          IF i = 0 THEN LeafHash(account, balance)
          ELSE Absorb(computed[i-1], proof[i])
    IN  computed[Len(proof)] = root

-----------------------------------------------------------------------------
(***************************************************************************)
(* The issuer's side.                                                      *)
(***************************************************************************)

VARIABLES
    snapshot, \* the balances the tree is built from
    trees,    \* the subtrees so far: accounts and root of each
    proofs    \* the siblings on the way from each account to its root

merkleVars == <<snapshot, trees, proofs>>

MerkleInit ==
    /\ snapshot \in UNION {[ks -> Balance] : ks \in SUBSET Key}
    /\ trees = {[keys |-> {k}, root |-> LeafHash(k, snapshot[k])] :
                  k \in DOMAIN snapshot}
    /\ proofs = [k \in DOMAIN snapshot |-> <<>>]

\* The parent of the tests: the smaller digest first.
Parent(x, y) == IF Leq(x, y) THEN NodeHash(x, y) ELSE NodeHash(y, x)

Join(s, t) ==
    /\ s # t
    /\ trees' = (trees \ {s, t}) \cup {[keys |-> s.keys \cup t.keys,
                                        root |-> Parent(s.root, t.root)]}
    /\ proofs' = [k \in DOMAIN proofs |->
                    CASE k \in s.keys -> Append(proofs[k], t.root)
                      [] k \in t.keys -> Append(proofs[k], s.root)
                      [] OTHER        -> proofs[k]]
    /\ UNCHANGED snapshot

MerkleNext == \E s \in trees, t \in trees : Join(s, t)

MerkleSpec == MerkleInit /\ [][MerkleNext]_merkleVars

-----------------------------------------------------------------------------

\* The digests someone without a claim could put into a proof: those of the
\* tree, and the leaf of any claim.
Digest ==
    {t.root : t \in trees}
      \cup (UNION {{proofs[k][i] : i \in DOMAIN proofs[k]} :
                     k \in DOMAIN proofs})
      \cup {LeafHash(k, b) : k \in Key, b \in Balance}

\* A root commits to its snapshot: every holder in the tree can prove their
\* balance, wherever the leaf sits and whichever way the digests sort, and no
\* proof establishes anything else - not another amount, not another account,
\* not with siblings taken from elsewhere in the tree, not with a proof that
\* is too short or too long.
RootsCommit ==
    \A t \in trees, k \in Key, b \in Balance :
        IF k \in t.keys /\ snapshot[k] = b
        THEN VerifyBalanceProof(proofs[k], t.root, k, b)
        ELSE \A proof \in BoundedSeq(Digest, MaxProof) :
               ~VerifyBalanceProof(proof, t.root, k, b)

=============================================================================
