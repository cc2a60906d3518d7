------------------------------ MODULE BitMask ------------------------------
(***************************************************************************)
(* common/src/bitmask.rs: sets of small numbers, roles of a signer or      *)
(* functionalities of an asset class version, kept in the bits of a few    *)
(* bytes.  The other modules use the sets; this one shows that the bytes   *)
(* represent them.  A mask is a function from byte indices to bytes.       *)
(***************************************************************************)
EXTENDS Integers, Sequences, SequencesExt

CONSTANTS
    MaskLen,     \* bytes of a mask
    PositionArg, \* the u16 positions the instructions receive
    MaxList      \* bound: positions in one list

MASK_CHUNK_BITS == 8

Byte == 0..(2^MASK_CHUNK_BITS - 1)

ASSUME BitMaskAssumption ==
    /\ MaskLen \in Nat \ {0}
    /\ PositionArg \subseteq Nat
    /\ MaxList \in Nat

VARIABLES
    mask, \* the bytes of the account
    bits  \* history: the set they stand for

maskVars == <<mask, bits>>

-----------------------------------------------------------------------------
(***************************************************************************)
(* The operators of u8.                                                    *)
(***************************************************************************)

Bit(byte, i) == (byte \div 2^i) % 2

\* The byte of eight bits, the lowest first.
ByteOf(b) == b[0] + 2 * b[1] + 4 * b[2] + 8 * b[3]
               + 16 * b[4] + 32 * b[5] + 64 * b[6] + 128 * b[7]

Or(x, y) ==
    ByteOf([i \in 0..7 |-> IF Bit(x, i) = 1 \/ Bit(y, i) = 1 THEN 1 ELSE 0])

And(x, y) ==
    ByteOf([i \in 0..7 |-> IF Bit(x, i) = 1 /\ Bit(y, i) = 1 THEN 1 ELSE 0])

Not(x) == ByteOf([i \in 0..7 |-> 1 - Bit(x, i)])

-----------------------------------------------------------------------------
(***************************************************************************)
(* bitmask.rs.                                                             *)
(***************************************************************************)

InRange(position) == position < MaskLen * MASK_CHUNK_BITS

\* locate, for a position in range.
Locate(position) == [byte |-> position \div MASK_CHUNK_BITS,
                     bit  |-> position % MASK_CHUNK_BITS]

\* The loops of set_bits and clear_bits end at the first position that is out
\* of range, and the instruction with them.
AllInRange(positions) == \A i \in DOMAIN positions : InRange(positions[i])

SetBits(m, positions) ==
    LET after[i \in 0..Len(positions)] ==
          IF i = 0 THEN m
          ELSE LET at == Locate(positions[i])
               IN  [after[i-1] EXCEPT ![at.byte] = Or(@, 2^at.bit)]
    IN  after[Len(positions)]

\* Mutant: the mask of the bit is not complemented.
ClearBitsUncomplemented(m, positions) ==
    LET after[i \in 0..Len(positions)] ==
          IF i = 0 THEN m
          ELSE LET at == Locate(positions[i])
               IN  [after[i-1] EXCEPT ![at.byte] = And(@, 2^at.bit)]
    IN  after[Len(positions)]

ClearBits(m, positions) ==
    LET after[i \in 0..Len(positions)] ==
          IF i = 0 THEN m
          ELSE LET at == Locate(positions[i])
               IN  [after[i-1] EXCEPT ![at.byte] = And(@, Not(2^at.bit))]
    IN  after[Len(positions)]

\* Only called where InRange.
IsSet(m, position) ==
    LET at == Locate(position) IN Bit(m[at.byte], at.bit) = 1

-----------------------------------------------------------------------------

MaskInit ==
    /\ mask = [i \in 0..(MaskLen - 1) |-> 0]
    /\ bits = {}

\* grant_roles, enable_asset_class_version_functionalities: an error undoes
\* the whole instruction.
Enable(positions) ==
    /\ AllInRange(positions)
    /\ mask' = SetBits(mask, positions)
    /\ bits' = bits \cup ToSet(positions)

\* revoke_roles, disable_asset_class_version_functionalities.
Disable(positions) ==
    /\ AllInRange(positions)
    /\ mask' = ClearBits(mask, positions)
    /\ bits' = bits \ ToSet(positions)

MaskNext ==
    \E positions \in BoundedSeq(PositionArg, MaxList) :
        Enable(positions) \/ Disable(positions)

MaskSpec == MaskInit /\ [][MaskNext]_maskVars

-----------------------------------------------------------------------------

\* Whatever lists have been enabled and disabled, with repetitions and across
\* byte boundaries, reading any position back tells the members of the set
\* and nothing else: no write disturbs a neighbouring bit or byte, and a list
\* with a position out of range has no effect at all.
MaskIsItsSet ==
    /\ \A i \in DOMAIN mask : mask[i] \in Byte
    /\ \A p \in bits : InRange(p)
    /\ \A p \in 0..(MaskLen * MASK_CHUNK_BITS - 1) :
         IsSet(mask, p) <=> p \in bits

=============================================================================
