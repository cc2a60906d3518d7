------------------------------ MODULE Token2022 ------------------------------
(***************************************************************************)
(* The Token-2022 instructions the programs issue by CPI, as far as they   *)
(* touch the ledger (external code, modelled from how it is used), and the *)
(* transfer hook Token-2022 calls back.                                    *)
(*                                                                         *)
(* mint_to, transfer_checked and the permissioned burn are moves: minting  *)
(* moves from nowhere, burning moves to nowhere.                           *)
(***************************************************************************)
EXTENDS TransferControl, Freeze

Move == [from   : Account \cup {NoPda},
         to     : Account \cup {NoPda},
         amount : Amount]

Transfer(from, to, amount) == [from |-> from, to |-> to, amount |-> amount]

MintTo(to, amount) == [from |-> NoPda, to |-> to, amount |-> amount]

Burn(from, amount) == [from |-> from, to |-> NoPda, amount |-> amount]

\* Token-2022 refuses any move on a paused mint, a debit past the balance or
\* the supply, and a credit or a supply past u64.
MoveAccepted(l, m) ==
    /\ ~paused
    /\ m.from # NoPda => m.amount <= l.balance[m.from]
    /\ m.to # NoPda /\ m.to # m.from => l.balance[m.to] + m.amount <= MaxAmount
    /\ m.from = NoPda => l.supply + m.amount <= MaxAmount
    /\ m.to = NoPda => m.amount <= l.supply

\* A self-transfer returns before the amounts are touched.
Moved(l, m) ==
    IF m.from = m.to THEN l
    ELSE [balance |-> [a \in Account |->
                         IF a = m.from THEN l.balance[a] - m.amount
                         ELSE IF a = m.to THEN l.balance[a] + m.amount
                         ELSE l.balance[a]],
          supply  |-> IF m.from = NoPda THEN l.supply + m.amount
                      ELSE IF m.to = NoPda THEN l.supply - m.amount
                      ELSE l.supply]

\* The ledger after each prefix of a batch of moves.
LedgerTrace(n, moves) ==
    LET trace[i \in 0..n] ==
          IF i = 0 THEN ledger ELSE Moved(trace[i-1], moves[i])
    IN  trace

-----------------------------------------------------------------------------
(***************************************************************************)
(* transfer-hook::execute.                                                 *)
(***************************************************************************)

\* Pure comparator on the ledger given.
RequireLockedBalanceCovered(l, a, locked) ==
    /\ locked <= MaxAmount
    /\ l.balance[a] >= locked

\* Runs after the debit, on the ledger l it leaves behind.
Execute(l, from, to) ==
    /\ RequireActive
    /\ VerifyTransferControlMode({from, to})
    /\ ~freezeState[from].fully
    /\ RequireLockedBalanceCovered(l, from,
                                   freezeState[from].frozen + HeldAmount(from))
    /\ RequireFunctionality("TRANSFER_HOOK_EXECUTE")

\* Mutant: the hook is taken to run before the debit.
TransferCheckedBeforeDebit(l, from, to, amount) ==
    /\ MoveAccepted(l, Transfer(from, to, amount))
    /\ from # to => Execute(l, from, to)

\* Mutant: the hook takes the amount off a balance already debited.
TransferCheckedDebitedTwice(l, from, to, amount) ==
    LET m == Transfer(from, to, amount)
    IN  /\ MoveAccepted(l, m)
        /\ from # to => Execute(Moved(Moved(l, m), m), from, to)

\* A transfer signed by the holder or its delegate.  The hook does not run on
\* a self-transfer; it lets the permanent delegate through, whose transfers
\* (controller_transfer, hold_transfer) are plain moves.
TransferChecked(l, from, to, amount) ==
    LET m == Transfer(from, to, amount)
    IN  /\ MoveAccepted(l, m)
        /\ from # to => Execute(Moved(l, m), from, to)

-----------------------------------------------------------------------------
(***************************************************************************)
(* transfer::batch_transfer: transfer_checked leg after leg, all from one  *)
(* source.  A wallet's own transfer_checked is the batch of one leg.       *)
(***************************************************************************)
TransferLeg == [to : Account, amount : Amount]

TransferMoves(from, n, legs) ==
    [i \in 1..n |-> Transfer(from, legs[i].to, legs[i].amount)]

\* Each leg on the ledger the legs before it leave.
LegsAccepted(from, n, legs) ==
    LET trace == LedgerTrace(n, TransferMoves(from, n, legs))
    IN  \A i \in 1..n :
            TransferChecked(trace[i-1], from, legs[i].to, legs[i].amount)

BatchTransfer(from, n, legs) ==
    /\ LegsAccepted(from, n, legs)
    /\ ledger' = LedgerTrace(n, TransferMoves(from, n, legs))[n]
    /\ UNCHANGED <<paused, deactivated, roles, mode, controlList,
                   freezeState, position, holds, maxSupply, now>>

WalletTransfer(from, to, amount) ==
    /\ TransferChecked(ledger, from, to, amount)
    /\ ledger' = Moved(ledger, Transfer(from, to, amount))
    /\ UNCHANGED <<paused, deactivated, roles, mode, controlList,
                   freezeState, position, holds, maxSupply, now>>

TransferNext ==
    \E from \in Account :
        \/ \E to \in Account, amount \in Amount :
              WalletTransfer(from, to, amount)
        \/ \E n \in 1..MaxBatch : \E legs \in [1..n -> TransferLeg] :
              BatchTransfer(from, n, legs)

=============================================================================
