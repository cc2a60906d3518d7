----------------------------- MODULE Operations -----------------------------
(***************************************************************************)
(* The operations program: what the permanent delegate of the mint does on *)
(* a controller's behalf.  No hook check binds these paths, so they check  *)
(* the hold lien themselves; freezes, the control list and the pause flag  *)
(* (beyond Token-2022's own) do not bind them.                             *)
(***************************************************************************)
EXTENDS Token2022

ControllerGate(signer, functionality) ==
    /\ RequireRole(signer, "CONTROLLER")
    /\ RequireActive
    /\ RequireFunctionality(functionality)

ControllerTransfer(signer, from, to, amount) ==
    /\ ControllerGate(signer, "OPERATIONS_CONTROLLER_TRANSFER")
    /\ RequireHoldCovered(ledger, from, amount)
    /\ MoveAccepted(ledger, Transfer(from, to, amount))
    /\ ledger' = Moved(ledger, Transfer(from, to, amount))
    /\ UNCHANGED <<paused, deactivated, roles, mode, controlList,
                   freezeState, position, holds, maxSupply, now>>

BurnTokens(signer, from, amount) ==
    /\ ControllerGate(signer, "OPERATIONS_BURN")
    /\ RequireHoldCovered(ledger, from, amount)
    /\ MoveAccepted(ledger, Burn(from, amount))
    /\ ledger' = Moved(ledger, Burn(from, amount))
    /\ UNCHANGED <<paused, deactivated, roles, mode, controlList,
                   freezeState, position, holds, maxSupply, now>>

\* Mutant: every leg checks the lien against the balances at the start.
BatchBurnStaleLien(signer, n, legs) ==
    LET moves == [i \in 1..n |-> Burn(legs[i].from, legs[i].amount)]
        trace == LedgerTrace(n, moves)
    IN  /\ ControllerGate(signer, "OPERATIONS_BURN")
        /\ \A i \in 1..n :
             /\ RequireHoldCovered(ledger, legs[i].from, legs[i].amount)
             /\ MoveAccepted(trace[i-1], moves[i])
        /\ ledger' = trace[n]
        /\ UNCHANGED <<paused, deactivated, roles, mode, controlList,
                       freezeState, position, holds, maxSupply, now>>

\* Each leg checks the lien against what the legs before it left.
BatchBurn(signer, n, legs) ==
    LET moves == [i \in 1..n |-> Burn(legs[i].from, legs[i].amount)]
        trace == LedgerTrace(n, moves)
    IN  /\ ControllerGate(signer, "OPERATIONS_BURN")
        /\ \A i \in 1..n :
             /\ RequireHoldCovered(trace[i-1], legs[i].from, legs[i].amount)
             /\ MoveAccepted(trace[i-1], moves[i])
        /\ ledger' = trace[n]
        /\ UNCHANGED <<paused, deactivated, roles, mode, controlList,
                       freezeState, position, holds, maxSupply, now>>

\* The CPI of execute_hold, open to the hold program's PDA only.
HoldTransfer(from, to, amount) ==
    /\ MoveAccepted(ledger, Transfer(from, to, amount))
    /\ ledger' = Moved(ledger, Transfer(from, to, amount))

BurnLeg == [from : Account, amount : Amount]

OperationsNext ==
    \E signer \in Actor :
        \/ \E from, to \in Account, amount \in Amount :
              ControllerTransfer(signer, from, to, amount)
        \/ \E from \in Account, amount \in Amount :
              BurnTokens(signer, from, amount)
        \/ \E n \in 1..MaxBatch : \E legs \in [1..n -> BurnLeg] :
              BatchBurn(signer, n, legs)

=============================================================================
