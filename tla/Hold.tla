-------------------------------- MODULE Hold --------------------------------
(***************************************************************************)
(* The hold program.  A hold is a lien on a token account: the tokens stay *)
(* where they are, `held` of the account's position is the sum of what its *)
(* active holds still claim, and the transfer hook and the operations      *)
(* program keep that much of the balance in place.                         *)
(***************************************************************************)
EXTENDS Operations

CONSTANT Expiration   \* the expirations holds are created with

ASSUME ExpirationAssumption == Expiration \subseteq Int

Monus(a, b) == IF a >= b THEN a - b ELSE 0      \* saturating_sub

\* Mutant: what other holds claim already is available to this one too.
RecordNewHoldOverlapping(a, id, amount, expiration, escrow, destination) ==
    /\ ~freezeState[a].fully
    /\ amount > 0
    /\ expiration > now
    /\ id = position[a].count + 1
    /\ Monus(ledger.balance[a], freezeState[a].frozen) >= amount
    /\ position[a].held + amount <= MaxAmount
    /\ position' = [position EXCEPT
                      ![a] = [held |-> @.held + amount, count |-> id]]
    /\ holds' = [holds EXCEPT ![a][id] =
                   [escrow      |-> escrow,
                    destination |-> destination,
                    current     |-> amount,
                    expiration  |-> expiration,
                    status      |-> "Active"]]

\* Validates the request and appends the hold.  The id is the client's, so
\* that the record's address can be derived; it must be the next one.
RecordNewHold(a, id, amount, expiration, escrow, destination) ==
    LET available == Monus(Monus(ledger.balance[a], freezeState[a].frozen),
                           position[a].held)
    IN  /\ ~freezeState[a].fully
        /\ amount > 0
        /\ expiration > now
        /\ id = position[a].count + 1
        /\ available >= amount
        /\ position[a].held + amount <= MaxAmount
        /\ holds[a][id] = NoPda
        /\ position' = [position EXCEPT
                          ![a] = [held |-> @.held + amount, count |-> id]]
        /\ holds' = [holds EXCEPT ![a][id] =
                       [escrow      |-> escrow,
                        destination |-> destination,
                        current     |-> amount,
                        expiration  |-> expiration,
                        status      |-> "Active"]]

\* Mutant: the pause flag is left to Token-2022.
HoldGateIgnoringPause ==
    /\ RequireActive
    /\ RequireFunctionality("HOLD_CREATE_HOLD")

HoldGate ==
    /\ RequireNotPaused
    /\ RequireActive
    /\ RequireFunctionality("HOLD_CREATE_HOLD")

\* Signed by the owner of the token account.
CreateHold(a, id, amount, expiration, escrow, destination) ==
    /\ HoldGate
    /\ RecordNewHold(a, id, amount, expiration, escrow, destination)
    /\ UNCHANGED <<ledger, paused, deactivated, roles, mode, controlList,
                   freezeState, maxSupply, now>>

\* Imposed by a controller, without the owner's signature.
ControllerCreateHold(signer, a, id, amount, expiration, escrow, destination) ==
    /\ RequireRole(signer, "CONTROLLER")
    /\ HoldGate
    /\ RecordNewHold(a, id, amount, expiration, escrow, destination)
    /\ UNCHANGED <<ledger, paused, deactivated, roles, mode, controlList,
                   freezeState, maxSupply, now>>

-----------------------------------------------------------------------------
ActiveHold(a, id) ==
    /\ holds[a][id] # NoPda
    /\ holds[a][id].status = "Active"

\* Mutant: a partial resolution frees the whole hold.
ReduceLienWhole(a, id, amount, statusAtZero) ==
    LET left == holds[a][id].current - amount
    IN  /\ holds[a][id].current <= position[a].held
        /\ position' = [position EXCEPT ![a].held = @ - holds[a][id].current]
        /\ holds' = [holds EXCEPT
                       ![a][id].current = left,
                       ![a][id].status  = IF left = 0 THEN statusAtZero ELSE @]

\* Mutant: a hold resolved to zero is left active.
ReduceLienLeavingActive(a, id, amount, statusAtZero) ==
    /\ amount <= position[a].held
    /\ position' = [position EXCEPT ![a].held = @ - amount]
    /\ holds' = [holds EXCEPT ![a][id].current = @ - amount]

\* `amount` leaves the lien; both subtractions are checked.
ReduceLien(a, id, amount, statusAtZero) ==
    LET left == holds[a][id].current - amount
    IN  /\ amount <= position[a].held
        /\ position' = [position EXCEPT ![a].held = @ - amount]
        /\ holds' = [holds EXCEPT
                       ![a][id].current = left,
                       ![a][id].status  = IF left = 0 THEN statusAtZero ELSE @]

\* Mutant: the executed amount is counted twice.
SourceCoversTwice(a, amount) ==
    /\ ~freezeState[a].fully
    /\ amount <= position[a].held
    /\ RequireLockedBalanceCovered(ledger, a,
           freezeState[a].frozen + position[a].held + amount)

\* What execute_hold demands of the source account: not frozen in full, and
\* the balance covers the partial freeze, the other holds and this amount.
SourceCovers(a, amount) ==
    LET heldAfter == position[a].held - amount
    IN  /\ ~freezeState[a].fully
        /\ amount <= position[a].held
        /\ RequireLockedBalanceCovered(ledger, a,
               freezeState[a].frozen + heldAfter + amount)

\* Mutant: the destination a hold is pinned to is not compared.
ExecuteHoldUnpinned(signer, a, id, to, amount) ==
    /\ HoldGate
    /\ ActiveHold(a, id)
    /\ signer = holds[a][id].escrow
    /\ now < holds[a][id].expiration
    /\ amount > 0
    /\ amount <= holds[a][id].current
    /\ VerifyTransferControlMode({a, to})
    /\ SourceCovers(a, amount)
    /\ ReduceLien(a, id, amount, "Closed")
    /\ HoldTransfer(a, to, amount)
    /\ UNCHANGED <<paused, deactivated, roles, mode, controlList,
                   freezeState, maxSupply, now>>

\* Mutant: only the source is looked up in the control list, as at creation.
ExecuteHoldSourceListed(signer, a, id, to, amount) ==
    /\ HoldGate
    /\ ActiveHold(a, id)
    /\ signer = holds[a][id].escrow
    /\ now < holds[a][id].expiration
    /\ amount > 0
    /\ amount <= holds[a][id].current
    /\ holds[a][id].destination \in {NoPda, to}
    /\ VerifyTransferControlMode({a})
    /\ SourceCovers(a, amount)
    /\ ReduceLien(a, id, amount, "Closed")
    /\ HoldTransfer(a, to, amount)
    /\ UNCHANGED <<paused, deactivated, roles, mode, controlList,
                   freezeState, maxSupply, now>>

\* The escrow takes the tokens, in whole or in part, before expiration.  A
\* destination equal to the source is admitted; a framework that refuses the
\* same account twice only removes steps.
ExecuteHold(signer, a, id, to, amount) ==
    /\ HoldGate
    /\ ActiveHold(a, id)
    /\ signer = holds[a][id].escrow
    /\ now < holds[a][id].expiration
    /\ amount > 0
    /\ amount <= holds[a][id].current
    /\ holds[a][id].destination \in {NoPda, to}
    /\ VerifyTransferControlMode({a, to})
    /\ SourceCovers(a, amount)
    /\ ReduceLien(a, id, amount, "Closed")
    /\ HoldTransfer(a, to, amount)
    /\ UNCHANGED <<paused, deactivated, roles, mode, controlList,
                   freezeState, maxSupply, now>>

\* Mutant: a release is bounded by the account's position, not by the hold.
ReleaseHoldUnbounded(signer, a, id, amount) ==
    /\ RequireFunctionality("HOLD_CREATE_HOLD")
    /\ ActiveHold(a, id)
    /\ signer = holds[a][id].escrow
    /\ amount > 0
    /\ ReduceLien(a, id, amount, "Closed")
    /\ UNCHANGED <<ledger, paused, deactivated, roles, mode, controlList,
                   freezeState, maxSupply, now>>

\* The escrow gives part of its claim up, at any time, even on a paused or
\* deactivated mint.
ReleaseHold(signer, a, id, amount) ==
    /\ RequireFunctionality("HOLD_CREATE_HOLD")
    /\ ActiveHold(a, id)
    /\ signer = holds[a][id].escrow
    /\ amount > 0
    /\ amount <= holds[a][id].current
    /\ ReduceLien(a, id, amount, "Closed")
    /\ UNCHANGED <<ledger, paused, deactivated, roles, mode, controlList,
                   freezeState, maxSupply, now>>

\* Mutant: a resolved hold can be reclaimed again.
ReclaimHoldAgain(a, id) ==
    /\ RequireFunctionality("HOLD_CREATE_HOLD")
    /\ holds[a][id] # NoPda
    /\ now >= holds[a][id].expiration
    /\ ReduceLien(a, id, holds[a][id].current, "Expired")
    /\ UNCHANGED <<ledger, paused, deactivated, roles, mode, controlList,
                   freezeState, maxSupply, now>>

\* Mutant: reclaiming is gated like the other hold instructions.
ReclaimHoldGated(a, id) ==
    /\ HoldGate
    /\ ActiveHold(a, id)
    /\ now >= holds[a][id].expiration
    /\ ReduceLien(a, id, holds[a][id].current, "Expired")
    /\ UNCHANGED <<ledger, paused, deactivated, roles, mode, controlList,
                   freezeState, maxSupply, now>>

\* Anyone clears what is left of a hold from its expiration on.
ReclaimHold(a, id) ==
    /\ RequireFunctionality("HOLD_CREATE_HOLD")
    /\ ActiveHold(a, id)
    /\ now >= holds[a][id].expiration
    /\ ReduceLien(a, id, holds[a][id].current, "Expired")
    /\ UNCHANGED <<ledger, paused, deactivated, roles, mode, controlList,
                   freezeState, maxSupply, now>>

HoldNext ==
    \E a \in Account, id \in HoldId :
        \/ \E amount \in Amount, expiration \in Expiration, escrow \in Actor,
              destination \in Account \cup {NoPda} :
              \/ CreateHold(a, id, amount, expiration, escrow, destination)
              \/ \E signer \in Actor :
                    ControllerCreateHold(signer, a, id, amount, expiration,
                                         escrow, destination)
        \/ \E signer \in Actor, amount \in Amount :
              \/ \E to \in Account : ExecuteHold(signer, a, id, to, amount)
              \/ ReleaseHold(signer, a, id, amount)
        \/ ReclaimHold(a, id)

=============================================================================
