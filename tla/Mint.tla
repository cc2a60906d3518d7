-------------------------------- MODULE Mint --------------------------------
(***************************************************************************)
(* The mint and cap programs: issuance, and the ceiling on the supply it   *)
(* may reach.                                                              *)
(***************************************************************************)
EXTENDS Token2022

\* Mutant: an absent cap is no cap, whatever the functionality says.
RequireWithinMaxSupplyIfSet(amount) ==
    IF maxSupply = NoPda THEN TRUE ELSE ledger.supply + amount <= maxSupply

\* Without a cap an asset class that has the functionality cannot mint at
\* all; one that does not has no ceiling.
RequireWithinMaxSupply(amount) ==
    IF maxSupply = NoPda
    THEN ~RequireFunctionality("CAP_MAX_SUPPLY")
    ELSE /\ ledger.supply + amount <= MaxAmount
         /\ ledger.supply + amount <= maxSupply

\* Mutant: the marker of deactivation is not consulted.
MintGateAnyTime(signer) ==
    /\ RequireRole(signer, "ISSUER")
    /\ RequireFunctionality("MINT_MINT")

MintGate(signer) ==
    /\ RequireRole(signer, "ISSUER")
    /\ RequireActive
    /\ RequireFunctionality("MINT_MINT")

MintTokens(signer, to, amount) ==
    /\ MintGate(signer)
    /\ VerifyTransferControlMode({to})
    /\ RequireWithinMaxSupply(amount)
    /\ MoveAccepted(ledger, MintTo(to, amount))
    /\ ledger' = Moved(ledger, MintTo(to, amount))
    /\ UNCHANGED <<paused, deactivated, roles, mode, controlList,
                   freezeState, position, holds, maxSupply, now>>

MintLeg == [to : Account, amount : Amount]

\* The checked sum of the amounts of a batch.
BatchTotal(n, legs) ==
    LET total[i \in 0..n] ==
          IF i = 0 THEN 0 ELSE total[i-1] + legs[i].amount
    IN  total[n]

\* Mutant: the cap is checked for every leg on its own, before the first.
BatchMintPerLeg(signer, n, legs) ==
    LET moves == [i \in 1..n |-> MintTo(legs[i].to, legs[i].amount)]
        trace == LedgerTrace(n, moves)
    IN  /\ MintGate(signer)
        /\ \A i \in 1..n : RequireWithinMaxSupply(legs[i].amount)
        /\ VerifyTransferControlMode({legs[i].to : i \in 1..n})
        /\ \A i \in 1..n : MoveAccepted(trace[i-1], moves[i])
        /\ ledger' = trace[n]
        /\ UNCHANGED <<paused, deactivated, roles, mode, controlList,
                       freezeState, position, holds, maxSupply, now>>

\* The cap is checked once, on the total; the control list for every
\* destination before the first mint_to.
BatchMint(signer, n, legs) ==
    LET moves == [i \in 1..n |-> MintTo(legs[i].to, legs[i].amount)]
        trace == LedgerTrace(n, moves)
    IN  /\ MintGate(signer)
        /\ BatchTotal(n, legs) <= MaxAmount
        /\ RequireWithinMaxSupply(BatchTotal(n, legs))
        /\ VerifyTransferControlMode({legs[i].to : i \in 1..n})
        /\ \A i \in 1..n : MoveAccepted(trace[i-1], moves[i])
        /\ ledger' = trace[n]
        /\ UNCHANGED <<paused, deactivated, roles, mode, controlList,
                       freezeState, position, holds, maxSupply, now>>

\* Sets or moves the cap, never below what circulates.
SetMaxSupply(signer, cap) ==
    /\ RequireRole(signer, "CAP")
    /\ RequireNotPaused
    /\ RequireActive
    /\ RequireFunctionality("CAP_MAX_SUPPLY")
    /\ cap >= 1
    /\ cap >= ledger.supply
    /\ maxSupply' = cap
    /\ UNCHANGED <<ledger, paused, deactivated, roles, mode, controlList,
                   freezeState, position, holds, now>>

MintNext ==
    \E signer \in Actor :
        \/ \E to \in Account, amount \in Amount : MintTokens(signer, to, amount)
        \/ \E n \in 1..MaxBatch : \E legs \in [1..n -> MintLeg] :
              BatchMint(signer, n, legs)
        \/ \E cap \in Amount : SetMaxSupply(signer, cap)

=============================================================================
