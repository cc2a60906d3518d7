------------------------------- MODULE Freeze -------------------------------
(***************************************************************************)
(* The freeze program.  An account may be frozen in full, in part (a       *)
(* balance that must stay), or both; the two sides live in one PDA, which  *)
(* is closed when both are clear.  Every instruction has a batch form that *)
(* runs the same step leg after leg and aborts as a whole.                 *)
(***************************************************************************)
EXTENDS AssetState

FreezeKind == {"freeze", "unfreeze", "partial", "unpartial"}

\* The functionality bit each kind of instruction is gated by.
FreezeFunctionality(kind) ==
    CASE kind = "freeze"    -> "FREEZE_FREEZE_ACCOUNT"
      [] kind = "unfreeze"  -> "FREEZE_UNFREEZE_ACCOUNT"
      [] kind = "partial"   -> "FREEZE_PARTIALLY_FREEZE_ACCOUNT"
      [] kind = "unpartial" -> "FREEZE_REMOVE_PARTIAL_FREEZE"

FreezeGate(signer, kind) ==
    /\ RequireRole(signer, "FREEZE_MANAGER")
    /\ RequireNotPaused
    /\ RequireActive
    /\ RequireFunctionality(FreezeFunctionality(kind))

\* What one leg demands of the account's state and of its argument.
FreezeLegAccepted(kind, state, balance) ==
    \/ kind = "freeze" /\ ~state.fully
    \/ kind = "unfreeze" /\ state.fully
    \/ kind = "partial" /\ balance > 0
    \/ kind = "unpartial" /\ state.frozen > 0

\* What it writes.  A state both sides of which are clear is Unfrozen: the
\* PDA is closed.
FreezeLegWritten(kind, state, balance) ==
    [fully  |-> IF kind = "freeze" THEN TRUE
                ELSE IF kind = "unfreeze" THEN FALSE ELSE state.fully,
     frozen |-> IF kind = "partial" THEN balance
                ELSE IF kind = "unpartial" THEN 0 ELSE state.frozen]

FreezeLeg == [account : Account, balance : Amount]

FreezeStep(kind, states, leg) ==
    [states EXCEPT ![leg.account] = FreezeLegWritten(kind, @, leg.balance)]

\* The freeze states after each prefix of the batch.
FreezeTrace(kind, n, legs) ==
    LET trace[i \in 0..n] ==
          IF i = 0 THEN freezeState ELSE FreezeStep(kind, trace[i-1], legs[i])
    IN  trace

\* One leg, on its own.
FreezeOne(kind, signer, leg) ==
    /\ FreezeGate(signer, kind)
    /\ FreezeLegAccepted(kind, freezeState[leg.account], leg.balance)
    /\ freezeState' = FreezeStep(kind, freezeState, leg)
    /\ UNCHANGED <<ledger, paused, deactivated, roles, mode, controlList,
                   position, holds, maxSupply, now>>

\* A batch: leg i sees what the legs before it wrote, so freezing or
\* unfreezing the same account twice aborts the whole batch.
FreezeBatch(kind, signer, n, legs) ==
    /\ FreezeGate(signer, kind)
    /\ LET trace == FreezeTrace(kind, n, legs)
       IN  /\ \A i \in 1..n :
                FreezeLegAccepted(kind, trace[i-1][legs[i].account],
                                  legs[i].balance)
           /\ freezeState' = trace[n]
    /\ UNCHANGED <<ledger, paused, deactivated, roles, mode, controlList,
                   position, holds, maxSupply, now>>

\* Only a partial freeze carries a balance.
Leg(a) == [account |-> a, balance |-> 0]

FreezeAccount(signer, a) == FreezeOne("freeze", signer, Leg(a))

UnfreezeAccount(signer, a) == FreezeOne("unfreeze", signer, Leg(a))

FreezeAccountPartial(signer, leg) == FreezeOne("partial", signer, leg)

UnfreezeAccountPartial(signer, a) == FreezeOne("unpartial", signer, Leg(a))

BatchFreezeAccount(signer, n, accounts) ==
    FreezeBatch("freeze", signer, n, [i \in 1..n |-> Leg(accounts[i])])

BatchUnfreezeAccount(signer, n, accounts) ==
    FreezeBatch("unfreeze", signer, n, [i \in 1..n |-> Leg(accounts[i])])

BatchFreezeAccountPartial(signer, n, legs) ==
    FreezeBatch("partial", signer, n, legs)

BatchUnfreezeAccountPartial(signer, n, accounts) ==
    FreezeBatch("unpartial", signer, n, [i \in 1..n |-> Leg(accounts[i])])

FreezeNext ==
    \E signer \in Actor :
        \/ \E a \in Account :
              \/ FreezeAccount(signer, a)
              \/ UnfreezeAccount(signer, a)
              \/ UnfreezeAccountPartial(signer, a)
        \/ \E leg \in FreezeLeg : FreezeAccountPartial(signer, leg)
        \/ \E n \in 1..MaxBatch :
              \/ \E accounts \in [1..n -> Account] :
                    \/ BatchFreezeAccount(signer, n, accounts)
                    \/ BatchUnfreezeAccount(signer, n, accounts)
                    \/ BatchUnfreezeAccountPartial(signer, n, accounts)
              \/ \E legs \in [1..n -> FreezeLeg] :
                    BatchFreezeAccountPartial(signer, n, legs)

=============================================================================
