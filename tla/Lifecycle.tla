------------------------------ MODULE Lifecycle ------------------------------
(***************************************************************************)
(* The programs that govern the mint as a whole: access-control, pause and *)
(* deactivate.                                                             *)
(***************************************************************************)
EXTENDS AssetState

CONSTANT RoleBatch    \* the role lists grant_roles and revoke_roles receive

ASSUME RoleBatchAssumption == RoleBatch \subseteq SUBSET Role

\* Mutant: the caller's role is not checked.
AdminGateOpen(signer, functionality) ==
    /\ RequireNotPaused
    /\ RequireActive
    /\ RequireFunctionality(functionality)

AdminGate(signer, functionality) ==
    /\ RequireRole(signer, "ADMIN")
    /\ RequireNotPaused
    /\ RequireActive
    /\ RequireFunctionality(functionality)

GrantRoles(signer, account, batch) ==
    /\ AdminGate(signer, "ACCESS_CONTROL_GRANT_ROLES")
    /\ roles' = [roles EXCEPT ![account] = @ \cup batch]
    /\ UNCHANGED <<ledger, paused, deactivated, mode, controlList,
                   freezeState, position, holds, maxSupply, now>>

\* Nothing keeps the last administrator from revoking itself.
RevokeRoles(signer, account, batch) ==
    /\ AdminGate(signer, "ACCESS_CONTROL_REVOKE_ROLES")
    /\ roles' = [roles EXCEPT ![account] = @ \ batch]
    /\ UNCHANGED <<ledger, paused, deactivated, mode, controlList,
                   freezeState, position, holds, maxSupply, now>>

PauseGate(signer, functionality) ==
    /\ RequireRole(signer, "PAUSER")
    /\ RequireActive
    /\ RequireFunctionality(functionality)

\* Token-2022 sets the flag whatever it was.
PauseMint(signer) ==
    /\ PauseGate(signer, "PAUSE_PAUSE")
    /\ paused' = TRUE
    /\ UNCHANGED <<ledger, deactivated, roles, mode, controlList,
                   freezeState, position, holds, maxSupply, now>>

UnpauseMint(signer) ==
    /\ PauseGate(signer, "PAUSE_UNPAUSE")
    /\ paused' = FALSE
    /\ UNCHANGED <<ledger, deactivated, roles, mode, controlList,
                   freezeState, position, holds, maxSupply, now>>

\* Mutant: a paused mint can be deactivated.
DeactivateWhilePaused(signer) ==
    /\ RequireRole(signer, "DEACTIVATE")
    /\ RequireFunctionality("DEACTIVATE_DEACTIVATE")
    /\ ~deactivated
    /\ deactivated' = TRUE
    /\ UNCHANGED <<ledger, paused, roles, mode, controlList,
                   freezeState, position, holds, maxSupply, now>>

\* The marker is created with `init` and nothing closes it.
Deactivate(signer) ==
    /\ RequireRole(signer, "DEACTIVATE")
    /\ RequireNotPaused
    /\ RequireFunctionality("DEACTIVATE_DEACTIVATE")
    /\ ~deactivated
    /\ deactivated' = TRUE
    /\ UNCHANGED <<ledger, paused, roles, mode, controlList,
                   freezeState, position, holds, maxSupply, now>>

LifecycleNext ==
    \E signer \in Actor :
        \/ \E account \in Actor, batch \in RoleBatch :
              \/ GrantRoles(signer, account, batch)
              \/ RevokeRoles(signer, account, batch)
        \/ PauseMint(signer)
        \/ UnpauseMint(signer)
        \/ Deactivate(signer)

=============================================================================
