-------------------------- MODULE TransferControl --------------------------
(***************************************************************************)
(* The transfer-control program: a mode fixed once per mint and a control  *)
(* list that is the whitelist or the blacklist, according to the mode.     *)
(***************************************************************************)
EXTENDS AssetState

\* Every account of the set satisfies the active mode.
VerifyTransferControlMode(accounts) ==
    \/ mode = NoPda
    \/ mode = "Whitelist" /\ accounts \subseteq controlList
    \/ mode = "Blacklist" /\ accounts \cap controlList = {}

ControlListGate(signer, functionality) ==
    /\ RequireRole(signer, "CONTROL_LIST")
    /\ RequireNotPaused
    /\ RequireActive
    /\ RequireFunctionality(functionality)

\* The mode PDA is created with `init`: the mode is chosen once.
InitializeMode(signer, m) ==
    /\ ControlListGate(signer, "TRANSFER_CONTROL_INITIALIZE")
    /\ mode = NoPda
    /\ mode' = m
    /\ UNCHANGED <<ledger, paused, deactivated, roles, controlList,
                   freezeState, position, holds, maxSupply, now>>

\* `init_if_needed`: adding a listed account again succeeds.
AddToControlList(signer, a) ==
    /\ ControlListGate(signer, "TRANSFER_CONTROL_ADD_TO_CONTROL_LIST")
    /\ controlList' = controlList \cup {a}
    /\ UNCHANGED <<ledger, paused, deactivated, roles, mode,
                   freezeState, position, holds, maxSupply, now>>

\* The entry must exist; `close = authority` deletes it.
RemoveFromControlList(signer, a) ==
    /\ ControlListGate(signer, "TRANSFER_CONTROL_REMOVE_FROM_CONTROL_LIST")
    /\ a \in controlList
    /\ controlList' = controlList \ {a}
    /\ UNCHANGED <<ledger, paused, deactivated, roles, mode,
                   freezeState, position, holds, maxSupply, now>>

TransferControlNext ==
    \E signer \in Actor :
        \/ \E m \in {"Whitelist", "Blacklist"} : InitializeMode(signer, m)
        \/ \E a \in Account : AddToControlList(signer, a)
        \/ \E a \in Account : RemoveFromControlList(signer, a)

=============================================================================
