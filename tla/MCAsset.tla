------------------------------ MODULE MCAsset ------------------------------
(***************************************************************************)
(* Instances of Asset for TLC.  A mint's functionality mask is fixed by    *)
(* the asset class version it was deployed with, so each question is asked *)
(* of the asset class that exercises it.                                   *)
(***************************************************************************)
EXTENDS Asset, TLC

CONSTANTS op, user   \* the operator of the asset and one of its users

Everyone == {op, user}

OnlyOp == {op}

\* The operator has given itself every role.
OperatorRoles == [s \in Actor |-> IF s = op THEN Role ELSE {}]

\* The operator issues and pauses but has not appointed a controller.
NoControllerRoles ==
    [s \in Actor |-> IF s = op THEN Role \ {"CONTROLLER"} ELSE {}]

\* Issuance, transfers, seizures and burns.
MoveMask == {"MINT_MINT", "TRANSFER_HOOK_EXECUTE", "OPERATIONS_BURN",
             "OPERATIONS_CONTROLLER_TRANSFER"}

LienMask == MoveMask \cup {"HOLD_CREATE_HOLD"}

FreezeMask == {"FREEZE_FREEZE_ACCOUNT", "FREEZE_UNFREEZE_ACCOUNT",
               "FREEZE_PARTIALLY_FREEZE_ACCOUNT",
               "FREEZE_REMOVE_PARTIAL_FREEZE"}

ControlListMask == {"TRANSFER_CONTROL_INITIALIZE",
                    "TRANSFER_CONTROL_ADD_TO_CONTROL_LIST",
                    "TRANSFER_CONTROL_REMOVE_FROM_CONTROL_LIST"}

ComplianceMask == FreezeMask \cup ControlListMask
                    \cup {"MINT_MINT", "TRANSFER_HOOK_EXECUTE",
                           "HOLD_CREATE_HOLD"}

SupplyMask == LienMask \cup {"CAP_MAX_SUPPLY"}

SeizureMask == LienMask \cup {"FREEZE_PARTIALLY_FREEZE_ACCOUNT"}

\* The role lists of the lifecycle run.
AdminOrPauser == {{"ADMIN"}, {"PAUSER", "ISSUER"}}

AccountSymmetry == Permutations(Account)

=============================================================================
