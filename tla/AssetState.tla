----------------------------- MODULE AssetState -----------------------------
(***************************************************************************)
(* The on-chain state of ONE Asseto mint, shared by the modules of the     *)
(* programs that act on it, and the checks of the `common` crate that      *)
(* their handlers begin with.                                              *)
(*                                                                         *)
(* A Solana instruction is atomic: it holds write locks on the accounts it *)
(* names and any error rolls all of them back.  Each handler is therefore  *)
(* one action; a failing `require!` is a disabled action.  A program       *)
(* derived account (PDA) is keyed by (mint, token account, ...), so a PDA  *)
(* family is a function on those keys.  Where the code reads an absent PDA *)
(* as a default value the model stores that default; where absence means   *)
(* something of its own it stores NoPda.                                   *)
(***************************************************************************)
EXTENDS Integers, FiniteSets

CONSTANTS
    Account,    \* the token accounts of the mint
    Actor,      \* wallets that sign instructions
    NoPda,      \* an account that does not exist / an Option that is None
    MaxAmount,  \* the largest u64, for token amounts
    MaxHoldId,  \* the largest u64, for hold ids
    MaxTime,    \* bound: the last instant of the cluster clock
    MaxBatch,   \* bound: the longest batch one transaction carries
    Mask,       \* functionality bits of the mint's asset class version
    InitRoles   \* roles held once the deployer has set the asset up

Amount == 0..MaxAmount

HoldId == 1..MaxHoldId

\* Bit masks are sets of bits.  The roles and functionalities that only the
\* programs outside this model check are members too: they are granted and
\* enabled like the others.
Role == {"ADMIN", "CONTROLLER", "CONTROL_LIST", "CORPORATE_ACTION", "ISSUER",
         "TREASURER", "PAUSER", "FREEZE_MANAGER", "DEACTIVATE",
         "CUSTOM_DATA_MANAGER", "CAP", "DOCUMENT_MANAGER", "NOMINAL_VALUE"}

Functionality ==
    {"BOND_UPDATE_BOND_TERMS", "COUPON_CREATE_COUPON",
     "COUPON_SET_COUPON_RATE", "DEACTIVATE_DEACTIVATE",
     "FREEZE_FREEZE_ACCOUNT", "FREEZE_UNFREEZE_ACCOUNT",
     "FREEZE_PARTIALLY_FREEZE_ACCOUNT", "FREEZE_REMOVE_PARTIAL_FREEZE",
     "METADATA_UPDATE_UPDATE_METADATA_FIELD",
     "METADATA_UPDATE_REMOVE_METADATA_FIELD", "MINT_MINT",
     "OPERATIONS_BURN", "PAUSE_PAUSE", "PAUSE_UNPAUSE",
     "TRANSFER_CONTROL_INITIALIZE", "TRANSFER_CONTROL_ADD_TO_CONTROL_LIST",
     "TRANSFER_CONTROL_REMOVE_FROM_CONTROL_LIST", "TRANSFER_HOOK_EXECUTE",
     "TREASURY_SET_PAYMENT_TOKEN", "TREASURY_PAY_COUPON",
     "ACCESS_CONTROL_GRANT_ROLES", "ACCESS_CONTROL_REVOKE_ROLES",
     "CAP_MAX_SUPPLY", "OPERATIONS_CONTROLLER_TRANSFER",
     "DOCUMENT_SET_DOCUMENT", "DOCUMENT_REMOVE_DOCUMENT",
     "HOLD_CREATE_HOLD", "NOMINAL_VALUE_INITIALIZE",
     "NOMINAL_VALUE_PUBLISH", "NOMINAL_VALUE_REPUBLISH"}

ASSUME ConstantsAssumption ==
    /\ MaxAmount \in Nat
    /\ MaxHoldId \in Nat
    /\ MaxTime \in Nat
    /\ MaxBatch \in Nat
    /\ NoPda \notin Account
    /\ NoPda \notin Nat
    /\ Mask \subseteq Functionality
    /\ InitRoles \in [Actor -> SUBSET Role]

\* A mint has finitely many token accounts: only then is there a sum of their
\* balances to compare its supply with.
ASSUME FiniteAccounts == IsFiniteSet(Account)

VARIABLES
    ledger,       \* Token-2022: balance of every account, supply of the mint
    paused,       \* Token-2022: the mint's PausableConfig
    deactivated,  \* deactivate: the marker PDA exists
    roles,        \* access-control: the Roles mask of every actor
    mode,         \* transfer-control: TransferControlMode, or NoPda
    controlList,  \* transfer-control: accounts with a ControlListStatus PDA
    freezeState,  \* freeze: the FreezeState of every account
    position,     \* hold: the HoldPosition of every account
    holds,        \* hold: the Hold records, keyed by account and hold id
    maxSupply,    \* cap: MaxSupply, or NoPda
    now           \* the cluster clock

vars == <<ledger, paused, deactivated, roles, mode, controlList,
          freezeState, position, holds, maxSupply, now>>

HoldStatus == {"Active", "Expired", "Closed"}

\* created_at and initial_amount are written once and never read: left out.
Hold == [escrow      : Actor,
         destination : Account \cup {NoPda},
         current     : Amount,
         expiration  : Int,
         status      : HoldStatus]

\* An account that does not exist is told apart from every record.
ASSUME NoPdaIsNoHold == NoPda \notin Hold

Ledger == [balance : [Account -> Amount], supply : Amount]

FreezeState == [fully : BOOLEAN, frozen : Amount]

\* The FreezeState of an account that has no PDA.
Unfrozen == [fully |-> FALSE, frozen |-> 0]

HoldPosition == [held : Amount, count : 0..MaxHoldId]

\* Type correctness of the accounts of one mint; amounts stay u64.
TypeOK ==
    /\ ledger \in Ledger
    /\ paused \in BOOLEAN
    /\ deactivated \in BOOLEAN
    /\ roles \in [Actor -> SUBSET Role]
    /\ mode \in {"Whitelist", "Blacklist", NoPda}
    /\ controlList \subseteq Account
    /\ freezeState \in [Account -> FreezeState]
    /\ position \in [Account -> HoldPosition]
    /\ holds \in [Account -> [HoldId -> Hold \cup {NoPda}]]
    /\ maxSupply \in Amount \cup {NoPda}
    /\ now \in 0..MaxTime

\* deploy_mint leaves an unpaused mint of supply zero without any of the
\* programs' PDAs and one administrator; InitRoles are the grants made since.
Init ==
    /\ ledger = [balance |-> [a \in Account |-> 0], supply |-> 0]
    /\ paused = FALSE
    /\ deactivated = FALSE
    /\ roles = InitRoles
    /\ mode = NoPda
    /\ controlList = {}
    /\ freezeState = [a \in Account |-> Unfrozen]
    /\ position = [a \in Account |-> [held |-> 0, count |-> 0]]
    /\ holds = [a \in Account |-> [i \in HoldId |-> NoPda]]
    /\ maxSupply = NoPda
    /\ now = 0

-----------------------------------------------------------------------------
(***************************************************************************)
(* The checks of common/src/lib.rs.                                        *)
(***************************************************************************)

RequireActive == ~deactivated

RequireNotPaused == ~paused

\* The version is finalized (deploy_mint requires it and finalization is
\* final), so only the bit matters.
RequireFunctionality(f) == f \in Mask

RequireRole(signer, role) == role \in roles[signer]

\* 0 for an account whose HoldPosition does not exist.
HeldAmount(a) == position[a].held

\* held.checked_add(amount) fails past u64, then balance >= held + amount.
RequireHoldCovered(l, a, amount) ==
    /\ HeldAmount(a) + amount <= MaxAmount
    /\ l.balance[a] >= HeldAmount(a) + amount

-----------------------------------------------------------------------------
(***************************************************************************)
(* The cluster clock, read by Clock::get.  Slots pass whatever the programs *)
(* do.                                                                     *)
(***************************************************************************)
Tick ==
    /\ now < MaxTime
    /\ now' = now + 1
    /\ UNCHANGED <<ledger, paused, deactivated, roles, mode, controlList,
                   freezeState, position, holds, maxSupply>>

=============================================================================
