------------------------------ MODULE Factory ------------------------------
(***************************************************************************)
(* The factory program and the deployments that build on it.  A manager    *)
(* creates asset classes; the owner of a class drafts, edits and finalizes *)
(* numbered versions of its functionality mask; deploy_mint binds a new    *)
(* mint to a final version for ever.  As in AssetState an instruction is   *)
(* one action and a PDA family a function on its seeds.                    *)
(***************************************************************************)
EXTENDS Integers

CONSTANTS
    Actor,        \* wallets that sign instructions
    NoPda,        \* an account that does not exist
    Config,       \* the config_ids of asset classes
    MaxVersion,   \* the largest u64, for version numbers
    Capacity,     \* the bits of a mask, FUNCTIONALITIES_BITS_MASK
    PositionList, \* the functionality lists enable and disable receive
    MintAddress   \* addresses of mints to be deployed

Version == 1..MaxVersion

Position == 0..(Capacity - 1)

\* STATE_DRAFT and STATE_FINALIZED.  A mask is the set of its bits.
AssetClassVersion == [state : {"Draft", "Finalized"}, mask : SUBSET Position]

FactoryAccount == [manager : Actor, pause : BOOLEAN]

AssetClassOwnership == [owner : Actor, latest : 0..MaxVersion]

AssetConfiguration == [config : Config, version : Version]

ASSUME FactoryAssumption ==
    /\ MaxVersion \in Nat
    /\ Capacity \in Nat
    /\ \A list \in PositionList : list \subseteq Nat
    /\ NoPda \notin Actor
    /\ NoPda \notin FactoryAccount
    /\ NoPda \notin AssetClassOwnership
    /\ NoPda \notin AssetClassVersion
    /\ NoPda \notin AssetConfiguration

VARIABLES
    factory,        \* the Factory singleton
    pendingManager, \* the FactoryPendingManager singleton
    ownership,      \* AssetClassOwnership, by config_id
    pendingOwner,   \* AssetClassPendingOwner, by config_id
    versions,       \* AssetClassVersion, by config_id and version
    configuration   \* deploy: AssetConfiguration, by mint

factoryVars == <<factory, pendingManager, ownership, pendingOwner, versions,
                 configuration>>

\* Type correctness of the factory's accounts; a mask never has a bit beyond
\* its capacity.
FactoryTypeOK ==
    /\ factory \in FactoryAccount \cup {NoPda}
    /\ pendingManager \in Actor \cup {NoPda}
    /\ ownership \in [Config -> AssetClassOwnership \cup {NoPda}]
    /\ pendingOwner \in [Config -> Actor \cup {NoPda}]
    /\ versions \in [Config -> [Version -> AssetClassVersion \cup {NoPda}]]
    /\ configuration \in [MintAddress -> AssetConfiguration \cup {NoPda}]

FactoryInit ==
    /\ factory = NoPda
    /\ pendingManager = NoPda
    /\ ownership = [c \in Config |-> NoPda]
    /\ pendingOwner = [c \in Config |-> NoPda]
    /\ versions = [c \in Config |-> [v \in Version |-> NoPda]]
    /\ configuration = [m \in MintAddress |-> NoPda]

-----------------------------------------------------------------------------
(***************************************************************************)
(* helpers.rs.  Naming an account in an instruction requires it to exist.  *)
(***************************************************************************)

Exists(pda) == pda # NoPda

\* Mutant: the flag is not looked at.
FactoryNotPausedIgnored == Exists(factory)

FactoryNotPaused == Exists(factory) /\ ~factory.pause

FactoryPaused == Exists(factory) /\ factory.pause

VerifyManager(signer) == signer = factory.manager

VerifyPendingManager(signer) ==
    Exists(pendingManager) /\ signer = pendingManager

VerifyOwner(signer, c) == Exists(ownership[c]) /\ signer = ownership[c].owner

VerifyPendingOwner(signer, c) ==
    Exists(pendingOwner[c]) /\ signer = pendingOwner[c]

-----------------------------------------------------------------------------
(***************************************************************************)
(* The manager.                                                            *)
(***************************************************************************)

\* Anyone may be the first manager, once.
Initialize(signer) ==
    /\ ~Exists(factory)
    /\ factory' = [manager |-> signer, pause |-> FALSE]
    /\ UNCHANGED <<pendingManager, ownership, pendingOwner, versions,
                   configuration>>

NominateManager(signer, newManager) ==
    /\ FactoryNotPaused
    /\ VerifyManager(signer)
    /\ pendingManager' = newManager
    /\ UNCHANGED <<factory, ownership, pendingOwner, versions, configuration>>

\* Mutant: the nomination account is not closed.
AcceptNominationLeavingIt(signer) ==
    /\ FactoryNotPaused
    /\ VerifyPendingManager(signer)
    /\ factory' = [factory EXCEPT !.manager = pendingManager]
    /\ UNCHANGED <<pendingManager, ownership, pendingOwner, versions,
                   configuration>>

\* `close` removes the nomination account once the manager is replaced.
AcceptNomination(signer) ==
    /\ FactoryNotPaused
    /\ VerifyPendingManager(signer)
    /\ factory' = [factory EXCEPT !.manager = pendingManager]
    /\ pendingManager' = NoPda
    /\ UNCHANGED <<ownership, pendingOwner, versions, configuration>>

CancelNomination(signer) ==
    /\ FactoryNotPaused
    /\ VerifyManager(signer)
    /\ Exists(pendingManager)
    /\ pendingManager' = NoPda
    /\ UNCHANGED <<factory, ownership, pendingOwner, versions, configuration>>

Pause(signer) ==
    /\ FactoryNotPaused
    /\ VerifyManager(signer)
    /\ factory' = [factory EXCEPT !.pause = TRUE]
    /\ UNCHANGED <<pendingManager, ownership, pendingOwner, versions,
                   configuration>>

Unpause(signer) ==
    /\ FactoryPaused
    /\ VerifyManager(signer)
    /\ factory' = [factory EXCEPT !.pause = FALSE]
    /\ UNCHANGED <<pendingManager, ownership, pendingOwner, versions,
                   configuration>>

\* `init` refuses a config_id that has been used.
CreateAssetClass(signer, c, owner) ==
    /\ FactoryNotPaused
    /\ VerifyManager(signer)
    /\ ~Exists(ownership[c])
    /\ ownership' = [ownership EXCEPT ![c] = [owner |-> owner, latest |-> 0]]
    /\ UNCHANGED <<factory, pendingManager, pendingOwner, versions,
                   configuration>>

-----------------------------------------------------------------------------
(***************************************************************************)
(* The owner of an asset class.                                            *)
(***************************************************************************)

NominateAssetClassOwner(signer, c, newOwner) ==
    /\ FactoryNotPaused
    /\ VerifyOwner(signer, c)
    /\ pendingOwner' = [pendingOwner EXCEPT ![c] = newOwner]
    /\ UNCHANGED <<factory, pendingManager, ownership, versions,
                   configuration>>

AcceptAssetClassOwnership(signer, c) ==
    /\ FactoryNotPaused
    /\ VerifyPendingOwner(signer, c)
    /\ Exists(ownership[c])
    /\ ownership' = [ownership EXCEPT ![c].owner = pendingOwner[c]]
    /\ pendingOwner' = [pendingOwner EXCEPT ![c] = NoPda]
    /\ UNCHANGED <<factory, pendingManager, versions, configuration>>

CancelAssetClassOwnership(signer, c) ==
    /\ FactoryNotPaused
    /\ VerifyOwner(signer, c)
    /\ Exists(pendingOwner[c])
    /\ pendingOwner' = [pendingOwner EXCEPT ![c] = NoPda]
    /\ UNCHANGED <<factory, pendingManager, ownership, versions,
                   configuration>>

-----------------------------------------------------------------------------
(***************************************************************************)
(* Versions.                                                               *)
(***************************************************************************)

\* Mutant: a draft may be opened for any later version.
InitAssetClassVersionAhead(signer, c, v) ==
    /\ FactoryNotPaused
    /\ VerifyOwner(signer, c)
    /\ v > ownership[c].latest
    /\ ~Exists(versions[c][v])
    /\ versions' = [versions EXCEPT ![c][v] =
                      [state |-> "Draft", mask |-> {}]]
    /\ UNCHANGED <<factory, pendingManager, ownership, pendingOwner,
                   configuration>>

\* latest_version.checked_add(1) is beyond Version at the largest u64.
InitAssetClassVersion(signer, c, v) ==
    /\ FactoryNotPaused
    /\ VerifyOwner(signer, c)
    /\ v = ownership[c].latest + 1
    /\ ~Exists(versions[c][v])
    /\ versions' = [versions EXCEPT ![c][v] =
                      [state |-> "Draft", mask |-> {}]]
    /\ UNCHANGED <<factory, pendingManager, ownership, pendingOwner,
                   configuration>>

\* The checks of the instructions that edit or finalize a draft.
DraftOf(signer, c, v) ==
    /\ FactoryNotPaused
    /\ VerifyOwner(signer, c)
    /\ Exists(versions[c][v])
    /\ versions[c][v].state = "Draft"

\* set_bits fails on a position beyond the mask, and with it the instruction.
EnableFunctionalities(signer, c, v, list) ==
    /\ DraftOf(signer, c, v)
    /\ list \subseteq Position
    /\ versions' = [versions EXCEPT ![c][v].mask = @ \cup list]
    /\ UNCHANGED <<factory, pendingManager, ownership, pendingOwner,
                   configuration>>

DisableFunctionalities(signer, c, v, list) ==
    /\ DraftOf(signer, c, v)
    /\ list \subseteq Position
    /\ versions' = [versions EXCEPT ![c][v].mask = @ \ list]
    /\ UNCHANGED <<factory, pendingManager, ownership, pendingOwner,
                   configuration>>

FinalizeAssetClassVersion(signer, c, v) ==
    /\ DraftOf(signer, c, v)
    /\ v = ownership[c].latest + 1
    /\ versions' = [versions EXCEPT ![c][v].state = "Finalized"]
    /\ ownership' = [ownership EXCEPT ![c].latest = v]
    /\ UNCHANGED <<factory, pendingManager, pendingOwner, configuration>>

-----------------------------------------------------------------------------
(***************************************************************************)
(* deploy_mint, as far as the factory's accounts are concerned: any final  *)
(* version will do, the factory's pause is not consulted.                  *)
(***************************************************************************)

\* Mutant: the constraint on the state of the version is missing.
DeployMintOnDraft(m, c, v) ==
    /\ ~Exists(configuration[m])
    /\ Exists(versions[c][v])
    /\ configuration' = [configuration EXCEPT ![m] =
                           [config |-> c, version |-> v]]
    /\ UNCHANGED <<factory, pendingManager, ownership, pendingOwner, versions>>

DeployMint(m, c, v) ==
    /\ ~Exists(configuration[m])
    /\ Exists(versions[c][v])
    /\ versions[c][v].state = "Finalized"
    /\ configuration' = [configuration EXCEPT ![m] =
                           [config |-> c, version |-> v]]
    /\ UNCHANGED <<factory, pendingManager, ownership, pendingOwner, versions>>

FactoryNext ==
    \/ \E signer \in Actor :
          \/ Initialize(signer)
          \/ \E newManager \in Actor : NominateManager(signer, newManager)
          \/ AcceptNomination(signer)
          \/ CancelNomination(signer)
          \/ Pause(signer)
          \/ Unpause(signer)
          \/ \E c \in Config :
                \/ \E owner \in Actor : CreateAssetClass(signer, c, owner)
                \/ \E newOwner \in Actor :
                      NominateAssetClassOwner(signer, c, newOwner)
                \/ AcceptAssetClassOwnership(signer, c)
                \/ CancelAssetClassOwnership(signer, c)
                \/ \E v \in Version :
                      \/ InitAssetClassVersion(signer, c, v)
                      \/ \E list \in PositionList :
                            \/ EnableFunctionalities(signer, c, v, list)
                            \/ DisableFunctionalities(signer, c, v, list)
                      \/ FinalizeAssetClassVersion(signer, c, v)
    \/ \E m \in MintAddress, c \in Config, v \in Version : DeployMint(m, c, v)

FactorySpec == FactoryInit /\ [][FactoryNext]_factoryVars

-----------------------------------------------------------------------------
(***************************************************************************)
(* Properties.                                                             *)
(***************************************************************************)

\* The comment in finalize_asset_class_version: "the only existing draft is
\* latest_version + 1".  The versions of a class are final up to the latest,
\* then comes at most one draft, and a class that was never created has none:
\* whoever owned the class when, in whatever order drafts are opened, edited
\* and finalized.  All accounts are well typed.
VersionsConsecutive ==
    /\ FactoryTypeOK
    /\ \A c \in Config, v \in Version :
         LET latest == IF Exists(ownership[c]) THEN ownership[c].latest ELSE 0
         IN  /\ Exists(versions[c][v]) => Exists(ownership[c])
             /\ v <= latest => /\ Exists(versions[c][v])
                               /\ versions[c][v].state = "Finalized"
             /\ v = latest + 1 /\ Exists(versions[c][v])
                            => versions[c][v].state = "Draft"
             /\ v > latest + 1 => ~Exists(versions[c][v])

\* The functionality bits the programs read for a mint, through its
\* AssetConfiguration, at every instruction.
MaskOf(m) == versions[configuration[m].config][configuration[m].version].mask

\* From deployment on a mint keeps its asset class version, and the bits
\* require_functionality reads for it never change, whatever the owners of
\* the class do later.  AssetState's constant Mask rests on this.
MintKeepsItsMask ==
    [][\A m \in MintAddress : Exists(configuration[m]) =>
         /\ configuration'[m] = configuration[m]
         /\ MaskOf(m)' = MaskOf(m)
      ]_factoryVars

\* While the factory is paused only unpausing and deployments happen: no
\* office changes hands, no class or version is touched.
FactoryPauseHalts ==
    [][FactoryPaused =>
         /\ factory'.manager = factory.manager
         /\ UNCHANGED <<pendingManager, ownership, pendingOwner, versions>>
      ]_factoryVars

ManagerHandover == INSTANCE Handover WITH
    Person  <- Actor,
    Nobody  <- NoPda,
    holder  <- IF Exists(factory) THEN factory.manager ELSE NoPda,
    nominee <- pendingManager

OwnerHandover(c) == INSTANCE Handover WITH
    Person  <- Actor,
    Nobody  <- NoPda,
    holder  <- IF Exists(ownership[c]) THEN ownership[c].owner ELSE NoPda,
    nominee <- pendingOwner[c]

\* The manager changes only when the nominee of the present manager accepts:
\* a cancelled, replaced or used-up nomination never makes a manager, across
\* re-nominations, pauses and earlier handovers.  The same for the owner of
\* every asset class; what leaves owner and nominee alone (a finalization) is
\* a stutter of the handover.
OfficesPass ==
    /\ ManagerHandover!Spec
    /\ [][\A c \in Config : \/ OwnerHandover(c)!Next
                            \/ UNCHANGED OwnerHandover(c)!handoverVars
         ]_factoryVars

=============================================================================
