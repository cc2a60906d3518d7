----------------------------- MODULE Deployment -----------------------------
(***************************************************************************)
(* The inside of deploy_mint: sixteen steps, most of them calls of other   *)
(* programs that refuse when an earlier step has not prepared for them.    *)
(* The whole is one transaction; what the other modules start from is the  *)
(* state it ends in.  A text is known by its length, lamports are counted  *)
(* in the price of one byte.                                               *)
(***************************************************************************)
EXTENDS Integers, Sequences, SequencesExt, Functions

CONSTANTS
    Actor,        \* wallets
    Class,        \* final asset class versions
    FieldKey,     \* keys of additional metadata
    KeyLength,    \* and their lengths
    TextSize,     \* lengths of names, symbols, uris and values
    MaxFields,    \* bound: additional metadata in one deployment
    ExtensionSize,\* bytes of one extension of fixed size
    RentOverhead  \* what an account of no bytes pays for

\* DeployMintParams: the three core texts count together.
DeployMintParams == [core  : TextSize,
                     extra : BoundedSeq([key : FieldKey, value : TextSize],
                                        MaxFields),
                     class : Class]

ASSUME DeploymentAssumption ==
    /\ KeyLength \in [FieldKey -> Nat]
    /\ TextSize \subseteq Nat
    /\ MaxFields \in Nat
    /\ ExtensionSize \in Nat
    /\ RentOverhead \in Nat

VARIABLES
    deployer,      \* who deploys
    params,        \* and what
    pc,            \* the next step
    account,       \* the mint account: its lamports and its size
    extensions,    \* Token-2022: the authority of each extension
    mintAuthority, \* Token-2022: who may issue; None before initialize_mint2
    metadata,      \* Token-2022: update authority, core size, extra fields
    configuration, \* AssetConfiguration
    metaList,      \* whether the ExtraAccountMetaList has been written
    admins         \* access-control: who has ROLE_ADMIN

deployVars == <<deployer, params, pc, account, extensions, mintAuthority,
                metadata, configuration, metaList, admins>>

None == "none"

Temp == "temp_mint_authority"

\* Steps 3 to 7, in their order, each with the authority it installs.
ExtensionSteps == <<
    [ext |-> "MetadataPointer",   authority |-> None],
    [ext |-> "PermanentDelegate", authority |-> "permanent_delegate"],
    [ext |-> "PermissionedBurn",  authority |-> "permissioned_burn"],
    [ext |-> "Pausable",          authority |-> "pausable_authority"],
    [ext |-> "TransferHook",      authority |-> "transfer_hook_authority"]
  >>

\* The extensions the account is sized for.
SizedFor == {"PermanentDelegate", "MetadataPointer", "Pausable",
             "TransferHook", "PermissionedBurn"}

BaseSize == ExtensionSize * Cardinality(SizedFor)

MinimumBalance(len) == RentOverhead + len

\* One additional field: two prefixes, the key and the value.
FieldSize(key, value) == 8 + KeyLength[key] + value

\* tlv_size_of: a header of 12 bytes and 80 of prefixes and keys, the texts of
\* the fixed part, then each field.
TlvSize(core, extra) ==
    92 + core
      + SumFunctionOnSet([i \in DOMAIN extra |->
                            FieldSize(extra[i].key, extra[i].value)],
                         DOMAIN extra)

\* What is stored: Token-2022's own headers have 4 bytes, and a key occurs
\* once.
StoredSize(m) ==
    84 + m.core
      + SumFunctionOnSet([k \in DOMAIN m.extra |-> FieldSize(k, m.extra[k])],
                         DOMAIN m.extra)

DeployInit ==
    /\ deployer \in Actor
    /\ params \in DeployMintParams
    /\ pc = "create"
    /\ account = [lamports |-> 0, len |-> 0]
    /\ extensions = <<>>
    /\ mintAuthority = None
    /\ metadata = [authority |-> None, core |-> 0, extra |-> <<>>]
    /\ configuration = <<>>
    /\ metaList = FALSE
    /\ admins = {}

-----------------------------------------------------------------------------

\* Mutant: the lamports cover only what is allocated.
CreateMintAccountBaseOnly ==
    /\ pc = "create"
    /\ account' = [len |-> BaseSize, lamports |-> MinimumBalance(BaseSize)]
    /\ pc' = "extensions"
    /\ UNCHANGED <<deployer, params, extensions, mintAuthority, metadata,
                   configuration, metaList, admins>>

\* Allocated without the metadata but funded for it.
CreateMintAccount ==
    /\ pc = "create"
    /\ account' = [len |-> BaseSize,
                   lamports |-> MinimumBalance(BaseSize
                                  + TlvSize(params.core, params.extra))]
    /\ pc' = "extensions"
    /\ UNCHANGED <<deployer, params, extensions, mintAuthority, metadata,
                   configuration, metaList, admins>>

\* Token-2022 adds an extension only before the mint is initialized.
InitializeExtension ==
    /\ pc = "extensions"
    /\ mintAuthority = None
    /\ Len(extensions) < Len(ExtensionSteps)
    /\ extensions' = Append(extensions, ExtensionSteps[Len(extensions) + 1])
    /\ pc' = IF Len(extensions') = Len(ExtensionSteps) THEN "mint" ELSE pc
    /\ UNCHANGED <<deployer, params, account, mintAuthority, metadata,
                   configuration, metaList, admins>>

\* initialize_mint2 insists on the size of exactly the extensions there are.
InitializeMint ==
    /\ pc = "mint"
    /\ account.len = ExtensionSize
                       * Cardinality({e.ext : e \in ToSet(extensions)})
    /\ mintAuthority' = Temp
    /\ pc' = "metadata"
    /\ UNCHANGED <<deployer, params, account, extensions, metadata,
                   configuration, metaList, admins>>

\* Mutant: the final update authority is installed at once.
InitializeTokenMetadataFinal ==
    /\ pc = "metadata"
    /\ mintAuthority = Temp
    /\ metadata' = [authority |-> "metadata_update_authority",
                    core |-> params.core, extra |-> <<>>]
    /\ account' = [account EXCEPT !.len = @ + StoredSize(metadata')]
    /\ pc' = "fields"
    /\ UNCHANGED <<deployer, params, extensions, mintAuthority, configuration,
                   metaList, admins>>

\* Signed by the mint authority; the account grows.
InitializeTokenMetadata ==
    /\ pc = "metadata"
    /\ mintAuthority = Temp
    /\ metadata' = [authority |-> Temp, core |-> params.core, extra |-> <<>>]
    /\ account' = [account EXCEPT !.len = @ + StoredSize(metadata')]
    /\ pc' = "fields"
    /\ UNCHANGED <<deployer, params, extensions, mintAuthority, configuration,
                   metaList, admins>>

\* update_field, signed by the update authority: a key that comes again
\* replaces its value.  params.extra is what is left to write.
WriteAdditionalMetadata ==
    /\ pc = "fields"
    /\ params.extra # <<>>
    /\ metadata.authority = Temp
    /\ LET f == Head(params.extra)
       IN  metadata' = [metadata EXCEPT !.extra =
             [k \in DOMAIN metadata.extra \cup {f.key} |->
                IF k = f.key THEN f.value ELSE metadata.extra[k]]]
    /\ account' = [account EXCEPT !.len =
                     @ + StoredSize(metadata') - StoredSize(metadata)]
    /\ params' = [params EXCEPT !.extra = Tail(@)]
    /\ UNCHANGED <<deployer, pc, extensions, mintAuthority, configuration,
                   metaList, admins>>

TransferUpdateAuthority ==
    /\ pc = "fields"
    /\ params.extra = <<>>
    /\ metadata.authority = Temp
    /\ metadata' = [metadata EXCEPT !.authority = "metadata_update_authority"]
    /\ pc' = "mint_authority"
    /\ UNCHANGED <<deployer, params, account, extensions, mintAuthority,
                   configuration, metaList, admins>>

TransferMintAuthority ==
    /\ pc = "mint_authority"
    /\ mintAuthority = Temp
    /\ mintAuthority' = "mint_authority"
    /\ pc' = "configuration"
    /\ UNCHANGED <<deployer, params, account, extensions, metadata,
                   configuration, metaList, admins>>

RecordConfiguration ==
    /\ pc = "configuration"
    /\ configuration' = params.class
    /\ pc' = "meta_list"
    /\ UNCHANGED <<deployer, params, account, extensions, mintAuthority,
                   metadata, metaList, admins>>

\* `init` in the transfer-hook program (see HookMetas).
InitializeExtraAccountMetaList ==
    /\ pc = "meta_list"
    /\ ~metaList
    /\ metaList' = TRUE
    /\ pc' = "roles"
    /\ UNCHANGED <<deployer, params, account, extensions, mintAuthority,
                   metadata, configuration, admins>>

\* access-control's initialize: only for the temporary authority of the mint.
GrantAdmin ==
    /\ pc = "roles"
    /\ admins' = admins \cup {deployer}
    /\ pc' = "done"
    /\ UNCHANGED <<deployer, params, account, extensions, mintAuthority,
                   metadata, configuration, metaList>>

DeployNext ==
    \/ CreateMintAccount
    \/ InitializeExtension
    \/ InitializeMint
    \/ InitializeTokenMetadata
    \/ WriteAdditionalMetadata
    \/ TransferUpdateAuthority
    \/ TransferMintAuthority
    \/ RecordConfiguration
    \/ InitializeExtraAccountMetaList
    \/ GrantAdmin

\* A transaction does not stop half way.
DeploySpec == DeployInit /\ [][DeployNext]_deployVars /\ WF_deployVars(DeployNext)

-----------------------------------------------------------------------------

\* A mint governed by its programs alone: nothing is left with the temporary
\* authority, the metadata pointer is locked, every extension obeys the PDA of
\* one program, and the deployer is the only administrator.
GovernedByItsPrograms ==
    /\ mintAuthority = "mint_authority"
    /\ metadata.authority = "metadata_update_authority"
    /\ Temp \notin {e.authority : e \in ToSet(extensions)}
    /\ {e.ext : e \in ToSet(extensions)} = SizedFor
    /\ admins = {deployer}
    /\ configuration = params.class
    /\ metaList

\* Whatever the texts and however many fields, none of the sixteen steps is
\* refused because of the order they are made in or of what the temporary
\* authority may still sign, and in the end the mint is governed by its
\* programs.
DeploymentsGoThrough == <>(pc = "done" /\ GovernedByItsPrograms)

\* The mint can always be left rent exempt: funded once, before anything is
\* written, for at least what its metadata will take, keys that are given
\* twice included.
FundedForItsMetadata ==
    account.lamports > 0 => account.lamports >= MinimumBalance(account.len)

=============================================================================
