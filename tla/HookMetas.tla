----------------------------- MODULE HookMetas -----------------------------
(***************************************************************************)
(* How the transfer hook is handed its accounts.  deploy_mint has the hook *)
(* store a table of recipes, one per extra account; on every transfer      *)
(* Token-2022 follows them one after another, looks each address up among  *)
(* the accounts the calling program forwarded, and calls Execute, which    *)
(* has its own idea of what it is given.  The three lists are kept in step *)
(* by hand, in three files.                                                *)
(*                                                                         *)
(* An address is a sequence of names: <<"hold">> is a program,             *)
(* <<"hold", "hold_position", m, a>> a PDA of it.                          *)
(***************************************************************************)
EXTENDS Deployment

CONSTANTS
    Mint,    \* addresses the mint may have
    Wallet   \* token accounts, and authorities of transfers

\* An AssetConfiguration is a config_id and a version.
ASSUME HookMetasAssumption ==
    /\ Mint \subseteq Seq(STRING)
    /\ Wallet \subseteq Seq(STRING)
    /\ \A c \in Class : c \in Seq(STRING) /\ Len(c) = 2

Transfers == [source : Wallet, mint : Mint, destination : Wallet, owner : Wallet]

VARIABLES
    transfer,  \* the transfer being made; <<>> before there is one
    list,      \* whose control list the caller forwards for the destination
    accounts,  \* the accounts Execute will be given, as far as resolved
    status     \* "none", "resolving", "executed" or "refused"

hookVars == <<transfer, list, accounts, status>>

-----------------------------------------------------------------------------
(***************************************************************************)
(* initialize_extra_account_meta_list.                                     *)
(***************************************************************************)

\* new_with_pubkey.
Program(id) == [kind |-> "key", id |-> <<id>>]

\* new_external_pda_with_seeds: the index of the program, a literal and the
\* indices of the accounts whose keys are seeds.
Pda(program, literal, seeds) ==
    [kind |-> "pda", program |-> program, literal |-> literal,
     seeds |-> seeds]

\* The same with words in the data of one account as seeds.
PdaOfData(program, literal, index, offsets) ==
    [kind |-> "data", program |-> program, literal |-> literal,
     seeds |-> <<index>>, offsets |-> offsets]

\* Where an AssetConfiguration keeps its ids, in words of 8 bytes: the class
\* after the discriminator, then the version.
ASSET_CLASS_CONFIG_ID_OFFSET == 1

ASSET_CLASS_VERSION_ID_OFFSET == ASSET_CLASS_CONFIG_ID_OFFSET + 1

\* Mutant: the control list of the source is looked at twice.
DestinationListMetaOfSource == Pda(11, "control_list", <<1, 0>>)

DestinationListMeta == Pda(11, "control_list", <<1, 2>>)

\* Account 0 is the source, 1 the mint and 2 the destination.
Metas == <<
    Program("deploy"),
    Pda(5, "asset_configuration", <<1>>),
    Program("factory"),
    PdaOfData(7, "asset_class_version", 6,
              <<ASSET_CLASS_CONFIG_ID_OFFSET, ASSET_CLASS_VERSION_ID_OFFSET>>),
    Program("deactivate"),
    Pda(9, "deactivate", <<1>>),
    Program("transfer_control"),
    Pda(11, "transfer_control_mode", <<1>>),
    Pda(11, "control_list", <<1, 0>>),
    DestinationListMeta,
    Program("freeze"),
    Pda(15, "freeze_state", <<1, 0>>),
    Program("hold"),
    Pda(17, "hold_position", <<1, 0>>)
  >>

EXTRA_ACCOUNT_META_COUNT == 14

-----------------------------------------------------------------------------
(***************************************************************************)
(* Execute and HookAccounts.                                               *)
(***************************************************************************)

\* The constraints Anchor checks on Execute's accounts, in their order.
ExecuteAccounts(t, c) == <<
    t.source, t.mint, t.destination, t.owner,
    <<"transfer_hook", "extra-account-metas">> \o t.mint,
    <<"deploy">>,
    <<"deploy", "asset_configuration">> \o t.mint,
    <<"factory">>,
    <<"factory", "asset_class_version">> \o c,
    <<"deactivate">>,
    <<"deactivate", "deactivate">> \o t.mint,
    <<"transfer_control">>,
    <<"transfer_control", "transfer_control_mode">> \o t.mint,
    <<"transfer_control", "control_list">> \o t.mint \o t.source,
    <<"transfer_control", "control_list">> \o t.mint \o t.destination,
    <<"freeze">>,
    <<"freeze", "freeze_state">> \o t.mint \o t.source,
    <<"hold">>,
    <<"hold", "hold_position">> \o t.mint \o t.source
  >>

\* HookAccounts::ordered as batch_transfer fills it in: its own constraints
\* fix every account but the control list of the destination, one of the
\* remaining accounts and whatever the caller passes.
Ordered(t, c, l) == {
    <<"transfer_hook", "extra-account-metas">> \o t.mint,
    <<"transfer_hook">>,
    <<"deploy">>,
    <<"deploy", "asset_configuration">> \o t.mint,
    <<"factory">>,
    <<"factory", "asset_class_version">> \o c,
    <<"deactivate">>,
    <<"deactivate", "deactivate">> \o t.mint,
    <<"transfer_control">>,
    <<"transfer_control", "transfer_control_mode">> \o t.mint,
    <<"transfer_control", "control_list">> \o t.mint \o t.source,
    <<"transfer_control", "control_list">> \o t.mint \o l,
    <<"freeze">>,
    <<"freeze", "freeze_state">> \o t.mint \o t.source,
    <<"hold">>,
    <<"hold", "hold_position">> \o t.mint \o t.source
  }

-----------------------------------------------------------------------------
(***************************************************************************)
(* Token-2022 resolves the table and calls the hook.                       *)
(***************************************************************************)

HookInit ==
    /\ DeployInit
    /\ transfer = <<>>
    /\ list = <<>>
    /\ accounts = <<>>
    /\ status = "none"

\* Any transfer of the deployed mint; the caller of a batch passes the control
\* list of some account.  Five accounts come with the call.
TransferChecked ==
    /\ pc = "done"
    /\ metaList
    /\ status = "none"
    /\ transfer' \in Transfers
    /\ list' \in Wallet
    /\ accounts' = SubSeq(ExecuteAccounts(transfer', configuration), 1, 5)
    /\ status' = "resolving"

\* The accounts a recipe refers to, which have to be resolved before it.
References(meta) ==
    IF meta.kind = "key" THEN {} ELSE {meta.program} \cup ToSet(meta.seeds)

\* The data of an account.  Only the AssetConfiguration of the mint matters.
DataOf(address) ==
    IF address = <<"deploy", "asset_configuration">> \o transfer.mint
    THEN <<"discriminator">> \o configuration
    ELSE <<>>

\* A word past the end of the data names no account anybody forwards.
Word(data, offset) ==
    IF offset < Len(data) THEN data[offset + 1] ELSE "missing"

\* Indices and offsets count from 0, sequences from 1.
Resolved(meta) ==
    LET At(i) == accounts[i + 1]
    IN  CASE meta.kind = "key"  -> meta.id
          [] meta.kind = "pda"  -> At(meta.program) \o <<meta.literal>>
               \o FlattenSeq([j \in DOMAIN meta.seeds |-> At(meta.seeds[j])])
          [] meta.kind = "data" -> At(meta.program) \o <<meta.literal>>
               \o [j \in DOMAIN meta.offsets |->
                     Word(DataOf(At(meta.seeds[1])), meta.offsets[j])]

\* The next recipe; an account that was not forwarded fails the transfer.
ResolveNext ==
    /\ status = "resolving"
    /\ Len(accounts) < 5 + EXTRA_ACCOUNT_META_COUNT
    /\ LET meta == Metas[Len(accounts) - 4]
       IN  IF /\ \A i \in References(meta) : i < Len(accounts)
              /\ Resolved(meta) \in Ordered(transfer, configuration, list)
           THEN accounts' = Append(accounts, Resolved(meta)) /\ UNCHANGED status
           ELSE status' = "refused" /\ UNCHANGED accounts
    /\ UNCHANGED <<transfer, list>>

\* The hook is called, and checks its accounts before it does anything.
CallExecute ==
    /\ status = "resolving"
    /\ Len(accounts) = 5 + EXTRA_ACCOUNT_META_COUNT
    /\ status' = IF accounts = ExecuteAccounts(transfer, configuration)
                 THEN "executed" ELSE "refused"
    /\ UNCHANGED <<transfer, list, accounts>>

HookNext ==
    \/ DeployNext /\ UNCHANGED hookVars
    \/ (TransferChecked \/ ResolveNext \/ CallExecute) /\ UNCHANGED deployVars

\* Neither the deployment nor, once it is made, a transfer stops half way.
HookSpec ==
    /\ HookInit
    /\ [][HookNext]_<<deployVars, hookVars>>
    /\ WF_<<deployVars, hookVars>>(HookNext)

-----------------------------------------------------------------------------

\* Any transfer whose caller forwards the control list of its destination
\* gets through to the hook's own checks: every recipe refers to accounts
\* that come before it, names an account the programs forward, and yields the
\* one Execute expects at that place, whatever the mint, its asset class
\* version, the two token accounts and whoever signs.
HonestTransfersReachTheHook ==
    (status = "resolving" /\ list = transfer.destination)
        ~> (status = "executed")

=============================================================================
