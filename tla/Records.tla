------------------------------ MODULE Records ------------------------------
(***************************************************************************)
(* What is published about one asset: the nominal-value, document and      *)
(* metadata-update programs, under the roles, the pause and the            *)
(* deactivation of the mint.  The last two keep texts of varying length in *)
(* accounts that must hold the rent for their size: a text is known by its *)
(* length, lamports are counted in the price of one byte.                  *)
(***************************************************************************)
EXTENDS Lifecycle, Sequences, Functions

CONSTANTS
    Value,        \* nominal values
    MaxEvents,    \* bound: nominal value events
    DocumentName, \* names of documents
    TextArg,      \* uris and metadata values the instructions receive
    KeyArg,       \* keys of metadata fields, as they are spelled
    TextLength,   \* bytes of each of these texts
    Lowercase,    \* str::to_lowercase on keys
    Deployed,     \* the metadata deploy_mint wrote
    RentOverhead, \* what an account of no bytes pays for
    BaseSize,     \* the mint account without its metadata
    MaxLamports   \* bound: what a stranger leaves at the address of a document

CoreField == {"name", "symbol", "uri"}

\* Currency, decimals and publish type are written once and never read.
NominalValue == [value : Value \cup {0}, effective : Nat]

NominalEvent == [kind : {"Published", "Republished"}, value : Value,
                 effective : Nat]

\* TokenMetadata; additional_metadata is a function on its keys.
TokenMetadata == [core  : [CoreField -> TextArg],
                  extra : UNION {[ks -> TextArg] : ks \in SUBSET KeyArg}]

\* An address of the document program: its data length, its lamports and,
\* once it has been written, its uri.  The hash is written with the uri.
DocumentAccount ==
    [len : Nat, lamports : Nat,
     uri : {t \in TextArg : TextLength[t] > 0} \cup {NoPda}]

Untouched == [len |-> 0, lamports |-> 0, uri |-> NoPda]

ASSUME RecordsAssumption ==
    /\ Value \subseteq Nat
    /\ MaxEvents \in Nat
    /\ TextLength \in [TextArg \cup KeyArg -> Nat]
    /\ Lowercase \in [KeyArg -> CoreField \cup KeyArg]
    /\ Deployed \in TokenMetadata
    /\ RentOverhead \in Nat \ {0}
    /\ BaseSize \in Nat
    /\ MaxLamports \in Nat
    /\ NoPda \notin NominalValue
    /\ NoPda \notin TextArg

\* deploy_mint wrote finitely many custom fields: only then do they have a size.
ASSUME FiniteDeployed == IsFiniteSet(DOMAIN Deployed.extra)

VARIABLES
    nominal,       \* nominal-value: the NominalValue account
    nominalEvents, \* nominal-value: the events emitted so far
    documents,     \* document: the accounts at the document addresses
    metadata,      \* Token-2022: the TokenMetadata of the mint
    mintLamports   \* Token-2022: the lamports of the mint account

recordsVars == <<nominal, nominalEvents, documents, metadata, mintLamports>>

\* Rent::minimum_balance.
MinimumBalance(len) == RentOverhead + len

CoreSizes(m) == [f \in CoreField |-> TextLength[m.core[f]]]

ExtraSizes(m) ==
    [k \in DOMAIN m.extra |-> 8 + TextLength[k] + TextLength[m.extra[k]]]

\* packed_meta_size: 32 + 32 + 4 * 4, then each text after its own prefix.
PackedMetaSize(m) ==
    80 + SumFunctionOnSet(CoreSizes(m), CoreField)
       + SumFunctionOnSet(ExtraSizes(m), DOMAIN m.extra)

\* Type correctness of what is published about a mint; a document that exists
\* has a uri.
RecordsTypeOK ==
    /\ nominal \in NominalValue \cup {NoPda}
    /\ nominalEvents \in Seq(NominalEvent)
    /\ documents \in [DocumentName -> DocumentAccount]
    /\ metadata \in TokenMetadata
    /\ mintLamports \in Nat

\* deploy_mint funds the mint for the metadata it writes.
RecordsInit ==
    /\ Init
    /\ nominal = NoPda
    /\ nominalEvents = <<>>
    /\ documents = [n \in DocumentName |-> Untouched]
    /\ metadata = Deployed
    /\ mintLamports = MinimumBalance(BaseSize + PackedMetaSize(Deployed))

\* Mutant: require_active is forgotten.
RecordsGateForEver(signer, role, functionality) ==
    /\ RequireRole(signer, role)
    /\ RequireNotPaused
    /\ RequireFunctionality(functionality)

\* The checks every instruction of this module begins with.
RecordsGate(signer, role, functionality) ==
    /\ RequireRole(signer, role)
    /\ RequireNotPaused
    /\ RequireActive
    /\ RequireFunctionality(functionality)

-----------------------------------------------------------------------------
(***************************************************************************)
(* The nominal-value program.                                              *)
(***************************************************************************)

InitializeNominalValue(signer) ==
    /\ RecordsGate(signer, "ADMIN", "NOMINAL_VALUE_INITIALIZE")
    /\ nominal = NoPda
    /\ nominal' = [value |-> 0, effective |-> 0]
    /\ UNCHANGED <<nominalEvents, documents, metadata, mintLamports>>

\* Mutant: a closed period can be published a second time.
NewPeriodOrSame(effective) ==
    /\ effective > 0
    /\ effective >= nominal.effective
    /\ effective < now

\* A period is published once it is over, and later than the current one.
NewPeriod(effective) ==
    /\ effective > 0
    /\ effective > nominal.effective
    /\ effective < now

PublishNominalValue(signer, value, effective) ==
    /\ RecordsGate(signer, "NOMINAL_VALUE", "NOMINAL_VALUE_PUBLISH")
    /\ nominal # NoPda
    /\ NewPeriod(effective)
    /\ nominal' = [value |-> value, effective |-> effective]
    /\ Len(nominalEvents) < MaxEvents
    /\ nominalEvents' = Append(nominalEvents,
         [kind |-> "Published", value |-> value, effective |-> effective])
    /\ UNCHANGED <<documents, metadata, mintLamports>>

\* Corrects the value of the current period.
RepublishNominalValue(signer, value, effective) ==
    /\ RecordsGate(signer, "NOMINAL_VALUE", "NOMINAL_VALUE_REPUBLISH")
    /\ nominal # NoPda
    /\ effective > 0
    /\ effective = nominal.effective
    /\ nominal' = [nominal EXCEPT !.value = value]
    /\ Len(nominalEvents) < MaxEvents
    /\ nominalEvents' = Append(nominalEvents,
         [kind |-> "Republished", value |-> value, effective |-> effective])
    /\ UNCHANGED <<documents, metadata, mintLamports>>

-----------------------------------------------------------------------------
(***************************************************************************)
(* The document program and the account helpers of common/src/pda_utils.rs *)
(***************************************************************************)

\* 8 + 97 + 4 + uri_len.
DocumentSpace(uri) == 109 + TextLength[uri]

\* Mutant: the shortfall is not paid in.
ResizePdaUnpaid(account, space) == [account EXCEPT !.len = space]

\* A new size is paid up or refunded to exactly its rent; the same size is
\* left alone.
ResizePda(account, space) ==
    IF space = account.len
    THEN account
    ELSE [account EXCEPT !.len = space, !.lamports = MinimumBalance(space)]

\* create_account, or, where lamports lie at the address, assign and resize.
CreateOrAdoptPda(account, space) ==
    IF account.lamports = 0
    THEN [account EXCEPT !.len = space, !.lamports = MinimumBalance(space)]
    ELSE ResizePda(account, space)

SetDocument(signer, n, uri) ==
    LET old == documents[n]
        new == IF old.len = 0 THEN CreateOrAdoptPda(old, DocumentSpace(uri))
                              ELSE ResizePda(old, DocumentSpace(uri))
    IN  /\ RecordsGate(signer, "DOCUMENT_MANAGER", "DOCUMENT_SET_DOCUMENT")
        /\ TextLength[uri] > 0
        /\ documents' = [documents EXCEPT ![n] = [new EXCEPT !.uri = uri]]
        /\ UNCHANGED <<nominal, nominalEvents, metadata, mintLamports>>

\* `close` hands all lamports to the payer.
RemoveDocument(signer, n) ==
    /\ RecordsGate(signer, "DOCUMENT_MANAGER", "DOCUMENT_REMOVE_DOCUMENT")
    /\ documents[n].uri # NoPda
    /\ documents' = [documents EXCEPT ![n] = Untouched]
    /\ UNCHANGED <<nominal, nominalEvents, metadata, mintLamports>>

\* Anyone can send lamports to the address of a document, before or after it
\* is created; the runtime refuses to leave an account short of its rent.
SendLamports(n, lamports) ==
    /\ documents[n].lamports + lamports
         \in MinimumBalance(documents[n].len) .. MaxLamports
    /\ documents' = [documents EXCEPT ![n].lamports = @ + lamports]
    /\ UNCHANGED <<nominal, nominalEvents, metadata, mintLamports>>

-----------------------------------------------------------------------------
(***************************************************************************)
(* The metadata-update program.                                            *)
(***************************************************************************)

\* Mutant: the spelling of the key is compared as it stands.
ToFieldCaseSensitive(key) ==
    IF key \in CoreField THEN [core |-> TRUE, key |-> key]
                         ELSE [core |-> FALSE, key |-> key]

\* to_field: a core field in any spelling, or a custom key as it is spelled.
ToField(key) ==
    IF Lowercase[key] \in CoreField
    THEN [core |-> TRUE, key |-> Lowercase[key]]
    ELSE [core |-> FALSE, key |-> key]

FieldRole(field) ==
    IF field.core /\ field.key \in {"name", "symbol"}
    THEN "ADMIN" ELSE "CUSTOM_DATA_MANAGER"

\* Mutant: the two length prefixes of a new entry are forgotten.
NewPackedMetaSizeShort(m, field, text) ==
    LET old == IF field.core THEN TextLength[m.core[field.key]]
               ELSE IF field.key \in DOMAIN m.extra
                    THEN TextLength[m.extra[field.key]]
                    ELSE -TextLength[field.key]
    IN  PackedMetaSize(m) - old + TextLength[text]

\* new_packed_meta_size: what the metadata will need once the field is set.
NewPackedMetaSize(m, field, text) ==
    LET old == IF field.core THEN TextLength[m.core[field.key]]
               ELSE IF field.key \in DOMAIN m.extra
                    THEN TextLength[m.extra[field.key]]
                    ELSE -(8 + TextLength[field.key])
    IN  PackedMetaSize(m) - old + TextLength[text]

\* Token-2022 update_field.
FieldUpdated(m, field, text) ==
    IF field.core
    THEN [m EXCEPT !.core[field.key] = text]
    ELSE [m EXCEPT !.extra = [k \in DOMAIN m.extra \cup {field.key} |->
                                IF k = field.key THEN text ELSE m.extra[k]]]

\* The payer tops up the rent if the metadata grows.
ToppedUp(m, field, text) ==
    LET rent == MinimumBalance(BaseSize + NewPackedMetaSize(m, field, text))
    IN  IF NewPackedMetaSize(m, field, text) > PackedMetaSize(m)
           /\ rent > mintLamports
        THEN rent ELSE mintLamports

UpdateMetadataField(signer, key, text) ==
    LET field == ToField(key)
    IN  /\ RecordsGate(signer, FieldRole(field),
                       "METADATA_UPDATE_UPDATE_METADATA_FIELD")
        /\ mintLamports' = ToppedUp(metadata, field, text)
        /\ metadata' = FieldUpdated(metadata, field, text)
        /\ UNCHANGED <<nominal, nominalEvents, documents>>

\* Token-2022 remove_key: only a custom key, spelled as it was written; one
\* that is not there is an error unless the call is idempotent.
RemoveMetadataField(signer, key, idempotent) ==
    /\ RecordsGate(signer, "CUSTOM_DATA_MANAGER",
                   "METADATA_UPDATE_REMOVE_METADATA_FIELD")
    /\ key \in DOMAIN metadata.extra \/ idempotent
    /\ metadata' = [metadata EXCEPT !.extra =
         [k \in DOMAIN metadata.extra \ {key} |-> metadata.extra[k]]]
    /\ UNCHANGED <<nominal, nominalEvents, documents, mintLamports>>

RecordsStep ==
    \/ \E signer \in Actor :
          \/ InitializeNominalValue(signer)
          \/ \E value \in Value, effective \in 0..MaxTime :
                \/ PublishNominalValue(signer, value, effective)
                \/ RepublishNominalValue(signer, value, effective)
          \/ \E n \in DocumentName :
                \/ \E uri \in TextArg : SetDocument(signer, n, uri)
                \/ RemoveDocument(signer, n)
          \/ \E key \in KeyArg :
                \/ \E text \in TextArg : UpdateMetadataField(signer, key, text)
                \/ \E idempotent \in BOOLEAN :
                      RemoveMetadataField(signer, key, idempotent)
    \/ \E n \in DocumentName, lamports \in 1..MaxLamports :
          SendLamports(n, lamports)

RecordsNext ==
    \/ RecordsStep /\ UNCHANGED vars
    \/ (LifecycleNext \/ Tick) /\ UNCHANGED recordsVars

RecordsSpec == RecordsInit /\ [][RecordsNext]_<<vars, recordsVars>>

-----------------------------------------------------------------------------
(***************************************************************************)
(* Properties.                                                             *)
(***************************************************************************)

\* The history of the nominal value can be read off the events: periods come
\* in order, each one opens with a single publication and is then only
\* corrected, none lies in the future, and the last event is what the account
\* says.
EventsTellTheHistory ==
    LET n == Len(nominalEvents)
    IN  /\ \A i \in 1..n :
             LET before == IF i = 1 THEN 0 ELSE nominalEvents[i-1].effective
                 event  == nominalEvents[i]
             IN  /\ event.effective < now
                 /\ event.kind = "Published" => event.effective > before
                 /\ event.kind = "Republished" =>
                      event.effective = before /\ i > 1
        /\ n > 0 => /\ nominal # NoPda
                    /\ nominal.value = nominalEvents[n].value
                    /\ nominal.effective = nominalEvents[n].effective

\* However often a document is written, grown, shrunk, removed and created
\* anew, and whoever has sent lamports to its address before, its account has
\* exactly the size of its text and is rent exempt.  All accounts are well
\* typed; in particular no document has an empty uri.
DocumentsFitTheirAccounts ==
    /\ RecordsTypeOK
    /\ \A n \in DocumentName : documents[n].uri # NoPda =>
         /\ documents[n].len = DocumentSpace(documents[n].uri)
         /\ documents[n].lamports >= MinimumBalance(documents[n].len)

\* The mint account stays rent exempt while its metadata grows and shrinks:
\* the size update_metadata_field predicts is the one Token-2022 will need.
MintStaysRentExempt ==
    mintLamports >= MinimumBalance(BaseSize + PackedMetaSize(metadata))

\* No custom field is written whose key reads like a core field in another
\* spelling; only deploy_mint, which does not fold keys, may have left one.
NoShadowFields ==
    \A k \in DOMAIN metadata.extra :
        Lowercase[k] \in CoreField => k \in DOMAIN Deployed.extra

\* While the mint is paused, and for ever after its deactivation, nothing
\* that was published changes; strangers can still send lamports.
RecordsHalt ==
    [][paused \/ deactivated =>
         /\ UNCHANGED <<nominal, nominalEvents, metadata, mintLamports>>
         /\ \A n \in DocumentName : documents'[n].uri = documents[n].uri
      ]_<<vars, recordsVars>>

=============================================================================
