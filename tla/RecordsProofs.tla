--------------------------- MODULE RecordsProofs ---------------------------
(***************************************************************************)
(* Theorems about Records, for every value of its constants.  The three    *)
(* programs share no account, so each keeps an invariant of its own.       *)
(***************************************************************************)
EXTENDS Records, Induction

-----------------------------------------------------------------------------
(***************************************************************************)
(* The inductive invariants.                                               *)
(***************************************************************************)

\* Before the first publication the account says period 0, so that the first
\* one cannot be a correction.
UnpublishedIsZero ==
    Len(nominalEvents) = 0 /\ nominal # NoPda => nominal.effective = 0

NominalInv ==
    /\ now \in Int
    /\ nominal \in NominalValue \cup {NoPda}
    /\ nominalEvents \in Seq(NominalEvent)
    /\ UnpublishedIsZero
    /\ EventsTellTheHistory

\* Data lies at the address of a document only while the document exists.
DocumentInv ==
    /\ documents \in [DocumentName -> DocumentAccount]
    /\ \A n \in DocumentName :
         IF documents[n].uri = NoPda
         THEN documents[n].len = 0
         ELSE /\ documents[n].len = DocumentSpace(documents[n].uri)
              /\ documents[n].lamports >= MinimumBalance(documents[n].len)

MetadataInv ==
    /\ metadata \in TokenMetadata
    /\ IsFiniteSet(DOMAIN metadata.extra)
    /\ mintLamports \in Nat
    /\ NoShadowFields
    /\ MintStaysRentExempt

RecordsInv == NominalInv /\ DocumentInv /\ MetadataInv

\* A step of one program leaves the accounts of the others alone.
LEMMA RecordsSteps ==
  ASSUME RecordsNext
  PROVE  \/ /\ UNCHANGED <<now, documents, metadata, mintLamports>>
            /\ \/ \E signer \in Actor : InitializeNominalValue(signer)
               \/ \E signer \in Actor, value \in Value, effective \in 0..MaxTime :
                     \/ PublishNominalValue(signer, value, effective)
                     \/ RepublishNominalValue(signer, value, effective)
         \/ /\ UNCHANGED <<now, nominal, nominalEvents, metadata, mintLamports>>
            /\ \/ \E signer \in Actor, n \in DocumentName, uri \in TextArg :
                     SetDocument(signer, n, uri)
               \/ \E signer \in Actor, n \in DocumentName :
                     RemoveDocument(signer, n)
               \/ \E n \in DocumentName, lamports \in 1..MaxLamports :
                     SendLamports(n, lamports)
         \/ /\ UNCHANGED <<now, nominal, nominalEvents, documents>>
            /\ \/ \E signer \in Actor, key \in KeyArg, text \in TextArg :
                     UpdateMetadataField(signer, key, text)
               \/ \E signer \in Actor, key \in KeyArg, idempotent \in BOOLEAN :
                     RemoveMetadataField(signer, key, idempotent)
         \/ UNCHANGED recordsVars /\ (LifecycleNext \/ Tick)
<1>1. CASE RecordsStep /\ UNCHANGED vars
  <2>1. now' = now
    BY <1>1 DEF vars
  <2>2. ASSUME NEW signer
        PROVE  InitializeNominalValue(signer) =>
                 UNCHANGED <<documents, metadata, mintLamports>>
    BY DEF InitializeNominalValue
  <2>3. ASSUME NEW signer, NEW value, NEW effective
        PROVE  \/ PublishNominalValue(signer, value, effective)
               \/ RepublishNominalValue(signer, value, effective)
               => UNCHANGED <<documents, metadata, mintLamports>>
    BY DEF PublishNominalValue, RepublishNominalValue
  <2>4. ASSUME NEW signer, NEW n, NEW uri
        PROVE  SetDocument(signer, n, uri) \/ RemoveDocument(signer, n) =>
                 UNCHANGED <<nominal, nominalEvents, metadata, mintLamports>>
    BY DEF SetDocument, RemoveDocument
  <2>5. ASSUME NEW n, NEW lamports
        PROVE  SendLamports(n, lamports) =>
                 UNCHANGED <<nominal, nominalEvents, metadata, mintLamports>>
    BY DEF SendLamports
  <2>6. ASSUME NEW signer, NEW key, NEW text, NEW idempotent
        PROVE  \/ UpdateMetadataField(signer, key, text)
               \/ RemoveMetadataField(signer, key, idempotent)
               => UNCHANGED <<nominal, nominalEvents, documents>>
    BY DEF UpdateMetadataField, RemoveMetadataField
  <2> QED
    BY <1>1, <2>1, <2>2, <2>3, <2>4, <2>5, <2>6 DEF RecordsStep
<1>2. CASE (LifecycleNext \/ Tick) /\ UNCHANGED recordsVars
  BY <1>2
<1> QED
  BY <1>1, <1>2 DEF RecordsNext

-----------------------------------------------------------------------------
(***************************************************************************)
(* The nominal value.                                                      *)
(***************************************************************************)

\* What the event at position i says about the one before it.
EventFollows(events, i, t) ==
    LET before == IF i = 1 THEN 0 ELSE events[i-1].effective
    IN  /\ events[i].effective < t
        /\ events[i].kind = "Published" => events[i].effective > before
        /\ events[i].kind = "Republished" =>
             events[i].effective = before /\ i > 1

LEMMA HistoryByEvents ==
  EventsTellTheHistory <=>
    /\ \A i \in 1..Len(nominalEvents) : EventFollows(nominalEvents, i, now)
    /\ Len(nominalEvents) > 0 =>
         /\ nominal # NoPda
         /\ nominal.value = nominalEvents[Len(nominalEvents)].value
         /\ nominal.effective = nominalEvents[Len(nominalEvents)].effective
BY DEF EventsTellTheHistory, EventFollows

\* An event that follows the last one extends the history.
LEMMA HistoryGrows ==
  ASSUME NominalInv, now' = now, NEW event \in NominalEvent,
         nominalEvents' = Append(nominalEvents, event),
         nominal' \in NominalValue,
         nominal'.value = event.value, nominal'.effective = event.effective,
         EventFollows(nominalEvents', Len(nominalEvents) + 1, now)
  PROVE  NominalInv'
<1> DEFINE n == Len(nominalEvents)
<1>1. /\ nominalEvents \in Seq(NominalEvent)
      /\ n \in Nat
  BY DEF NominalInv
<1>2. /\ nominalEvents' \in Seq(NominalEvent)
      /\ Len(nominalEvents') = n + 1
      /\ nominalEvents'[n + 1] = event
      /\ \A i \in 1..n : nominalEvents'[i] = nominalEvents[i]
  BY <1>1
<1>3. nominal' # NoPda
  BY RecordsAssumption
<1>4. ASSUME NEW i \in 1..(n + 1)
      PROVE  EventFollows(nominalEvents', i, now)
  <2>1. CASE i = n + 1
    BY <2>1
  <2>2. CASE i # n + 1
    <3>1. i \in 1..n
      BY <1>1, <2>2
    <3>2. EventFollows(nominalEvents, i, now)
      BY <3>1, HistoryByEvents DEF NominalInv
    <3>3. i # 1 => i - 1 \in 1..n
      BY <1>1, <3>1
    <3> QED
      BY <1>2, <3>1, <3>2, <3>3 DEF EventFollows
  <2> QED
    BY <2>1, <2>2
<1> HIDE DEF n
<1>5. EventsTellTheHistory'
  <2>1. \A i \in 1..Len(nominalEvents') : EventFollows(nominalEvents, i, now)'
    BY <1>2, <1>4 DEF EventFollows
  <2> QED
    BY <1>2, <1>3, <2>1 DEF EventsTellTheHistory, EventFollows
<1>6. UnpublishedIsZero'
  BY <1>1, <1>2 DEF UnpublishedIsZero
<1> QED
  BY <1>2, <1>5, <1>6 DEF NominalInv

\* initialize_nominal_value, publish and republish keep the invariant.
LEMMA NominalInvStep ==
  ASSUME NominalInv, now' = now,
         \/ \E signer \in Actor : InitializeNominalValue(signer)
         \/ \E signer \in Actor, value \in Value, effective \in 0..MaxTime :
               \/ PublishNominalValue(signer, value, effective)
               \/ RepublishNominalValue(signer, value, effective)
  PROVE  NominalInv'
<1> DEFINE n == Len(nominalEvents)
<1>1. /\ nominalEvents \in Seq(NominalEvent)
      /\ n \in Nat
      /\ n > 0 => nominalEvents[n] \in NominalEvent
  BY DEF NominalInv
<1>2. /\ nominal # NoPda =>
           /\ nominal \in NominalValue
           /\ nominal.effective \in Nat
           /\ n = 0 => nominal.effective = 0
      /\ n > 0 => /\ nominal # NoPda
                  /\ nominal.effective = nominalEvents[n].effective
                  /\ nominalEvents[n].effective < now
  <2>1. n > 0 => n \in 1..n
    BY <1>1
  <2> QED
    BY <2>1, HistoryByEvents
       DEF NominalInv, NominalValue, UnpublishedIsZero, EventFollows
<1>3. ASSUME NEW signer \in Actor, InitializeNominalValue(signer)
      PROVE  NominalInv'
  <2>1. /\ nominal = NoPda
        /\ nominal' = [value |-> 0, effective |-> 0]
        /\ nominalEvents' = nominalEvents
    BY <1>3 DEF InitializeNominalValue
  <2>2. n = 0
    BY <1>1, <1>2, <2>1
  <2>3. EventsTellTheHistory'
    BY <2>1, <2>2 DEF EventsTellTheHistory
  <2> QED
    BY <2>1, <2>3 DEF NominalInv, NominalValue, UnpublishedIsZero
<1>4. ASSUME NEW signer \in Actor, NEW value \in Value,
             NEW effective \in 0..MaxTime,
             PublishNominalValue(signer, value, effective)
      PROVE  NominalInv'
  <2> DEFINE event == [kind |-> "Published", value |-> value,
                       effective |-> effective]
  <2>1. /\ nominal # NoPda
        /\ effective > 0
        /\ effective > nominal.effective
        /\ effective < now
        /\ nominal' = [value |-> value, effective |-> effective]
        /\ nominalEvents' = Append(nominalEvents, event)
    BY <1>4 DEF PublishNominalValue, NewPeriod
  <2>2. effective \in Nat
    BY ConstantsAssumption
  <2>3. event \in NominalEvent /\ nominal' \in NominalValue
    BY <2>1, <2>2 DEF NominalEvent, NominalValue
  <2>4. /\ nominalEvents'[n + 1] = event
        /\ n > 0 => nominalEvents'[n] = nominalEvents[n]
    BY <1>1, <2>1, <2>3
  <2>5. EventFollows(nominalEvents', n + 1, now)
    BY <1>1, <1>2, <2>1, <2>2, <2>4 DEF EventFollows
  <2>6. nominal'.value = event.value /\ nominal'.effective = event.effective
    BY <2>1
  <2> HIDE DEF event
  <2> QED
    BY <2>1, <2>3, <2>5, <2>6, HistoryGrows
<1>5. ASSUME NEW signer \in Actor, NEW value \in Value,
             NEW effective \in 0..MaxTime,
             RepublishNominalValue(signer, value, effective)
      PROVE  NominalInv'
  <2> DEFINE event == [kind |-> "Republished", value |-> value,
                       effective |-> effective]
  <2>1. /\ nominal # NoPda
        /\ effective > 0
        /\ effective = nominal.effective
        /\ nominal' = [nominal EXCEPT !.value = value]
        /\ nominalEvents' = Append(nominalEvents, event)
    BY <1>5 DEF RepublishNominalValue
  <2>2. effective \in Nat
    BY ConstantsAssumption
  <2>3. n > 0
    BY <1>1, <1>2, <2>1
  <2>4. event \in NominalEvent /\ nominal' \in NominalValue
    BY <1>2, <2>1, <2>2 DEF NominalEvent, NominalValue
  <2>5. /\ nominalEvents'[n + 1] = event
        /\ nominalEvents'[n] = nominalEvents[n]
    BY <1>1, <2>1, <2>3, <2>4
  <2>6. EventFollows(nominalEvents', n + 1, now)
    BY <1>1, <1>2, <2>1, <2>2, <2>3, <2>5 DEF EventFollows
  <2>7. nominal'.value = event.value /\ nominal'.effective = event.effective
    BY <1>2, <2>1 DEF NominalValue
  <2> HIDE DEF event
  <2> QED
    BY <2>1, <2>4, <2>6, <2>7, HistoryGrows
<1> QED
  BY <1>3, <1>4, <1>5

-----------------------------------------------------------------------------
(***************************************************************************)
(* Documents.                                                              *)
(***************************************************************************)

\* Whether an account is created, adopted with a stranger's lamports in it or
\* resized, it gets the space asked for and holds the rent for it.
LEMMA AccountFits ==
  ASSUME NEW old \in DocumentAccount, NEW space \in Nat, space > 0,
         old.len # 0 => old.lamports >= MinimumBalance(old.len),
         NEW new,
         new = IF old.len = 0 THEN CreateOrAdoptPda(old, space)
                              ELSE ResizePda(old, space)
  PROVE  /\ new \in DocumentAccount
         /\ new.len = space
         /\ new.lamports >= MinimumBalance(space)
<1>1. old.len \in Nat /\ old.lamports \in Nat
  BY DEF DocumentAccount
<1> DEFINE rent == MinimumBalance(space)
           paid == [old EXCEPT !.len = space, !.lamports = rent]
<1>2. rent \in Nat
  BY RecordsAssumption DEF MinimumBalance
<1>3. new = paid \/ (new = old /\ space = old.len)
  BY <1>1 DEF CreateOrAdoptPda, ResizePda
<1> HIDE DEF rent
<1>4. /\ paid \in DocumentAccount
      /\ paid.len = space
      /\ paid.lamports >= rent
  <2> DEFINE U == {t \in TextArg : TextLength[t] > 0} \cup {NoPda}
  <2>1. DocumentAccount = [len : Nat, lamports : Nat, uri : U]
    BY DEF DocumentAccount
  <2> HIDE DEF U
  <2>2. old \in [len : Nat, lamports : Nat, uri : U]
    BY <2>1
  <2>3. /\ paid \in [len : Nat, lamports : Nat, uri : U]
        /\ paid.len = space
        /\ paid.lamports = rent
    BY <1>2, <2>2
  <2> HIDE DEF paid
  <2> QED
    BY <1>2, <2>1, <2>3
<1> HIDE DEF paid
<1>5. CASE new = paid
  BY <1>4, <1>5 DEF rent
<1>6. CASE new = old /\ space = old.len
  BY <1>1, <1>6
<1> QED
  BY <1>3, <1>5, <1>6

\* set_document, remove_document and strangers' lamports keep the invariant.
LEMMA DocumentInvStep ==
  ASSUME DocumentInv,
         \/ \E signer \in Actor, n \in DocumentName, uri \in TextArg :
               SetDocument(signer, n, uri)
         \/ \E signer \in Actor, n \in DocumentName :
               RemoveDocument(signer, n)
         \/ \E n \in DocumentName, lamports \in 1..MaxLamports :
               SendLamports(n, lamports)
  PROVE  DocumentInv'
<1> DEFINE Fits(d) == IF d.uri = NoPda
                      THEN d.len = 0
                      ELSE /\ d.len = DocumentSpace(d.uri)
                           /\ d.lamports >= MinimumBalance(d.len)
<1>1. /\ documents \in [DocumentName -> DocumentAccount]
      /\ \A n \in DocumentName : Fits(documents[n])
  BY DEF DocumentInv
<1>2. ASSUME NEW n \in DocumentName, NEW d \in DocumentAccount, Fits(d),
             documents' = [documents EXCEPT ![n] = d]
      PROVE  DocumentInv'
  <2>1. /\ documents' \in [DocumentName -> DocumentAccount]
        /\ \A k \in DocumentName : documents'[k] = documents[k] \/ documents'[k] = d
    BY <1>1, <1>2
  <2>2. ASSUME NEW k \in DocumentName
        PROVE  Fits(documents'[k])
    BY <1>1, <1>2, <2>1
  <2> QED
    BY <2>1, <2>2 DEF DocumentInv, DocumentSpace, MinimumBalance
<1>3. ASSUME NEW signer \in Actor, NEW n \in DocumentName, NEW uri \in TextArg,
             SetDocument(signer, n, uri)
      PROVE  DocumentInv'
  <2> DEFINE old == documents[n]
             new == IF old.len = 0 THEN CreateOrAdoptPda(old, DocumentSpace(uri))
                                   ELSE ResizePda(old, DocumentSpace(uri))
             d == [new EXCEPT !.uri = uri]
  <2>1. /\ TextLength[uri] > 0
        /\ documents' = [documents EXCEPT ![n] = d]
    BY <1>3 DEF SetDocument
  <2>2. old \in DocumentAccount
    BY <1>1
  <2>3. DocumentSpace(uri) \in Nat /\ DocumentSpace(uri) > 0
    BY RecordsAssumption DEF DocumentSpace
  <2>4. old.len # 0 => old.lamports >= MinimumBalance(old.len)
    BY <1>1
  <2> HIDE DEF old
  <2>5. /\ new \in DocumentAccount
        /\ new.len = DocumentSpace(uri)
        /\ new.lamports >= MinimumBalance(DocumentSpace(uri))
    BY <2>2, <2>3, <2>4, AccountFits
  <2> HIDE DEF new
  <2>6. /\ d \in DocumentAccount
        /\ d.uri = uri
        /\ d.len = DocumentSpace(uri)
        /\ d.lamports >= MinimumBalance(DocumentSpace(uri))
    BY <2>1, <2>5 DEF DocumentAccount
  <2>7. Fits(d)
    <3> HIDE DEF d
    <3>1. uri # NoPda
      BY RecordsAssumption
    <3> QED
      BY <2>6, <3>1
  <2> HIDE DEF d
  <2> QED
    BY <1>2, <2>1, <2>6, <2>7
<1>4. ASSUME NEW signer \in Actor, NEW n \in DocumentName,
             RemoveDocument(signer, n)
      PROVE  DocumentInv'
  <2>1. Untouched \in DocumentAccount /\ Fits(Untouched)
    BY DEF Untouched, DocumentAccount
  <2> QED
    BY <1>2, <1>4, <2>1 DEF RemoveDocument
<1>5. ASSUME NEW n \in DocumentName, NEW lamports \in 1..MaxLamports,
             SendLamports(n, lamports)
      PROVE  DocumentInv'
  <2> DEFINE old == documents[n]
             d == [old EXCEPT !.lamports = @ + lamports]
  <2>1. old \in DocumentAccount /\ Fits(old) /\ lamports \in Nat
    BY <1>1, RecordsAssumption
  <2>2. documents' = [documents EXCEPT ![n] = d]
    BY <1>1, <1>5 DEF SendLamports
  <2> HIDE DEF old
  <2>3. /\ d \in DocumentAccount
        /\ d.uri = old.uri
        /\ d.len = old.len
        /\ d.lamports = old.lamports + lamports
        /\ old.lamports \in Nat
        /\ old.len \in Nat
    BY <2>1 DEF DocumentAccount
  <2> HIDE DEF d
  <2>4. Fits(d)
    BY <2>1, <2>3, RecordsAssumption DEF MinimumBalance
  <2> QED
    BY <1>2, <2>2, <2>3, <2>4
<1> QED
  BY <1>3, <1>4, <1>5

-----------------------------------------------------------------------------
(***************************************************************************)
(* Metadata.                                                               *)
(***************************************************************************)

Cores == [CoreField -> TextArg]

Extras == UNION {[ks -> TextArg] : ks \in SUBSET KeyArg}

LEMMA MetadataShape == TokenMetadata = [core : Cores, extra : Extras]
BY DEF TokenMetadata, Cores, Extras

\* The parts of metadata.
LEMMA MetadataParts ==
  ASSUME NEW m \in TokenMetadata
  PROVE  /\ m.core \in [CoreField -> TextArg]
         /\ DOMAIN m.extra \subseteq KeyArg
         /\ m.extra \in [DOMAIN m.extra -> TextArg]
<1>1. m.core \in Cores /\ m.extra \in Extras
  BY MetadataShape
<1>2. PICK ks \in SUBSET KeyArg : m.extra \in [ks -> TextArg]
  BY <1>1 DEF Extras
<1> QED
  BY <1>1, <1>2 DEF Cores

\* Replacing one of the two parts.
LEMMA CoreReplaced ==
  ASSUME NEW m \in TokenMetadata, NEW core \in Cores, NEW new,
         new = [m EXCEPT !.core = core]
  PROVE  new \in TokenMetadata /\ new.core = core /\ new.extra = m.extra
<1>1. m \in [core : Cores, extra : Extras]
  BY MetadataShape
<1>2. /\ new \in [core : Cores, extra : Extras]
      /\ new.core = core
      /\ new.extra = m.extra
  BY <1>1
<1> QED
  BY <1>2, MetadataShape

LEMMA ExtraReplaced ==
  ASSUME NEW m \in TokenMetadata, NEW extra \in Extras, NEW new,
         new = [m EXCEPT !.extra = extra]
  PROVE  new \in TokenMetadata /\ new.core = m.core /\ new.extra = extra
<1>1. m \in [core : Cores, extra : Extras]
  BY MetadataShape
<1>2. /\ new \in [core : Cores, extra : Extras]
      /\ new.core = m.core
      /\ new.extra = extra
  BY <1>1
<1> QED
  BY <1>2, MetadataShape

\* Every part has a size.
LEMMA SizesTyped ==
  ASSUME NEW m \in TokenMetadata, IsFiniteSet(DOMAIN m.extra)
  PROVE  /\ IsFiniteSet(CoreField)
         /\ \A f \in CoreField : CoreSizes(m)[f] \in Nat
         /\ \A k \in DOMAIN m.extra : ExtraSizes(m)[k] \in Nat
         /\ SumFunctionOnSet(CoreSizes(m), CoreField) \in Nat
         /\ SumFunctionOnSet(ExtraSizes(m), DOMAIN m.extra) \in Nat
         /\ PackedMetaSize(m) \in Nat
<1>1. IsFiniteSet(CoreField)
  <2>1. IsFiniteSet({"name"})
    BY FS_Singleton
  <2>2. IsFiniteSet({"name"} \cup {"symbol"})
    BY <2>1, FS_AddElement
  <2>3. IsFiniteSet(({"name"} \cup {"symbol"}) \cup {"uri"})
    BY <2>2, FS_AddElement
  <2>4. CoreField = ({"name"} \cup {"symbol"}) \cup {"uri"}
    BY DEF CoreField
  <2> QED
    BY <2>3, <2>4
<1>2. \A f \in CoreField : CoreSizes(m)[f] \in Nat
  BY MetadataParts, RecordsAssumption DEF CoreSizes
<1>3. \A k \in DOMAIN m.extra : ExtraSizes(m)[k] \in Nat
  BY MetadataParts, RecordsAssumption DEF ExtraSizes
<1>4. SumFunctionOnSet(CoreSizes(m), CoreField) \in Nat
  BY <1>1, <1>2, SumNat
<1>5. SumFunctionOnSet(ExtraSizes(m), DOMAIN m.extra) \in Nat
  BY <1>3, SumNat
<1> QED
  BY <1>1, <1>2, <1>3, <1>4, <1>5 DEF PackedMetaSize

\* What update_field does to a core field, and what that costs.
LEMMA CoreFieldUpdated ==
  ASSUME NEW m \in TokenMetadata, IsFiniteSet(DOMAIN m.extra),
         NEW key \in KeyArg, NEW text \in TextArg,
         NEW f \in CoreField, f = Lowercase[key],
         NEW new, new = FieldUpdated(m, ToField(key), text)
  PROVE  /\ new \in TokenMetadata
         /\ new.extra = m.extra
         /\ PackedMetaSize(new)
              = PackedMetaSize(m) - TextLength[m.core[f]] + TextLength[text]
<1> DEFINE core == [m.core EXCEPT ![f] = text]
<1>1. m.core \in [CoreField -> TextArg]
  BY MetadataParts
<1>2. core \in Cores
  BY <1>1 DEF Cores
<1>3. new = [m EXCEPT !.core = core]
  BY DEF FieldUpdated, ToField
<1>4. /\ new \in TokenMetadata
      /\ new.core = core
      /\ new.extra = m.extra
  <2> HIDE DEF core
  <2> QED
    BY <1>2, <1>3, CoreReplaced
<1>5. ExtraSizes(new) = ExtraSizes(m)
  BY <1>4 DEF ExtraSizes
<1>6. /\ CoreSizes(m)[f] = TextLength[m.core[f]]
      /\ CoreSizes(new)[f] = TextLength[text]
      /\ \A g \in CoreField \ {f} : CoreSizes(new)[g] = CoreSizes(m)[g]
  BY <1>1, <1>4 DEF CoreSizes
<1>7. SumFunctionOnSet(CoreSizes(new), CoreField)
        = SumFunctionOnSet(CoreSizes(m), CoreField)
            - TextLength[m.core[f]] + TextLength[text]
  <2> DEFINE before == CoreSizes(m)
             after == CoreSizes(new)
  <2>1. IsFiniteSet(CoreField) /\ \A g \in CoreField : before[g] \in Int
    BY SizesTyped
  <2>2. \A g \in CoreField : after[g] \in Int
    <3>1. new \in TokenMetadata /\ IsFiniteSet(DOMAIN new.extra)
      BY <1>4
    <3> QED
      BY <3>1, SizesTyped
  <2>3. \A g \in CoreField \ {f} : after[g] = before[g]
    BY <1>6
  <2>4. before[f] = TextLength[m.core[f]] /\ after[f] = TextLength[text]
    BY <1>6
  <2> HIDE DEF before, after
  <2>5. \A g \in CoreField : before[g] \in Int /\ after[g] \in Int
    BY <2>1, <2>2
  <2>6. IsFiniteSet(CoreField) /\ f \in CoreField
    BY <2>1
  <2>7. ASSUME NEW C, C = CoreField
        PROVE  SumFunctionOnSet(after, C)
                 = SumFunctionOnSet(before, C) - before[f] + after[f]
    <3>1. /\ IsFiniteSet(C) /\ f \in C
          /\ \A g \in C : before[g] \in Int /\ after[g] \in Int
          /\ \A g \in C \ {f} : after[g] = before[g]
      BY <2>3, <2>5, <2>6, <2>7
    <3> QED
      BY <3>1, SumUpdate
  <2> QED
    BY <2>4, <2>7 DEF before, after
<1>8. /\ SumFunctionOnSet(CoreSizes(m), CoreField) \in Nat
      /\ SumFunctionOnSet(ExtraSizes(m), DOMAIN m.extra) \in Nat
      /\ TextLength[m.core[f]] \in Nat
      /\ TextLength[text] \in Nat
  BY <1>1, SizesTyped, RecordsAssumption
<1> HIDE DEF core
<1> QED
  BY <1>4, <1>5, <1>7, <1>8 DEF PackedMetaSize

\* The same for a custom field, which may be new.
LEMMA ExtraFieldUpdated ==
  ASSUME NEW m \in TokenMetadata, IsFiniteSet(DOMAIN m.extra),
         NEW key \in KeyArg, NEW text \in TextArg,
         Lowercase[key] \notin CoreField,
         NEW new, new = FieldUpdated(m, ToField(key), text)
  PROVE  /\ new \in TokenMetadata
         /\ DOMAIN new.extra = DOMAIN m.extra \cup {key}
         /\ PackedMetaSize(new)
              = PackedMetaSize(m) + TextLength[text]
                  - IF key \in DOMAIN m.extra
                    THEN TextLength[m.extra[key]]
                    ELSE -(8 + TextLength[key])
<1> DEFINE D == DOMAIN m.extra
           S == D \cup {key}
           extra == [k \in S |-> IF k = key THEN text ELSE m.extra[k]]
<1>1. m.extra \in [D -> TextArg] /\ D \in SUBSET KeyArg
  BY MetadataParts
<1>2. extra \in Extras
  <2>1. S \in SUBSET KeyArg /\ extra \in [S -> TextArg]
    BY <1>1
  <2> HIDE DEF extra, S
  <2> QED
    BY <2>1 DEF Extras
<1>3. new = [m EXCEPT !.extra = extra]
  BY DEF FieldUpdated, ToField
<1>4. /\ new \in TokenMetadata
      /\ new.core = m.core
      /\ new.extra = extra
  <2> HIDE DEF extra
  <2> QED
    BY <1>2, <1>3, ExtraReplaced
<1>5. DOMAIN new.extra = S
  BY <1>4
<1>6. CoreSizes(new) = CoreSizes(m)
  BY <1>4 DEF CoreSizes
<1>7. /\ ExtraSizes(new)[key] = 8 + TextLength[key] + TextLength[text]
      /\ \A k \in D \ {key} : ExtraSizes(new)[k] = ExtraSizes(m)[k]
      /\ key \in D =>
           ExtraSizes(m)[key] = 8 + TextLength[key] + TextLength[m.extra[key]]
  BY <1>4, <1>5 DEF ExtraSizes
<1>8. IsFiniteSet(S)
  BY FS_AddElement
<1> DEFINE sum == SumFunctionOnSet(ExtraSizes(m), D)
           newSum == SumFunctionOnSet(ExtraSizes(new), S)
<1>9. /\ \A k \in S : ExtraSizes(new)[k] \in Int
      /\ \A k \in D : ExtraSizes(m)[k] \in Int
      /\ sum \in Nat
      /\ newSum \in Nat
      /\ SumFunctionOnSet(CoreSizes(m), CoreField) \in Nat
  <2>1. IsFiniteSet(DOMAIN new.extra)
    BY <1>5, <1>8
  <2>2. /\ \A k \in S : ExtraSizes(new)[k] \in Nat
        /\ newSum \in Nat
    BY <1>4, <1>5, <2>1, SizesTyped
  <2> QED
    BY <2>2, SizesTyped
<1>10. /\ TextLength[key] \in Nat
       /\ TextLength[text] \in Nat
       /\ key \in D => TextLength[m.extra[key]] \in Nat
  BY <1>1, RecordsAssumption
<1>11. PackedMetaSize(m) = 80 + SumFunctionOnSet(CoreSizes(m), CoreField) + sum
  BY DEF PackedMetaSize
<1>12. PackedMetaSize(new)
         = 80 + SumFunctionOnSet(CoreSizes(m), CoreField) + newSum
  BY <1>5, <1>6 DEF PackedMetaSize
<1>13. newSum = sum + TextLength[text]
                  - IF key \in D THEN TextLength[m.extra[key]]
                                 ELSE -(8 + TextLength[key])
  <2>1. CASE key \in D
    <3>1. S = D
      BY <2>1
    <3>2. newSum = sum - ExtraSizes(m)[key] + ExtraSizes(new)[key]
      <4> DEFINE before == ExtraSizes(m)
                 after == ExtraSizes(new)
      <4>1. \A k \in D : before[k] \in Int /\ after[k] \in Int
        BY <1>9, <3>1
      <4>2. \A k \in D \ {key} : after[k] = before[k]
        BY <1>7
      <4>3. IsFiniteSet(D)
        OBVIOUS
      <4> HIDE DEF before, after, D
      <4>4. SumFunctionOnSet(after, D)
              = SumFunctionOnSet(before, D) - before[key] + after[key]
        BY <2>1, <4>1, <4>2, <4>3, SumUpdate
      <4> QED
        BY <3>1, <4>4 DEF before, after
    <3> HIDE DEF newSum, sum, D
    <3> QED
      BY <1>7, <1>9, <1>10, <2>1, <3>2
  <2>2. CASE key \notin D
    <3>1. S \ {key} = D /\ key \in S /\ D \ {key} = D
      BY <2>2
    <3>2. newSum = ExtraSizes(new)[key] + SumFunctionOnSet(ExtraSizes(new), D)
      <4> HIDE DEF D, S
      <4> QED
        BY <1>8, <1>9, <3>1, SumRemove
    <3>3. SumFunctionOnSet(ExtraSizes(new), D) = sum
      <4>1. \A k \in D : /\ ExtraSizes(m)[k] \in Int
                         /\ ExtraSizes(new)[k] = ExtraSizes(m)[k]
        BY <1>7, <1>9, <3>1
      <4> QED
        BY <4>1, SumSame
    <3> HIDE DEF newSum, sum, D
    <3> QED
      BY <1>7, <1>9, <1>10, <2>2, <3>2, <3>3
  <2> QED
    BY <2>1, <2>2
<1>14. PackedMetaSize(new)
         = PackedMetaSize(m) + TextLength[text]
             - IF key \in D THEN TextLength[m.extra[key]]
                            ELSE -(8 + TextLength[key])
  <2> HIDE DEF newSum, sum, D
  <2> QED
    BY <1>9, <1>10, <1>11, <1>12, <1>13
<1> QED
  BY <1>4, <1>5, <1>14

\* new_packed_meta_size predicts what Token-2022 will need.
LEMMA PredictionRight ==
  ASSUME NEW m \in TokenMetadata, IsFiniteSet(DOMAIN m.extra),
         NEW key \in KeyArg, NEW text \in TextArg
  PROVE  LET new == FieldUpdated(m, ToField(key), text)
         IN  /\ new \in TokenMetadata
             /\ DOMAIN new.extra = IF Lowercase[key] \in CoreField
                                   THEN DOMAIN m.extra
                                   ELSE DOMAIN m.extra \cup {key}
             /\ PackedMetaSize(new) = NewPackedMetaSize(m, ToField(key), text)
<1> DEFINE new == FieldUpdated(m, ToField(key), text)
<1>1. PackedMetaSize(m) \in Nat /\ TextLength[text] \in Nat
  BY SizesTyped, RecordsAssumption
<1>2. CASE Lowercase[key] \in CoreField
  <2> DEFINE f == Lowercase[key]
  <2>1. /\ new = FieldUpdated(m, ToField(key), text)
        /\ NewPackedMetaSize(m, ToField(key), text)
             = PackedMetaSize(m) - TextLength[m.core[f]] + TextLength[text]
    BY <1>2 DEF ToField, NewPackedMetaSize
  <2> HIDE DEF new
  <2>2. /\ new \in TokenMetadata
        /\ new.extra = m.extra
        /\ PackedMetaSize(new)
             = PackedMetaSize(m) - TextLength[m.core[f]] + TextLength[text]
    BY <1>2, <2>1, CoreFieldUpdated
  <2>3. /\ new \in TokenMetadata
        /\ DOMAIN new.extra = DOMAIN m.extra
        /\ PackedMetaSize(new) = NewPackedMetaSize(m, ToField(key), text)
    BY <2>1, <2>2
  <2> QED
    BY <1>2, <2>3 DEF new
<1>3. CASE Lowercase[key] \notin CoreField
  <2> DEFINE old == IF key \in DOMAIN m.extra THEN TextLength[m.extra[key]]
                                              ELSE -(8 + TextLength[key])
  <2>1. new = FieldUpdated(m, ToField(key), text)
    OBVIOUS
  <2>2. NewPackedMetaSize(m, ToField(key), text)
          = PackedMetaSize(m) - old + TextLength[text]
    BY <1>3 DEF ToField, NewPackedMetaSize
  <2>3. old \in Int
    BY MetadataParts, RecordsAssumption
  <2> HIDE DEF new
  <2>4. /\ new \in TokenMetadata
        /\ DOMAIN new.extra = DOMAIN m.extra \cup {key}
        /\ PackedMetaSize(new) = PackedMetaSize(m) + TextLength[text] - old
    BY <1>3, <2>1, ExtraFieldUpdated
  <2> HIDE DEF old
  <2>5. PackedMetaSize(new) = NewPackedMetaSize(m, ToField(key), text)
    BY <1>1, <2>2, <2>3, <2>4
  <2> QED
    BY <1>3, <2>4, <2>5 DEF new
<1> QED
  BY <1>2, <1>3

\* What remove_key leaves.
Without(m, key) ==
    [m EXCEPT !.extra = [k \in DOMAIN m.extra \ {key} |-> m.extra[k]]]

\* Removing a custom field never makes the metadata grow.
LEMMA FieldRemoved ==
  ASSUME NEW m \in TokenMetadata, IsFiniteSet(DOMAIN m.extra), NEW key,
         NEW new, new = Without(m, key)
  PROVE  /\ new \in TokenMetadata
         /\ DOMAIN new.extra = DOMAIN m.extra \ {key}
         /\ PackedMetaSize(new) <= PackedMetaSize(m)
<1> DEFINE D == DOMAIN m.extra
           S == D \ {key}
           extra == [k \in S |-> m.extra[k]]
<1>1. m.extra \in [D -> TextArg] /\ D \in SUBSET KeyArg
  BY MetadataParts
<1>2. extra \in Extras
  <2>1. S \in SUBSET KeyArg /\ extra \in [S -> TextArg]
    BY <1>1
  <2> HIDE DEF extra, S
  <2> QED
    BY <2>1 DEF Extras
<1>3. new = [m EXCEPT !.extra = extra]
  BY DEF Without
<1>4. /\ new \in TokenMetadata
      /\ new.core = m.core
      /\ new.extra = extra
  <2> HIDE DEF extra
  <2> QED
    BY <1>2, <1>3, ExtraReplaced
<1>5. DOMAIN new.extra = S
  BY <1>4
<1>6. CoreSizes(new) = CoreSizes(m)
  BY <1>4 DEF CoreSizes
<1>7. \A k \in S : ExtraSizes(new)[k] = ExtraSizes(m)[k]
  BY <1>4, <1>5 DEF ExtraSizes
<1>8. IsFiniteSet(S)
  BY FS_Subset
<1> DEFINE sum == SumFunctionOnSet(ExtraSizes(m), D)
           newSum == SumFunctionOnSet(ExtraSizes(new), S)
<1>9. /\ \A k \in D : ExtraSizes(m)[k] \in Nat
      /\ sum \in Nat
      /\ newSum \in Nat
      /\ SumFunctionOnSet(CoreSizes(m), CoreField) \in Nat
  <2>1. IsFiniteSet(DOMAIN new.extra)
    BY <1>5, <1>8
  <2>2. newSum \in Nat
    BY <1>4, <1>5, <2>1, SizesTyped
  <2> QED
    BY <2>2, SizesTyped
<1>10. newSum = SumFunctionOnSet(ExtraSizes(m), S)
  <2>1. \A k \in S : /\ ExtraSizes(m)[k] \in Int
                     /\ ExtraSizes(new)[k] = ExtraSizes(m)[k]
    BY <1>7, <1>9
  <2> HIDE DEF S
  <2> QED
    BY <1>8, <2>1, SumSame
<1>11. newSum <= sum
  <2>1. CASE key \in D
    <3>1. sum = ExtraSizes(m)[key] + newSum
      <4>1. \A k \in D : ExtraSizes(m)[k] \in Int
        BY <1>9
      <4>2. sum = ExtraSizes(m)[key]
                    + SumFunctionOnSet(ExtraSizes(m), D \ {key})
        BY <2>1, <4>1, SumRemove
      <4> QED
        BY <1>10, <4>2
    <3>2. ExtraSizes(m)[key] \in Nat
      BY <1>9, <2>1
    <3> HIDE DEF newSum, sum
    <3> QED
      BY <1>9, <3>1, <3>2
  <2>2. CASE key \notin D
    <3>1. S = D
      BY <2>2
    <3>2. newSum = sum
      BY <1>10, <3>1
    <3> HIDE DEF newSum, sum
    <3> QED
      BY <1>9, <3>2
  <2> QED
    BY <2>1, <2>2
<1>12. /\ PackedMetaSize(m)
            = 80 + SumFunctionOnSet(CoreSizes(m), CoreField) + sum
       /\ PackedMetaSize(new)
            = 80 + SumFunctionOnSet(CoreSizes(m), CoreField) + newSum
  BY <1>5, <1>6 DEF PackedMetaSize
<1>13. PackedMetaSize(new) <= PackedMetaSize(m)
  <2> HIDE DEF newSum, sum
  <2> QED
    BY <1>9, <1>11, <1>12
<1> QED
  BY <1>4, <1>5, <1>13

\* update_metadata_field and remove_metadata_field keep the invariant: the
\* payer tops up exactly when Token-2022 will need more.
LEMMA MetadataInvStep ==
  ASSUME MetadataInv,
         \/ \E signer \in Actor, key \in KeyArg, text \in TextArg :
               UpdateMetadataField(signer, key, text)
         \/ \E signer \in Actor, key \in KeyArg, idempotent \in BOOLEAN :
               RemoveMetadataField(signer, key, idempotent)
  PROVE  MetadataInv'
<1> DEFINE size == PackedMetaSize(metadata)
<1>1. /\ metadata \in TokenMetadata
      /\ IsFiniteSet(DOMAIN metadata.extra)
      /\ mintLamports \in Nat
      /\ RentOverhead \in Nat /\ BaseSize \in Nat
  BY RecordsAssumption DEF MetadataInv
<1>2. /\ size \in Nat
      /\ mintLamports >= RentOverhead + (BaseSize + size)
  BY <1>1, SizesTyped DEF MetadataInv, MintStaysRentExempt, MinimumBalance
<1>3. ASSUME NEW new \in TokenMetadata, metadata' = new,
             IsFiniteSet(DOMAIN new.extra),
             \A k \in DOMAIN new.extra :
               k \in DOMAIN metadata.extra \/ Lowercase[k] \notin CoreField,
             mintLamports' \in Nat,
             mintLamports' >= RentOverhead + (BaseSize + PackedMetaSize(new))
      PROVE  MetadataInv'
  <2>1. NoShadowFields'
    BY <1>3 DEF MetadataInv, NoShadowFields
  <2>2. MintStaysRentExempt'
    BY <1>3 DEF MintStaysRentExempt, MinimumBalance
  <2> QED
    BY <1>3, <2>1, <2>2 DEF MetadataInv
<1>4. ASSUME NEW signer \in Actor, NEW key \in KeyArg, NEW text \in TextArg,
             UpdateMetadataField(signer, key, text)
      PROVE  MetadataInv'
  <2> DEFINE new == FieldUpdated(metadata, ToField(key), text)
             need == NewPackedMetaSize(metadata, ToField(key), text)
             rent == RentOverhead + (BaseSize + need)
  <2>1. /\ metadata' = new
        /\ mintLamports' = IF need > size /\ rent > mintLamports
                           THEN rent ELSE mintLamports
    BY <1>4 DEF UpdateMetadataField, ToppedUp, MinimumBalance
  <2>2. /\ new \in TokenMetadata
        /\ DOMAIN new.extra = IF Lowercase[key] \in CoreField
                              THEN DOMAIN metadata.extra
                              ELSE DOMAIN metadata.extra \cup {key}
        /\ PackedMetaSize(new) = need
    BY <1>1, PredictionRight
  <2> HIDE DEF new
  <2>3. IsFiniteSet(DOMAIN new.extra)
    BY <1>1, <2>2, FS_AddElement
  <2>4. need \in Nat
    BY <2>2, <2>3, SizesTyped
  <2>5. mintLamports' \in Nat /\ mintLamports' >= rent
    <3> HIDE DEF need, size
    <3> QED
      BY <1>1, <1>2, <2>1, <2>4
  <2>6. \A k \in DOMAIN new.extra :
          k \in DOMAIN metadata.extra \/ Lowercase[k] \notin CoreField
    BY <2>2
  <2> QED
    BY <1>3, <2>1, <2>2, <2>3, <2>5, <2>6
<1>5. ASSUME NEW signer \in Actor, NEW key \in KeyArg,
             NEW idempotent \in BOOLEAN,
             RemoveMetadataField(signer, key, idempotent)
      PROVE  MetadataInv'
  <2> DEFINE new == Without(metadata, key)
  <2>1. metadata' = new /\ mintLamports' = mintLamports
    BY <1>5 DEF RemoveMetadataField, Without
  <2>2. /\ new \in TokenMetadata
        /\ DOMAIN new.extra = DOMAIN metadata.extra \ {key}
        /\ PackedMetaSize(new) <= size
    BY <1>1, FieldRemoved
  <2> HIDE DEF new
  <2>3. IsFiniteSet(DOMAIN new.extra)
    BY <1>1, <2>2, FS_Subset
  <2>4. PackedMetaSize(new) \in Nat
    BY <2>2, <2>3, SizesTyped
  <2>5. mintLamports' >= RentOverhead + (BaseSize + PackedMetaSize(new))
    <3> HIDE DEF size
    <3> QED
      BY <1>1, <1>2, <2>1, <2>2, <2>4
  <2> QED
    BY <1>1, <1>3, <2>1, <2>2, <2>3, <2>5
<1> QED
  BY <1>4, <1>5

-----------------------------------------------------------------------------
(***************************************************************************)
(* The theorems.                                                           *)
(***************************************************************************)

\* While nothing a program owns changes and time does not run backwards, its
\* invariant stays.
LEMMA NominalInvKept ==
  ASSUME NominalInv, UNCHANGED <<nominal, nominalEvents>>,
         now' \in Int, now' >= now
  PROVE  NominalInv'
<1>1. ASSUME NEW i \in 1..Len(nominalEvents)
      PROVE  nominalEvents[i].effective < now'
  <2>1. nominalEvents[i].effective \in Nat
    <3>1. nominalEvents[i] \in NominalEvent
      BY DEF NominalInv
    <3> QED
      BY <3>1 DEF NominalEvent
  <2>2. nominalEvents[i].effective < now
    BY DEF NominalInv, EventsTellTheHistory
  <2>3. now \in Int
    BY DEF NominalInv
  <2> QED
    BY <2>1, <2>2, <2>3
<1>2. EventsTellTheHistory'
  BY <1>1 DEF NominalInv, EventsTellTheHistory
<1> QED
  BY <1>2 DEF NominalInv, UnpublishedIsZero

LEMMA DocumentInvKept ==
  ASSUME DocumentInv, documents' = documents
  PROVE  DocumentInv'
BY DEF DocumentInv, DocumentSpace, MinimumBalance

LEMMA MetadataInvKept ==
  ASSUME MetadataInv, UNCHANGED <<metadata, mintLamports>>
  PROVE  MetadataInv'
BY DEF MetadataInv, NoShadowFields, MintStaysRentExempt

LEMMA RecordsInvStep ==
  ASSUME RecordsInv, [RecordsNext]_<<vars, recordsVars>>
  PROVE  RecordsInv'
<1>1. NominalInv /\ DocumentInv /\ MetadataInv
  BY DEF RecordsInv
<1>2. now \in Int
  BY <1>1 DEF NominalInv
<1>3. ASSUME UNCHANGED recordsVars, now' \in Int, now' >= now
      PROVE  RecordsInv'
  <2>1. UNCHANGED <<nominal, nominalEvents, documents, metadata, mintLamports>>
    BY <1>3 DEF recordsVars
  <2> QED
    BY <1>1, <1>3, <2>1, NominalInvKept, DocumentInvKept, MetadataInvKept
       DEF RecordsInv
<1>4. CASE UNCHANGED <<vars, recordsVars>>
  <2>1. UNCHANGED recordsVars /\ now' = now
    BY <1>4 DEF vars
  <2>2. now' \in Int /\ now' >= now
    BY <1>2, <2>1
  <2> QED
    BY <1>3, <2>1, <2>2
<1>5. CASE RecordsNext
  <2>1. now' = now => now' \in Int /\ now' >= now
    BY <1>2
  <2>2. LifecycleNext \/ Tick => now' \in Int /\ now' >= now
    BY <1>2 DEF LifecycleNext, GrantRoles, RevokeRoles, PauseMint,
       UnpauseMint, Deactivate, Tick
  <2> QED
    BY <1>1, <1>3, <1>5, <2>1, <2>2, RecordsSteps,
       NominalInvStep, NominalInvKept, DocumentInvStep, DocumentInvKept,
       MetadataInvStep, MetadataInvKept
       DEF RecordsInv
<1> QED
  BY <1>4, <1>5

LEMMA RecordsInvInit ==
  ASSUME RecordsInit
  PROVE  RecordsInv
<1>1. NominalInv
  <2>1. Len(nominalEvents) = 0 /\ nominalEvents \in Seq(NominalEvent)
    BY DEF RecordsInit
  <2> QED
    BY <2>1 DEF RecordsInit, Init, NominalInv, UnpublishedIsZero,
                EventsTellTheHistory
<1>2. DocumentInv
  <2>1. Untouched \in DocumentAccount /\ Untouched.uri = NoPda /\ Untouched.len = 0
    BY DEF Untouched, DocumentAccount
  <2> QED
    BY <2>1 DEF RecordsInit, DocumentInv
<1>3. MetadataInv
  <2>1. /\ metadata = Deployed
        /\ Deployed \in TokenMetadata
        /\ mintLamports = RentOverhead + (BaseSize + PackedMetaSize(Deployed))
        /\ RentOverhead \in Nat /\ BaseSize \in Nat
    BY RecordsAssumption DEF RecordsInit, MinimumBalance
  <2>2. PackedMetaSize(Deployed) \in Nat
    BY <2>1, FiniteDeployed, SizesTyped
  <2>3. mintLamports \in Nat /\ MintStaysRentExempt
    BY <2>1, <2>2 DEF MintStaysRentExempt, MinimumBalance
  <2> QED
    BY <2>1, <2>3, FiniteDeployed DEF MetadataInv, NoShadowFields
<1> QED
  BY <1>1, <1>2, <1>3 DEF RecordsInv

LEMMA RecordsInvariant == RecordsSpec => []RecordsInv
<1>1. RecordsInit => RecordsInv
  BY RecordsInvInit
<1>2. RecordsInv /\ [RecordsNext]_<<vars, recordsVars>> => RecordsInv'
  BY RecordsInvStep
<1> QED
  BY <1>1, <1>2, PTL DEF RecordsSpec

\* However often the nominal value is published and corrected, and whenever,
\* its events tell one history that ends in what the account says
\* (publish_nominal_value, republish_nominal_value).
THEOREM HistoryUnambiguous == RecordsSpec => []EventsTellTheHistory
<1>1. RecordsInv => EventsTellTheHistory
  BY DEF RecordsInv, NominalInv
<1> QED
  BY <1>1, RecordsInvariant, PTL

\* Every document's account has the size of its uri and pays the rent for it,
\* whatever was sent to its address before (set_document, remove_document).
THEOREM DocumentsFit == RecordsSpec => []DocumentsFitTheirAccounts
<1>1. RecordsInv => DocumentsFitTheirAccounts
  BY DEF RecordsInv, NominalInv, DocumentInv, MetadataInv, RecordsTypeOK,
         DocumentsFitTheirAccounts
<1> QED
  BY <1>1, RecordsInvariant, PTL

\* The mint account always pays the rent of its metadata: the size
\* update_metadata_field predicts is right for every key and text.
THEOREM MintRentExempt == RecordsSpec => []MintStaysRentExempt
<1>1. RecordsInv => MintStaysRentExempt
  BY DEF RecordsInv, MetadataInv
<1> QED
  BY <1>1, RecordsInvariant, PTL

\* No instruction writes a custom field that reads like a core field
\* (to_field).
THEOREM NoFieldShadowed == RecordsSpec => []NoShadowFields
<1>1. RecordsInv => NoShadowFields
  BY DEF RecordsInv, MetadataInv
<1> QED
  BY <1>1, RecordsInvariant, PTL

\* Nothing that is published about a paused or deactivated mint changes.
THEOREM PauseHaltsRecords == RecordsSpec => RecordsHalt
<1>1. ASSUME RecordsInv, RecordsNext, paused \/ deactivated
      PROVE  /\ UNCHANGED <<nominal, nominalEvents, metadata, mintLamports>>
             /\ \A n \in DocumentName : documents'[n].uri = documents[n].uri
  <2>1. \A signer, role, functionality :
          ~RecordsGate(signer, role, functionality)
    BY <1>1 DEF RecordsGate, RequireNotPaused, RequireActive
  <2>2. /\ \A signer : ~InitializeNominalValue(signer)
        /\ \A signer, value, effective :
             /\ ~PublishNominalValue(signer, value, effective)
             /\ ~RepublishNominalValue(signer, value, effective)
    BY <2>1 DEF InitializeNominalValue, PublishNominalValue,
                RepublishNominalValue
  <2>3. \A signer, n, uri :
          ~SetDocument(signer, n, uri) /\ ~RemoveDocument(signer, n)
    BY <2>1 DEF SetDocument, RemoveDocument
  <2>4. \A signer, key, text, idempotent :
          /\ ~UpdateMetadataField(signer, key, text)
          /\ ~RemoveMetadataField(signer, key, idempotent)
    BY <2>1 DEF UpdateMetadataField, RemoveMetadataField
  <2>5. ASSUME NEW n \in DocumentName, NEW lamports \in 1..MaxLamports,
               SendLamports(n, lamports)
        PROVE  \A k \in DocumentName : documents'[k].uri = documents[k].uri
    <3>1. documents \in [DocumentName -> DocumentAccount]
      BY <1>1 DEF RecordsInv, DocumentInv
    <3>2. documents' = [documents EXCEPT ![n].lamports = @ + lamports]
      BY <2>5 DEF SendLamports
    <3> QED
      BY <3>1, <3>2 DEF DocumentAccount
  <2>6. UNCHANGED recordsVars =>
          UNCHANGED <<nominal, nominalEvents, documents, metadata, mintLamports>>
    BY DEF recordsVars
  <2> QED
    BY <1>1, <2>2, <2>3, <2>4, <2>5, <2>6, RecordsSteps
<1>2. RecordsInv /\ [RecordsNext]_<<vars, recordsVars>> =>
        [paused \/ deactivated =>
           /\ UNCHANGED <<nominal, nominalEvents, metadata, mintLamports>>
           /\ \A n \in DocumentName : documents'[n].uri = documents[n].uri
        ]_<<vars, recordsVars>>
  BY <1>1
<1> QED
  BY <1>2, RecordsInvariant, PTL DEF RecordsSpec, RecordsHalt

=============================================================================
