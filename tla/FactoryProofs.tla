--------------------------- MODULE FactoryProofs ---------------------------
(***************************************************************************)
(* Theorems about Factory, for every value of its constants.               *)
(***************************************************************************)
EXTENDS Factory, TLAPS

-----------------------------------------------------------------------------
(***************************************************************************)
(* The inductive invariant.                                                *)
(***************************************************************************)

\* Every deployed mint is bound to a version that exists and is final.
BoundToFinal ==
    \A m \in MintAddress : Exists(configuration[m]) =>
        LET bound == versions[configuration[m].config][configuration[m].version]
        IN  Exists(bound) /\ bound.state = "Finalized"

\* There is no nomination for an office that was never filled.
NominatedByHolders ==
    /\ ~Exists(factory) => ~Exists(pendingManager)
    /\ \A c \in Config : ~Exists(ownership[c]) => ~Exists(pendingOwner[c])

FactoryInv == VersionsConsecutive /\ BoundToFinal /\ NominatedByHolders

\* The versions of one class, given its latest: what VersionsConsecutive says
\* of each.
VersionInOrder(class, latest, vs, v) ==
    /\ Exists(vs[v]) => Exists(class)
    /\ v <= latest => Exists(vs[v]) /\ vs[v].state = "Finalized"
    /\ v = latest + 1 /\ Exists(vs[v]) => vs[v].state = "Draft"
    /\ v > latest + 1 => ~Exists(vs[v])

Latest(class) == IF Exists(class) THEN class.latest ELSE 0

\* VersionsConsecutive, class by class.
LEMMA VersionsByClass ==
  VersionsConsecutive <=>
    /\ FactoryTypeOK
    /\ \A c \in Config, v \in Version :
         VersionInOrder(ownership[c], Latest(ownership[c]), versions[c], v)
BY DEF VersionsConsecutive, VersionInOrder, Latest

\* The same of the next state.
LEMMA VersionsByClassNext ==
  VersionsConsecutive' <=>
    /\ FactoryTypeOK'
    /\ \A c \in Config, v \in Version :
         VersionInOrder(ownership'[c], Latest(ownership'[c]), versions'[c], v)
BY DEF VersionsConsecutive, VersionInOrder, Latest

\* A class has a latest version or none.
LEMMA LatestTyped ==
  ASSUME FactoryTypeOK, NEW c \in Config
  PROVE  Latest(ownership[c]) \in 0..MaxVersion
<1>1. ownership[c] \in AssetClassOwnership \cup {NoPda}
  BY DEF FactoryTypeOK
<1> QED
  BY <1>1, FactoryAssumption DEF Latest, Exists, AssetClassOwnership

\* Opening, editing or finalizing a version keeps the invariant if the new
\* account is what its place in the order asks for, and it was no final one.
LEMMA WritingKeepsOrder ==
  ASSUME FactoryInv, NEW c \in Config, NEW v \in Version,
         NEW x \in AssetClassVersion,
         versions' = [versions EXCEPT ![c][v] = x],
         Exists(versions[c][v]) => versions[c][v].state = "Draft",
         ownership' \in [Config -> AssetClassOwnership \cup {NoPda}],
         \A d \in Config \ {c} : ownership'[d] = ownership[d],
         Exists(ownership[c]), Exists(ownership'[c]),
         \/ /\ ownership'[c] = ownership[c]
            /\ v = ownership[c].latest + 1
            /\ x.state = "Draft"
         \/ /\ v = ownership[c].latest + 1
            /\ ownership'[c].latest = v
            /\ x.state = "Finalized",
         UNCHANGED <<factory, pendingManager, pendingOwner, configuration>>
  PROVE  FactoryInv'
<1>1. FactoryTypeOK /\ BoundToFinal /\ NominatedByHolders
      /\ \A d \in Config, w \in Version :
           VersionInOrder(ownership[d], Latest(ownership[d]), versions[d], w)
  BY VersionsByClass DEF FactoryInv
<1>2. /\ versions' \in [Config -> [Version -> AssetClassVersion \cup {NoPda}]]
      /\ versions'[c][v] = x
      /\ \A d \in Config, w \in Version :
           d # c \/ w # v => versions'[d][w] = versions[d][w]
  <2>1. FactoryTypeOK
    BY <1>1
  <2>2. versions \in [Config -> [Version -> AssetClassVersion \cup {NoPda}]]
    BY <2>1 DEF FactoryTypeOK
  <2>3. versions' = [versions EXCEPT ![c][v] = x]
    OBVIOUS
  <2> QED
    BY ONLY <2>2, <2>3, c \in Config, v \in Version, x \in AssetClassVersion
<1>3. FactoryTypeOK'
  BY <1>1, <1>2 DEF FactoryTypeOK
<1>4. x # NoPda
  BY FactoryAssumption
<1>5. ASSUME NEW d \in Config, NEW w \in Version
      PROVE  VersionInOrder(ownership'[d], Latest(ownership'[d]), versions'[d], w)
  <2>1. VersionInOrder(ownership[d], Latest(ownership[d]), versions[d], w)
    BY <1>1
  <2>2. CASE d # c
    BY <2>1, <2>2, <1>2 DEF VersionInOrder
  <2>3. CASE d = c
    <3>1. /\ Latest(ownership[c]) = ownership[c].latest
          /\ Latest(ownership'[c]) = ownership'[c].latest
      BY DEF Latest
    <3>2. ownership[c].latest \in Nat
      BY <1>1, <3>1, LatestTyped
    <3>3. w \in Nat /\ v \in Nat
      BY FactoryAssumption DEF Version
    <3>4. CASE w = v
      BY <2>3, <3>1, <3>2, <3>3, <3>4, <1>2, <1>4 DEF VersionInOrder, Exists
    <3>5. CASE w # v
      BY <2>1, <2>3, <3>1, <3>2, <3>3, <3>5, <1>2 DEF VersionInOrder, Exists
    <3> QED
      BY <3>4, <3>5
  <2> QED
    BY <2>2, <2>3
<1>6. VersionsConsecutive'
  BY <1>3, <1>5, VersionsByClassNext
<1>7. BoundToFinal'
  <2> SUFFICES ASSUME NEW m \in MintAddress, configuration[m] # NoPda
               PROVE  LET bound == versions'[configuration[m].config]
                                            [configuration[m].version]
                      IN  bound # NoPda /\ bound.state = "Finalized"
    BY DEF BoundToFinal, Exists
  <2>1. configuration[m].config \in Config /\ configuration[m].version \in Version
    BY <1>1 DEF FactoryTypeOK, AssetConfiguration
  <2>2. LET bound == versions[configuration[m].config][configuration[m].version]
        IN  bound # NoPda /\ bound.state = "Finalized"
    BY <1>1 DEF BoundToFinal, Exists
  <2>3. configuration[m].config # c \/ configuration[m].version # v
    BY <2>2 DEF Exists
  <2> QED
    BY <1>2, <2>1, <2>2, <2>3
<1>8. NominatedByHolders'
  <2>1. \A d \in Config : ~Exists(ownership'[d]) => ~Exists(ownership[d])
    OBVIOUS
  <2> QED
    BY <1>1, <2>1 DEF NominatedByHolders, Exists
<1> QED
  BY <1>6, <1>7, <1>8 DEF FactoryInv

\* A draft is the version after the latest.
LEMMA DraftIsNext ==
  ASSUME FactoryInv, NEW signer, NEW c \in Config, NEW v \in Version,
         DraftOf(signer, c, v)
  PROVE  /\ ownership[c] \in AssetClassOwnership
         /\ v = ownership[c].latest + 1
         /\ versions[c][v] \in AssetClassVersion
         /\ versions[c][v].state = "Draft"
<1>1. FactoryTypeOK
      /\ VersionInOrder(ownership[c], Latest(ownership[c]), versions[c], v)
  BY VersionsByClass DEF FactoryInv
<1>2. /\ Exists(ownership[c])
      /\ Exists(versions[c][v])
      /\ versions[c][v].state = "Draft"
  BY DEF DraftOf, VerifyOwner
<1>3. /\ ownership[c] \in AssetClassOwnership
      /\ versions[c][v] \in AssetClassVersion
  BY <1>1, <1>2 DEF FactoryTypeOK, Exists
<1>4. Latest(ownership[c]) = ownership[c].latest /\ ownership[c].latest \in Nat
  BY <1>2, <1>3, FactoryAssumption DEF Latest, AssetClassOwnership
<1>5. v \in Nat
  BY FactoryAssumption DEF Version
<1> QED
  BY <1>1, <1>2, <1>3, <1>4, <1>5 DEF VersionInOrder

\* Replacing an owner, or creating a class, disturbs no version.
LEMMA OwnersKeepOrder ==
  ASSUME FactoryInv, FactoryTypeOK', NominatedByHolders',
         \A c \in Config : Latest(ownership'[c]) = Latest(ownership[c])
                           /\ (Exists(ownership[c]) => Exists(ownership'[c])),
         UNCHANGED versions,
         UNCHANGED configuration
  PROVE  FactoryInv'
<1>1. BoundToFinal
      /\ \A d \in Config, w \in Version :
           VersionInOrder(ownership[d], Latest(ownership[d]), versions[d], w)
  BY VersionsByClass DEF FactoryInv
<1>2. \A d \in Config, w \in Version :
         VersionInOrder(ownership'[d], Latest(ownership'[d]), versions'[d], w)
  BY <1>1 DEF VersionInOrder
<1>3. VersionsConsecutive'
  BY <1>2, VersionsByClassNext
<1>4. BoundToFinal'
  BY <1>1 DEF BoundToFinal
<1> QED
  BY <1>3, <1>4 DEF FactoryInv

\* The instructions of the manager keep the invariant.
LEMMA ManagerInv ==
  ASSUME FactoryInv, NEW signer \in Actor,
         \/ Initialize(signer)
         \/ \E newManager \in Actor : NominateManager(signer, newManager)
         \/ AcceptNomination(signer)
         \/ CancelNomination(signer)
         \/ Pause(signer)
         \/ Unpause(signer)
  PROVE  FactoryInv'
<1>1. FactoryTypeOK /\ NominatedByHolders
  BY DEF FactoryInv, VersionsConsecutive
<1>2. UNCHANGED <<ownership, pendingOwner, versions, configuration>>
  BY DEF Initialize, NominateManager, AcceptNomination, CancelNomination,
         Pause, Unpause
<1>3. factory' \in FactoryAccount /\ pendingManager' \in Actor \cup {NoPda}
  <2>1. CASE Initialize(signer)
    <3>1. [manager |-> signer, pause |-> FALSE] \in FactoryAccount
      BY DEF FactoryAccount
    <3> QED
      BY <1>1, <2>1, <3>1 DEF Initialize, FactoryTypeOK
  <2>2. CASE ~Initialize(signer)
    <3>1. factory # NoPda
      BY <2>2 DEF NominateManager, AcceptNomination, CancelNomination, Pause,
                  Unpause, FactoryNotPaused, FactoryPaused, Exists
    <3>2. factory \in FactoryAccount
      BY <1>1, <3>1 DEF FactoryTypeOK
    <3>3. \/ factory' = factory /\ pendingManager' \in Actor \cup {NoPda}
          \/ /\ pendingManager \in Actor /\ pendingManager' = NoPda
             /\ factory' = [factory EXCEPT !.manager = pendingManager]
          \/ /\ factory' = [factory EXCEPT !.pause = TRUE]
             /\ pendingManager' = pendingManager
          \/ /\ factory' = [factory EXCEPT !.pause = FALSE]
             /\ pendingManager' = pendingManager
      BY <1>1, <2>2 DEF NominateManager, AcceptNomination, CancelNomination,
                        Pause, Unpause, VerifyPendingManager, Exists,
                        FactoryTypeOK
    <3>4. /\ \A p \in Actor : [factory EXCEPT !.manager = p] \in FactoryAccount
          /\ [factory EXCEPT !.pause = TRUE] \in FactoryAccount
          /\ [factory EXCEPT !.pause = FALSE] \in FactoryAccount
      BY <3>2 DEF FactoryAccount
    <3>5. pendingManager \in Actor \cup {NoPda}
      BY <1>1 DEF FactoryTypeOK
    <3> QED
      BY <3>2, <3>3, <3>4, <3>5
  <2> QED
    BY <2>1, <2>2
<1>4. factory' # NoPda
  BY <1>3, FactoryAssumption
<1>5. FactoryTypeOK'
  BY <1>1, <1>2, <1>3 DEF FactoryTypeOK
<1>6. NominatedByHolders'
  BY <1>1, <1>2, <1>4 DEF NominatedByHolders, Exists
<1>7. \A c \in Config : Latest(ownership'[c]) = Latest(ownership[c])
                        /\ (Exists(ownership[c]) => Exists(ownership'[c]))
  BY <1>2 DEF Latest, Exists
<1> QED
  BY <1>2, <1>5, <1>6, <1>7, OwnersKeepOrder

\* The instructions that give a class an owner keep the invariant.
LEMMA OwnershipInv ==
  ASSUME FactoryInv, NEW signer \in Actor, NEW c \in Config,
         \/ \E owner \in Actor : CreateAssetClass(signer, c, owner)
         \/ \E newOwner \in Actor : NominateAssetClassOwner(signer, c, newOwner)
         \/ AcceptAssetClassOwnership(signer, c)
         \/ CancelAssetClassOwnership(signer, c)
  PROVE  FactoryInv'
<1>1. FactoryTypeOK /\ NominatedByHolders
  BY DEF FactoryInv, VersionsConsecutive
<1>2. UNCHANGED <<factory, pendingManager, versions, configuration>>
  BY DEF CreateAssetClass, NominateAssetClassOwner, AcceptAssetClassOwnership,
         CancelAssetClassOwnership
<1>3. ASSUME FactoryTypeOK', NominatedByHolders', ownership' = ownership
      PROVE  FactoryInv'
  BY <1>2, <1>3, OwnersKeepOrder
<1>4. CASE \E owner \in Actor : CreateAssetClass(signer, c, owner)
  <2>1. PICK owner \in Actor : CreateAssetClass(signer, c, owner)
    BY <1>4
  <2> DEFINE class == [owner |-> owner, latest |-> 0]
  <2>2. class \in AssetClassOwnership /\ class.latest = 0
    BY FactoryAssumption DEF AssetClassOwnership
  <2>3. class # NoPda
    BY <2>2, FactoryAssumption
  <2>4. /\ ~Exists(ownership[c])
        /\ ownership' = [ownership EXCEPT ![c] = class]
        /\ pendingOwner' = pendingOwner
    BY <2>1 DEF CreateAssetClass
  <2> HIDE DEF class
  <2>5. /\ ownership' \in [Config -> AssetClassOwnership \cup {NoPda}]
        /\ \A d \in Config : ownership'[d] = IF d = c THEN class ELSE ownership[d]
    BY <1>1, <2>2, <2>4 DEF FactoryTypeOK
  <2>6. FactoryTypeOK'
    BY <1>1, <1>2, <2>4, <2>5 DEF FactoryTypeOK
  <2>7. NominatedByHolders'
    BY <1>1, <1>2, <2>3, <2>4, <2>5 DEF NominatedByHolders, Exists
  <2>8. \A d \in Config : Latest(ownership'[d]) = Latest(ownership[d])
                          /\ (Exists(ownership[d]) => Exists(ownership'[d]))
    BY <2>2, <2>3, <2>4, <2>5 DEF Latest, Exists
  <2> QED
    BY <1>2, <2>6, <2>7, <2>8, OwnersKeepOrder
<1>5. CASE \E newOwner \in Actor : NominateAssetClassOwner(signer, c, newOwner)
  <2>1. /\ ownership' = ownership
        /\ Exists(ownership[c])
        /\ \E newOwner \in Actor :
             pendingOwner' = [pendingOwner EXCEPT ![c] = newOwner]
    BY <1>5 DEF NominateAssetClassOwner, VerifyOwner
  <2>2. FactoryTypeOK'
    BY <1>1, <1>2, <2>1 DEF FactoryTypeOK
  <2>3. NominatedByHolders'
    BY <1>1, <1>2, <2>1 DEF NominatedByHolders, FactoryTypeOK, Exists
  <2> QED
    BY <1>3, <2>1, <2>2, <2>3
<1>6. CASE AcceptAssetClassOwnership(signer, c)
  <2>1. /\ Exists(ownership[c])
        /\ Exists(pendingOwner[c])
        /\ ownership' = [ownership EXCEPT ![c].owner = pendingOwner[c]]
        /\ pendingOwner' = [pendingOwner EXCEPT ![c] = NoPda]
    BY <1>6 DEF AcceptAssetClassOwnership, VerifyPendingOwner
  <2>2. ownership[c] \in AssetClassOwnership /\ pendingOwner[c] \in Actor
    BY <1>1, <2>1 DEF FactoryTypeOK, Exists
  <2> DEFINE class == [ownership[c] EXCEPT !.owner = pendingOwner[c]]
  <2>3. class \in AssetClassOwnership /\ class.latest = ownership[c].latest
    BY <2>2 DEF AssetClassOwnership
  <2>4. class # NoPda
    BY <2>3, FactoryAssumption
  <2>5. ownership' = [ownership EXCEPT ![c] = class]
    BY <2>1
  <2> HIDE DEF class
  <2>6. /\ ownership' \in [Config -> AssetClassOwnership \cup {NoPda}]
        /\ \A d \in Config : ownership'[d] = IF d = c THEN class ELSE ownership[d]
    BY <1>1, <2>3, <2>5 DEF FactoryTypeOK
  <2>7. FactoryTypeOK'
    BY <1>1, <1>2, <2>1, <2>6 DEF FactoryTypeOK
  <2>8. NominatedByHolders'
    BY <1>1, <1>2, <2>1, <2>4, <2>6 DEF NominatedByHolders, FactoryTypeOK, Exists
  <2>9. \A d \in Config : Latest(ownership'[d]) = Latest(ownership[d])
                          /\ (Exists(ownership[d]) => Exists(ownership'[d]))
    BY <2>1, <2>3, <2>4, <2>6 DEF Latest, Exists
  <2> QED
    BY <1>2, <2>7, <2>8, <2>9, OwnersKeepOrder
<1>7. CASE CancelAssetClassOwnership(signer, c)
  <2>1. /\ ownership' = ownership
        /\ pendingOwner' = [pendingOwner EXCEPT ![c] = NoPda]
    BY <1>7 DEF CancelAssetClassOwnership
  <2>2. FactoryTypeOK'
    BY <1>1, <1>2, <2>1 DEF FactoryTypeOK
  <2>3. NominatedByHolders'
    BY <1>1, <1>2, <2>1 DEF NominatedByHolders, FactoryTypeOK, Exists
  <2> QED
    BY <1>3, <2>1, <2>2, <2>3
<1> QED
  BY <1>4, <1>5, <1>6, <1>7

\* The instructions that write versions keep the invariant.
LEMMA VersionInv ==
  ASSUME FactoryInv, NEW signer \in Actor, NEW c \in Config, NEW v \in Version,
         \/ InitAssetClassVersion(signer, c, v)
         \/ \E list \in PositionList :
               \/ EnableFunctionalities(signer, c, v, list)
               \/ DisableFunctionalities(signer, c, v, list)
         \/ FinalizeAssetClassVersion(signer, c, v)
  PROVE  FactoryInv'
<1>1. FactoryTypeOK
  BY DEF FactoryInv, VersionsConsecutive
<1>2. UNCHANGED <<factory, pendingManager, pendingOwner, configuration>>
  BY DEF InitAssetClassVersion, EnableFunctionalities, DisableFunctionalities,
         FinalizeAssetClassVersion
<1>3. CASE InitAssetClassVersion(signer, c, v)
  <2> DEFINE x == [state |-> "Draft", mask |-> {}]
  <2>1. x \in AssetClassVersion /\ x.state = "Draft"
    BY DEF AssetClassVersion
  <2>2. /\ Exists(ownership[c])
        /\ v = ownership[c].latest + 1
        /\ ~Exists(versions[c][v])
        /\ versions' = [versions EXCEPT ![c][v] = x]
        /\ ownership' = ownership
    BY <1>3 DEF InitAssetClassVersion, VerifyOwner
  <2> HIDE DEF x
  <2> QED
    BY <1>1, <1>2, <2>1, <2>2, WritingKeepsOrder DEF FactoryTypeOK
<1>4. ASSUME NEW mask \in SUBSET Position, DraftOf(signer, c, v),
             versions' = [versions EXCEPT ![c][v].mask = mask],
             ownership' = ownership
      PROVE  FactoryInv'
  <2> DEFINE x == [versions[c][v] EXCEPT !.mask = mask]
  <2>1. /\ ownership[c] \in AssetClassOwnership
        /\ v = ownership[c].latest + 1
        /\ versions[c][v] \in AssetClassVersion
        /\ versions[c][v].state = "Draft"
    BY <1>4, DraftIsNext
  <2>2. x \in AssetClassVersion /\ x.state = "Draft"
    BY <2>1 DEF AssetClassVersion
  <2>3. versions' = [versions EXCEPT ![c][v] = x]
    BY <1>1, <1>4 DEF FactoryTypeOK
  <2>4. Exists(ownership[c])
    BY <2>1, FactoryAssumption DEF Exists
  <2>5. /\ ownership' \in [Config -> AssetClassOwnership \cup {NoPda}]
        /\ \A d \in Config \ {c} : ownership'[d] = ownership[d]
        /\ ownership'[c] = ownership[c]
        /\ Exists(ownership'[c])
    BY <1>1, <1>4, <2>4 DEF FactoryTypeOK
  <2> HIDE DEF x
  <2> QED
    BY <1>2, <2>1, <2>2, <2>3, <2>4, <2>5, WritingKeepsOrder
<1>5. ASSUME NEW list \in PositionList, EnableFunctionalities(signer, c, v, list)
      PROVE  FactoryInv'
  <2>1. DraftOf(signer, c, v) /\ list \subseteq Position /\ ownership' = ownership
    BY <1>5 DEF EnableFunctionalities
  <2>2. versions[c][v].mask \subseteq Position
    BY <2>1, DraftIsNext DEF AssetClassVersion
  <2>3. versions' = [versions EXCEPT ![c][v].mask = versions[c][v].mask \cup list]
    BY <1>1, <1>5 DEF EnableFunctionalities, FactoryTypeOK
  <2> QED
    BY <1>4, <2>1, <2>2, <2>3
<1>6. ASSUME NEW list \in PositionList, DisableFunctionalities(signer, c, v, list)
      PROVE  FactoryInv'
  <2>1. DraftOf(signer, c, v) /\ ownership' = ownership
    BY <1>6 DEF DisableFunctionalities
  <2>2. versions[c][v].mask \subseteq Position
    BY <2>1, DraftIsNext DEF AssetClassVersion
  <2>3. versions' = [versions EXCEPT ![c][v].mask = versions[c][v].mask \ list]
    BY <1>1, <1>6 DEF DisableFunctionalities, FactoryTypeOK
  <2> QED
    BY <1>4, <2>1, <2>2, <2>3
<1>7. CASE FinalizeAssetClassVersion(signer, c, v)
  <2> DEFINE x == [versions[c][v] EXCEPT !.state = "Finalized"]
             class == [ownership[c] EXCEPT !.latest = v]
  <2>1. /\ ownership[c] \in AssetClassOwnership
        /\ v = ownership[c].latest + 1
        /\ versions[c][v] \in AssetClassVersion
        /\ versions[c][v].state = "Draft"
    BY <1>7, DraftIsNext DEF FinalizeAssetClassVersion
  <2>2. x \in AssetClassVersion /\ x.state = "Finalized"
    BY <2>1 DEF AssetClassVersion
  <2>3. v \in 0..MaxVersion
    BY FactoryAssumption DEF Version
  <2>4. class \in AssetClassOwnership /\ class.latest = v
    BY <2>1, <2>3 DEF AssetClassOwnership
  <2>5. /\ versions' = [versions EXCEPT ![c][v] = x]
        /\ ownership' = [ownership EXCEPT ![c] = class]
    BY <1>1, <1>7 DEF FinalizeAssetClassVersion, FactoryTypeOK
  <2> HIDE DEF x, class
  <2>6. /\ ownership' \in [Config -> AssetClassOwnership \cup {NoPda}]
        /\ ownership'[c] = class
        /\ \A d \in Config \ {c} : ownership'[d] = ownership[d]
    BY <1>1, <2>4, <2>5 DEF FactoryTypeOK
  <2>7. Exists(ownership[c]) /\ Exists(ownership'[c])
    BY <2>1, <2>4, <2>6, FactoryAssumption DEF Exists
  <2> QED
    BY <1>2, <2>1, <2>2, <2>4, <2>5, <2>6, <2>7, WritingKeepsOrder
<1> QED
  BY <1>3, <1>5, <1>6, <1>7

\* deploy_mint keeps the invariant: it binds to a final version.
LEMMA DeployInv ==
  ASSUME FactoryInv, NEW m \in MintAddress, NEW c \in Config, NEW v \in Version,
         DeployMint(m, c, v)
  PROVE  FactoryInv'
<1>1. FactoryTypeOK /\ BoundToFinal /\ NominatedByHolders
  BY DEF FactoryInv, VersionsConsecutive
<1> DEFINE bound == [config |-> c, version |-> v]
<1>2. /\ bound \in AssetConfiguration
      /\ bound.config = c
      /\ bound.version = v
  BY DEF AssetConfiguration
<1>3. /\ configuration' = [configuration EXCEPT ![m] = bound]
      /\ Exists(versions[c][v]) /\ versions[c][v].state = "Finalized"
      /\ UNCHANGED <<factory, pendingManager, ownership, pendingOwner, versions>>
  BY DEF DeployMint
<1> HIDE DEF bound
<1>4. /\ configuration' \in [MintAddress -> AssetConfiguration \cup {NoPda}]
      /\ \A n \in MintAddress : configuration'[n] =
           IF n = m THEN bound ELSE configuration[n]
  BY <1>1, <1>2, <1>3 DEF FactoryTypeOK
<1>5. FactoryTypeOK'
  BY <1>1, <1>3, <1>4 DEF FactoryTypeOK
<1>6. VersionsConsecutive'
  BY <1>3, <1>5 DEF FactoryInv, VersionsConsecutive
<1>7. BoundToFinal'
  BY <1>1, <1>2, <1>3, <1>4 DEF BoundToFinal, Exists
<1>8. NominatedByHolders'
  BY <1>1, <1>3 DEF NominatedByHolders
<1> QED
  BY <1>6, <1>7, <1>8 DEF FactoryInv

LEMMA FactoryInvInit ==
  ASSUME FactoryInit
  PROVE  FactoryInv
<1>1. FactoryTypeOK
  BY DEF FactoryInit, FactoryTypeOK
<1>2. \A c \in Config, v \in Version :
        VersionInOrder(ownership[c], Latest(ownership[c]), versions[c], v)
  BY FactoryAssumption DEF FactoryInit, VersionInOrder, Latest, Exists, Version
<1>3. VersionsConsecutive
  BY <1>1, <1>2, VersionsByClass
<1>4. BoundToFinal /\ NominatedByHolders
  BY DEF FactoryInit, BoundToFinal, NominatedByHolders, Exists
<1> QED
  BY <1>3, <1>4 DEF FactoryInv

LEMMA FactoryInvStep ==
  ASSUME FactoryInv, [FactoryNext]_factoryVars
  PROVE  FactoryInv'
<1>1. CASE UNCHANGED factoryVars
  BY <1>1 DEF FactoryInv, VersionsConsecutive, FactoryTypeOK, BoundToFinal,
              NominatedByHolders, factoryVars
<1>2. CASE FactoryNext
  BY <1>2, ManagerInv, OwnershipInv, VersionInv, DeployInv DEF FactoryNext
<1> QED
  BY <1>1, <1>2

\* The invariant holds throughout.
LEMMA FactoryInvariant == FactorySpec => []FactoryInv
BY FactoryInvInit, FactoryInvStep, PTL DEF FactorySpec

\* In finalize_asset_class_version "the only existing draft is latest_version +
\* 1": the versions of every class are final up to the latest, with one draft
\* at most after it, under every interleaving of nominations, drafts, edits
\* and finalizations.  All accounts are well typed.
THEOREM VersionsInOrder == FactorySpec => []VersionsConsecutive
<1>1. FactoryInv => VersionsConsecutive
  BY DEF FactoryInv
<1> QED
  BY <1>1, FactoryInvariant, PTL

-----------------------------------------------------------------------------
(***************************************************************************)
(* What a step may do.                                                     *)
(***************************************************************************)

\* No instruction touches a final version.
LEMMA FinalVersionsStay ==
  ASSUME FactoryInv, [FactoryNext]_factoryVars,
         NEW c \in Config, NEW v \in Version,
         Exists(versions[c][v]), versions[c][v].state = "Finalized"
  PROVE  versions'[c][v] = versions[c][v]
<1>1. FactoryTypeOK
  BY DEF FactoryInv, VersionsConsecutive
<1>2. CASE versions' = versions
  BY <1>2
<1>3. ASSUME NEW signer \in Actor, NEW d \in Config, NEW w \in Version,
             \/ InitAssetClassVersion(signer, d, w)
             \/ \E list \in PositionList :
                   \/ EnableFunctionalities(signer, d, w, list)
                   \/ DisableFunctionalities(signer, d, w, list)
             \/ FinalizeAssetClassVersion(signer, d, w)
      PROVE  versions'[c][v] = versions[c][v]
  <2>1. d # c \/ w # v
    BY <1>3 DEF InitAssetClassVersion, EnableFunctionalities,
                DisableFunctionalities, FinalizeAssetClassVersion, DraftOf
  <2>2. \E x : versions' = [versions EXCEPT ![d][w] = x]
    <3>1. CASE InitAssetClassVersion(signer, d, w)
      BY <3>1 DEF InitAssetClassVersion
    <3>2. ASSUME NEW list, EnableFunctionalities(signer, d, w, list)
          PROVE  versions' = [versions EXCEPT ![d][w] =
                   [versions[d][w] EXCEPT !.mask = versions[d][w].mask \cup list]]
      BY <1>1, <3>2 DEF EnableFunctionalities, FactoryTypeOK
    <3>3. ASSUME NEW list, DisableFunctionalities(signer, d, w, list)
          PROVE  versions' = [versions EXCEPT ![d][w] =
                   [versions[d][w] EXCEPT !.mask = versions[d][w].mask \ list]]
      BY <1>1, <3>3 DEF DisableFunctionalities, FactoryTypeOK
    <3>4. ASSUME FinalizeAssetClassVersion(signer, d, w)
          PROVE  versions' = [versions EXCEPT ![d][w] =
                   [versions[d][w] EXCEPT !.state = "Finalized"]]
      BY <1>1, <3>4 DEF FinalizeAssetClassVersion, FactoryTypeOK
    <3> QED
      BY <1>3, <3>1, <3>2, <3>3, <3>4
  <2> QED
    BY <1>1, <2>1, <2>2 DEF FactoryTypeOK
<1>4. \/ versions' = versions
      \/ \E signer \in Actor, d \in Config, w \in Version :
            \/ InitAssetClassVersion(signer, d, w)
            \/ \E list \in PositionList :
                  \/ EnableFunctionalities(signer, d, w, list)
                  \/ DisableFunctionalities(signer, d, w, list)
            \/ FinalizeAssetClassVersion(signer, d, w)
  BY DEF FactoryNext, factoryVars, Initialize, NominateManager,
         AcceptNomination, CancelNomination, Pause, Unpause, CreateAssetClass,
         NominateAssetClassOwner, AcceptAssetClassOwnership,
         CancelAssetClassOwnership, DeployMint
<1> QED
  BY <1>2, <1>3, <1>4

\* What a mint may do is settled at deployment: neither its binding nor the
\* bits require_functionality reads through it ever change, whatever the
\* owners of its asset class do later.
THEOREM MaskFixedAtDeployment == FactorySpec => MintKeepsItsMask
<1>1. ASSUME FactoryInv, [FactoryNext]_factoryVars, NEW m \in MintAddress,
             Exists(configuration[m])
      PROVE  /\ configuration'[m] = configuration[m]
             /\ MaskOf(m)' = MaskOf(m)
  <2>1. FactoryTypeOK /\ BoundToFinal
    BY <1>1 DEF FactoryInv, VersionsConsecutive
  <2>2. configuration'[m] = configuration[m]
    <3>1. CASE configuration' = configuration
      BY <3>1
    <3>2. ASSUME NEW n \in MintAddress, NEW c \in Config, NEW v \in Version,
                 DeployMint(n, c, v)
          PROVE  configuration'[m] = configuration[m]
      BY <1>1, <2>1, <3>2 DEF DeployMint, FactoryTypeOK
    <3> QED
      BY <1>1, <3>1, <3>2
         DEF FactoryNext, factoryVars, Initialize, NominateManager,
             AcceptNomination, CancelNomination, Pause, Unpause,
             CreateAssetClass, NominateAssetClassOwner,
             AcceptAssetClassOwnership, CancelAssetClassOwnership,
             InitAssetClassVersion, EnableFunctionalities,
             DisableFunctionalities, FinalizeAssetClassVersion
  <2>3. configuration[m].config \in Config /\ configuration[m].version \in Version
    BY <1>1, <2>1 DEF FactoryTypeOK, AssetConfiguration, Exists
  <2>4. LET bound == versions[configuration[m].config][configuration[m].version]
        IN  Exists(bound) /\ bound.state = "Finalized"
    BY <1>1, <2>1 DEF BoundToFinal
  <2>5. versions'[configuration[m].config][configuration[m].version]
          = versions[configuration[m].config][configuration[m].version]
    BY <1>1, <2>3, <2>4, FinalVersionsStay
  <2> QED
    BY <2>2, <2>5 DEF MaskOf
<1>2. FactoryInv /\ [FactoryNext]_factoryVars =>
        [\A m \in MintAddress : Exists(configuration[m]) =>
           /\ configuration'[m] = configuration[m]
           /\ MaskOf(m)' = MaskOf(m)]_factoryVars
  BY <1>1
<1> QED
  BY <1>2, FactoryInvariant, PTL DEF FactorySpec, MintKeepsItsMask

\* While the factory is paused no office, class or version changes: every
\* instruction but unpause consults the flag, and unpause touches nothing else.
THEOREM PauseHaltsTheFactory == FactorySpec => FactoryPauseHalts
<1>1. ASSUME FactoryInv, [FactoryNext]_factoryVars, FactoryPaused
      PROVE  /\ factory'.manager = factory.manager
             /\ UNCHANGED <<pendingManager, ownership, pendingOwner, versions>>
  <2>1. factory \in FactoryAccount
    BY <1>1 DEF FactoryInv, VersionsConsecutive, FactoryTypeOK, FactoryPaused,
                Exists
  <2>2. \/ UNCHANGED factoryVars
        \/ \E signer \in Actor : Unpause(signer)
        \/ \E m \in MintAddress, c \in Config, v \in Version : DeployMint(m, c, v)
    BY <1>1 DEF FactoryNext, FactoryPaused, FactoryNotPaused, Initialize,
                NominateManager, AcceptNomination, CancelNomination, Pause,
                CreateAssetClass, NominateAssetClassOwner,
                AcceptAssetClassOwnership, CancelAssetClassOwnership,
                InitAssetClassVersion, EnableFunctionalities,
                DisableFunctionalities, FinalizeAssetClassVersion, DraftOf
  <2> QED
    BY <2>1, <2>2 DEF factoryVars, Unpause, DeployMint, FactoryAccount
<1>2. FactoryInv /\ [FactoryNext]_factoryVars =>
        [FactoryPaused =>
           /\ factory'.manager = factory.manager
           /\ UNCHANGED <<pendingManager, ownership, pendingOwner, versions>>
        ]_factoryVars
  BY <1>1
<1> QED
  BY <1>2, FactoryInvariant, PTL DEF FactorySpec, FactoryPauseHalts

-----------------------------------------------------------------------------
(***************************************************************************)
(* Offices.                                                                *)
(***************************************************************************)

\* Who is the manager.
Manager == IF Exists(factory) THEN factory.manager ELSE NoPda

\* Who owns a class.
Owner(c) == IF Exists(ownership[c]) THEN ownership[c].owner ELSE NoPda

\* Every step fills the manager's office for the first time, changes its
\* nominee, passes it to the nominee, or leaves it alone.
LEMMA ManagerPasses ==
  ASSUME FactoryInv, FactoryInv', [FactoryNext]_factoryVars
  PROVE  ManagerHandover!Next \/ UNCHANGED <<Manager, pendingManager>>
<1>1. /\ factory \in FactoryAccount \cup {NoPda}
      /\ pendingManager \in Actor \cup {NoPda}
      /\ ~Exists(factory) => ~Exists(pendingManager)
  BY DEF FactoryInv, VersionsConsecutive, FactoryTypeOK, NominatedByHolders
<1>2. /\ Manager \in Actor \cup {NoPda}
      /\ Manager = NoPda <=> factory = NoPda
      /\ Exists(factory) => Manager = factory.manager
  BY <1>1, FactoryAssumption DEF Manager, Exists, FactoryAccount
<1>3. CASE UNCHANGED <<factory, pendingManager>>
  BY <1>3 DEF Manager
<1>4. ASSUME NEW signer \in Actor, Initialize(signer)
      PROVE  ManagerHandover!Next
  <2>1. Manager = NoPda /\ pendingManager' = NoPda
    BY <1>1, <1>2, <1>4 DEF Initialize, Exists
  <2>2. factory' \in FactoryAccount /\ factory'.manager = signer
    BY <1>4 DEF Initialize, FactoryAccount
  <2>3. Manager' = signer
    BY <2>2, FactoryAssumption DEF Manager, Exists
  <2> QED
    BY <2>1, <2>3 DEF ManagerHandover!Next, ManagerHandover!Found, Manager
<1>5. ASSUME Exists(factory), factory' = factory,
             pendingManager' \in Actor \cup {NoPda}
      PROVE  ManagerHandover!Next
  <2>1. Manager # NoPda /\ Manager' = Manager
    BY <1>2, <1>5 DEF Exists, Manager
  <2> QED
    BY <1>5, <2>1 DEF ManagerHandover!Next, ManagerHandover!Offer, Manager
<1>6. ASSUME NEW signer \in Actor, AcceptNomination(signer)
      PROVE  ManagerHandover!Next
  <2>1. /\ pendingManager # NoPda
        /\ pendingManager' = NoPda
        /\ factory \in FactoryAccount
        /\ factory' = [factory EXCEPT !.manager = pendingManager]
    BY <1>1, <1>6 DEF AcceptNomination, VerifyPendingManager, FactoryNotPaused,
                      Exists
  <2>2. factory' \in FactoryAccount /\ factory'.manager = pendingManager
    BY <1>1, <2>1 DEF FactoryAccount
  <2>3. Manager' = pendingManager
    BY <2>2, FactoryAssumption DEF Manager, Exists
  <2> QED
    BY <2>1, <2>3 DEF ManagerHandover!Next, ManagerHandover!Take, Manager
<1>7. ASSUME NEW signer \in Actor, Pause(signer) \/ Unpause(signer)
      PROVE  UNCHANGED <<Manager, pendingManager>>
  <2>1. /\ pendingManager' = pendingManager
        /\ factory \in FactoryAccount
        /\ \E b \in BOOLEAN : factory' = [factory EXCEPT !.pause = b]
    BY <1>1, <1>7 DEF Pause, Unpause, FactoryNotPaused, FactoryPaused, Exists
  <2>2. factory' \in FactoryAccount /\ factory'.manager = factory.manager
    BY <2>1 DEF FactoryAccount
  <2> QED
    BY <2>1, <2>2, FactoryAssumption DEF Manager, Exists
<1>8. \/ UNCHANGED <<factory, pendingManager>>
      \/ \E signer \in Actor :
            \/ Initialize(signer)
            \/ AcceptNomination(signer)
            \/ Pause(signer)
            \/ Unpause(signer)
      \/ /\ Exists(factory) /\ factory' = factory
         /\ pendingManager' \in Actor \cup {NoPda}
  BY DEF FactoryNext, factoryVars, NominateManager, CancelNomination,
         FactoryNotPaused, CreateAssetClass, NominateAssetClassOwner,
         AcceptAssetClassOwnership, CancelAssetClassOwnership,
         InitAssetClassVersion, EnableFunctionalities, DisableFunctionalities,
         FinalizeAssetClassVersion, DeployMint
<1> QED
  BY <1>3, <1>4, <1>5, <1>6, <1>7, <1>8

\* The same for the owner of every asset class.
LEMMA OwnerPasses ==
  ASSUME FactoryInv, [FactoryNext]_factoryVars, NEW c \in Config
  PROVE  OwnerHandover(c)!Next \/ UNCHANGED <<Owner(c), pendingOwner[c]>>
<1>1. /\ FactoryTypeOK
      /\ ownership[c] \in AssetClassOwnership \cup {NoPda}
      /\ pendingOwner[c] \in Actor \cup {NoPda}
      /\ ~Exists(ownership[c]) => ~Exists(pendingOwner[c])
  BY DEF FactoryInv, VersionsConsecutive, FactoryTypeOK, NominatedByHolders
<1>2. /\ Owner(c) = NoPda <=> ownership[c] = NoPda
      /\ Exists(ownership[c]) => Owner(c) = ownership[c].owner
  BY <1>1, FactoryAssumption DEF Owner, Exists, AssetClassOwnership
<1>3. CASE ownership'[c] = ownership[c] /\ pendingOwner'[c] = pendingOwner[c]
  BY <1>3 DEF Owner
<1>4. ASSUME NEW signer \in Actor, NEW owner \in Actor,
             CreateAssetClass(signer, c, owner)
      PROVE  OwnerHandover(c)!Next
  <2>1. Owner(c) = NoPda /\ pendingOwner'[c] = NoPda
    BY <1>1, <1>2, <1>4 DEF CreateAssetClass, Exists
  <2>2. ownership'[c] \in AssetClassOwnership /\ ownership'[c].owner = owner
    BY <1>1, <1>4, FactoryAssumption
       DEF CreateAssetClass, FactoryTypeOK, AssetClassOwnership
  <2>3. Owner(c)' = owner
    BY <2>2, FactoryAssumption DEF Owner, Exists
  <2> QED
    BY <2>1, <2>3 DEF OwnerHandover!Next, OwnerHandover!Found, Owner
<1>5. ASSUME Exists(ownership[c]), ownership' = ownership,
             pendingOwner'[c] \in Actor \cup {NoPda}
      PROVE  OwnerHandover(c)!Next
  <2>1. Owner(c) # NoPda /\ Owner(c)' = Owner(c)
    BY <1>2, <1>5 DEF Exists, Owner
  <2> QED
    BY <1>5, <2>1 DEF OwnerHandover!Next, OwnerHandover!Offer, Owner
<1>6. ASSUME NEW signer \in Actor, AcceptAssetClassOwnership(signer, c)
      PROVE  OwnerHandover(c)!Next
  <2>1. /\ pendingOwner[c] \in Actor /\ pendingOwner[c] # NoPda
        /\ pendingOwner'[c] = NoPda
        /\ ownership[c] \in AssetClassOwnership
        /\ ownership'[c] = [ownership[c] EXCEPT !.owner = pendingOwner[c]]
    BY <1>1, <1>6 DEF AcceptAssetClassOwnership, VerifyPendingOwner, Exists,
                      FactoryTypeOK
  <2>2. ownership'[c] \in AssetClassOwnership
        /\ ownership'[c].owner = pendingOwner[c]
    BY <2>1 DEF AssetClassOwnership
  <2>3. Owner(c)' = pendingOwner[c]
    BY <2>2, FactoryAssumption DEF Owner, Exists
  <2> QED
    BY <2>1, <2>3 DEF OwnerHandover!Next, OwnerHandover!Take, Owner
<1>7. ASSUME NEW signer \in Actor, NEW v \in Version,
             FinalizeAssetClassVersion(signer, c, v)
      PROVE  UNCHANGED <<Owner(c), pendingOwner[c]>>
  <2>1. /\ pendingOwner'[c] = pendingOwner[c]
        /\ ownership[c] \in AssetClassOwnership
        /\ ownership'[c] = [ownership[c] EXCEPT !.latest = v]
    BY <1>1, <1>7 DEF FinalizeAssetClassVersion, DraftOf, VerifyOwner, Exists,
                      FactoryTypeOK
  <2>2. v \in 0..MaxVersion
    BY FactoryAssumption DEF Version
  <2>3. ownership'[c] \in AssetClassOwnership
        /\ ownership'[c].owner = ownership[c].owner
    BY <2>1, <2>2 DEF AssetClassOwnership
  <2> QED
    BY <2>1, <2>3, FactoryAssumption DEF Owner, Exists
<1>8. ASSUME NEW signer \in Actor, NEW d \in Config,
             \/ \E owner \in Actor : CreateAssetClass(signer, d, owner)
             \/ \E newOwner \in Actor :
                   NominateAssetClassOwner(signer, d, newOwner)
             \/ AcceptAssetClassOwnership(signer, d)
             \/ CancelAssetClassOwnership(signer, d)
             \/ \E v \in Version : FinalizeAssetClassVersion(signer, d, v)
      PROVE  OwnerHandover(c)!Next \/ UNCHANGED <<Owner(c), pendingOwner[c]>>
  <2>1. CASE d # c
    <3>1. ownership'[c] = ownership[c] /\ pendingOwner'[c] = pendingOwner[c]
      BY <1>1, <1>8, <2>1
         DEF CreateAssetClass, NominateAssetClassOwner,
             AcceptAssetClassOwnership, CancelAssetClassOwnership,
             FinalizeAssetClassVersion, FactoryTypeOK
    <3> QED
      BY <3>1, <1>3
  <2>2. CASE d = c
    <3>1. ASSUME \/ \E newOwner \in Actor :
                       NominateAssetClassOwner(signer, c, newOwner)
                 \/ CancelAssetClassOwnership(signer, c)
          PROVE  /\ Exists(ownership[c]) /\ ownership' = ownership
                 /\ pendingOwner'[c] \in Actor \cup {NoPda}
      BY <1>1, <3>1 DEF NominateAssetClassOwner, CancelAssetClassOwnership,
                        VerifyOwner, FactoryTypeOK
    <3> QED
      BY <1>4, <1>5, <1>6, <1>7, <1>8, <2>2, <3>1
  <2> QED
    BY <2>1, <2>2
<1>9. \/ UNCHANGED <<ownership, pendingOwner>>
      \/ \E signer \in Actor, d \in Config :
            \/ \E owner \in Actor : CreateAssetClass(signer, d, owner)
            \/ \E newOwner \in Actor :
                  NominateAssetClassOwner(signer, d, newOwner)
            \/ AcceptAssetClassOwnership(signer, d)
            \/ CancelAssetClassOwnership(signer, d)
            \/ \E v \in Version : FinalizeAssetClassVersion(signer, d, v)
  BY DEF FactoryNext, factoryVars, Initialize, NominateManager,
         AcceptNomination, CancelNomination, Pause, Unpause,
         InitAssetClassVersion, EnableFunctionalities, DisableFunctionalities,
         DeployMint
<1> QED
  BY <1>3, <1>8, <1>9

\* The factory implements the handover of an office: manager and owners change
\* only when the standing nominee of the present holder accepts, which uses the
\* nomination up (nominate, accept and cancel of the factory program, in any
\* order and between any other instructions).
THEOREM OfficesPassToNominees == FactorySpec => OfficesPass
<1>1. FactoryInit => ManagerHandover!Init
  BY DEF FactoryInit, ManagerHandover!Init, Exists
<1>2. FactoryInv /\ FactoryInv' /\ [FactoryNext]_factoryVars =>
        [ManagerHandover!Next]_(ManagerHandover!handoverVars)
  BY ManagerPasses DEF Manager, ManagerHandover!handoverVars
<1>3. FactoryInv /\ [FactoryNext]_factoryVars =>
        [\A c \in Config : \/ OwnerHandover(c)!Next
                           \/ UNCHANGED OwnerHandover(c)!handoverVars
        ]_factoryVars
  BY OwnerPasses DEF Owner, OwnerHandover!handoverVars
<1> QED
  BY <1>1, <1>2, <1>3, FactoryInvariant, PTL
     DEF FactorySpec, OfficesPass, ManagerHandover!Spec

=============================================================================
