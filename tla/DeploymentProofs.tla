-------------------------- MODULE DeploymentProofs --------------------------
(***************************************************************************)
(* Theorems about deploy_mint and the transfers of the mint it makes, for  *)
(* any number of additional fields and texts of any length.                *)
(***************************************************************************)
EXTENDS HookMetas, Induction, SequenceTheorems

-----------------------------------------------------------------------------
(***************************************************************************)
(* Sizes.                                                                  *)
(***************************************************************************)

Fields == [key : FieldKey, value : TextSize]

\* What the fields of a list take.
FieldsSize(extra) ==
    SumFunctionOnSet([i \in DOMAIN extra |->
                        FieldSize(extra[i].key, extra[i].value)],
                     DOMAIN extra)

\* Additional metadata as it is stored: finitely many keys and their values.
Extras == UNION {[ks -> TextSize] : ks \in {S \in SUBSET FieldKey : IsFiniteSet(S)}}

\* What stored fields take.
ExtrasSize(e) ==
    SumFunctionOnSet([k \in DOMAIN e |-> FieldSize(k, e[k])], DOMAIN e)

\* A field has a size.
LEMMA FieldSizeNat ==
  ASSUME NEW k \in FieldKey, NEW v \in TextSize
  PROVE  FieldSize(k, v) \in Nat
<1>1. KeyLength[k] \in Nat /\ v \in Nat
  BY DeploymentAssumption
<1> QED
  BY <1>1 DEF FieldSize

\* What is stored, in other words.
LEMMA ExtrasMembers ==
  ASSUME NEW e
  PROVE  e \in Extras <=> /\ e \in [DOMAIN e -> TextSize]
                          /\ DOMAIN e \subseteq FieldKey
                          /\ IsFiniteSet(DOMAIN e)
<1>1. ASSUME e \in Extras
      PROVE  /\ e \in [DOMAIN e -> TextSize]
             /\ DOMAIN e \subseteq FieldKey
             /\ IsFiniteSet(DOMAIN e)
  <2>1. PICK ks \in SUBSET FieldKey : IsFiniteSet(ks) /\ e \in [ks -> TextSize]
    BY <1>1 DEF Extras
  <2>2. DOMAIN e = ks
    BY <2>1
  <2> QED
    BY <2>1, <2>2
<1>2. ASSUME e \in [DOMAIN e -> TextSize], DOMAIN e \subseteq FieldKey,
             IsFiniteSet(DOMAIN e)
      PROVE  e \in Extras
  BY <1>2 DEF Extras
<1> QED
  BY <1>1, <1>2

\* A run of integers is summed up the same wherever it lies.
LEMMA SumShift ==
  ASSUME NEW n \in Nat, NEW f, NEW g,
         \A i \in 1..n : f[i + 1] \in Int /\ g[i] = f[i + 1]
  PROVE  SumFunctionOnSet(f, 2..(n + 1)) = SumFunctionOnSet(g, 1..n)
<1> DEFINE R == {k \in 0..n : SumFunctionOnSet(f, 2..(k + 1))
                                = SumFunctionOnSet(g, 1..k)}
<1>1. 0 \in R
  <2>1. 2..(0 + 1) = {} /\ 1..0 = {} /\ 0 \in 0..n
    OBVIOUS
  <2>2. SumFunctionOnSet(f, 2..(0 + 1)) = 0 /\ SumFunctionOnSet(g, 1..0) = 0
    BY <2>1, SumEmpty
  <2> QED
    BY <2>1, <2>2
<1>2. ASSUME NEW k \in 1..n, k - 1 \in R PROVE k \in R
  <2> DEFINE A == 2..(k + 1)
             B == 1..k
  <2>1. IsFiniteSet(A) /\ IsFiniteSet(B)
    BY FS_Interval
  <2>2. k + 1 \in A /\ k \in B
    OBVIOUS
  <2>3. A \ {k + 1} = 2..((k - 1) + 1) /\ B \ {k} = 1..(k - 1)
    OBVIOUS
  <2>4. \A x \in A : f[x] \in Int
    <3>1. ASSUME NEW x \in A PROVE x - 1 \in 1..n /\ (x - 1) + 1 = x
      OBVIOUS
    <3> QED
      BY <3>1
  <2>5. \A x \in B : g[x] \in Int
    <3>1. ASSUME NEW x \in B PROVE x \in 1..n
      OBVIOUS
    <3> QED
      BY <3>1
  <2>6. SumFunctionOnSet(f, 2..((k - 1) + 1)) = SumFunctionOnSet(g, 1..(k - 1))
    BY <1>2
  <2>7. f[k + 1] = g[k]
    OBVIOUS
  <2> HIDE DEF A, B
  <2>8. SumFunctionOnSet(f, A) = f[k + 1] + SumFunctionOnSet(f, A \ {k + 1})
    BY <2>1, <2>2, <2>4, SumRemove
  <2>9. SumFunctionOnSet(g, B) = g[k] + SumFunctionOnSet(g, B \ {k})
    BY <2>1, <2>2, <2>5, SumRemove
  <2>10. SumFunctionOnSet(f, A) = SumFunctionOnSet(g, B)
    BY <2>3, <2>6, <2>7, <2>8, <2>9
  <2>11. k \in 0..n
    OBVIOUS
  <2> QED
    BY <2>10, <2>11 DEF A, B
<1>3. n \in R
  <2> HIDE DEF R
  <2>1. \A i \in 0..n : i \in R
    BY <1>1, <1>2, PrefixInduction
  <2> QED
    BY <2>1
<1> QED
  BY <1>3

\* The fields of a list have a size.
LEMMA FieldsSizeNat ==
  ASSUME NEW extra \in Seq(Fields)
  PROVE  FieldsSize(extra) \in Nat
<1> DEFINE f == [i \in DOMAIN extra |-> FieldSize(extra[i].key, extra[i].value)]
           D == DOMAIN extra
<1>1. D = 1..Len(extra) /\ Len(extra) \in Nat
  OBVIOUS
<1>2. IsFiniteSet(D)
  BY <1>1, FS_Interval
<1>3. \A x \in D : f[x] \in Nat
  <2>1. ASSUME NEW x \in D PROVE extra[x] \in Fields
    BY <1>1
  <2>2. ASSUME NEW x \in D
        PROVE  extra[x].key \in FieldKey /\ extra[x].value \in TextSize
    BY <2>1 DEF Fields
  <2>3. ASSUME NEW x \in D PROVE f[x] = FieldSize(extra[x].key, extra[x].value)
    OBVIOUS
  <2> HIDE DEF f, D
  <2> QED
    BY <2>2, <2>3, FieldSizeNat
<1>4. FieldsSize(extra) = SumFunctionOnSet(f, D)
  BY DEF FieldsSize
<1> HIDE DEF f, D
<1> QED
  BY <1>2, <1>3, <1>4, SumNat

\* The size of a list is that of its head and of its tail.
LEMMA FieldsSizeTail ==
  ASSUME NEW extra \in Seq(Fields), extra # <<>>
  PROVE  FieldsSize(extra) = FieldSize(Head(extra).key, Head(extra).value)
                               + FieldsSize(Tail(extra))
<1> DEFINE rest == Tail(extra)
           f == [i \in DOMAIN extra |-> FieldSize(extra[i].key, extra[i].value)]
           g == [i \in DOMAIN rest |-> FieldSize(rest[i].key, rest[i].value)]
           n == Len(rest)
<1>1. /\ rest \in Seq(Fields) /\ n \in Nat
      /\ Len(extra) = n + 1
      /\ \A i \in 1..n : rest[i] = extra[i + 1]
  BY HeadTailProperties
<1>2. Head(extra) = extra[1]
  OBVIOUS
<1>3. DOMAIN extra = 1..(n + 1) /\ DOMAIN rest = 1..n
  BY <1>1
<1>4. ASSUME NEW i \in 1..(n + 1) PROVE f[i] \in Nat
  <2>1. extra[i] \in Fields
    BY <1>1
  <2>2. extra[i].key \in FieldKey /\ extra[i].value \in TextSize
    BY <2>1 DEF Fields
  <2>3. f[i] = FieldSize(extra[i].key, extra[i].value)
    BY <1>3
  <2> HIDE DEF f
  <2> QED
    BY <2>2, <2>3, FieldSizeNat
<1>5. ASSUME NEW i \in 1..n PROVE g[i] = f[i + 1] /\ i + 1 \in 1..(n + 1)
  <2>1. i + 1 \in 1..(n + 1)
    BY <1>1
  <2>2. g[i] = FieldSize(rest[i].key, rest[i].value)
    BY <1>3
  <2>3. f[i + 1] = FieldSize(extra[i + 1].key, extra[i + 1].value)
    BY <1>3, <2>1
  <2>4. rest[i] = extra[i + 1]
    BY <1>1
  <2> HIDE DEF f, g, rest, n
  <2> QED
    BY <2>1, <2>2, <2>3, <2>4
<1>6. f[1] = FieldSize(Head(extra).key, Head(extra).value)
  BY <1>1, <1>2, <1>3
<1>7. /\ FieldsSize(extra) = SumFunctionOnSet(f, DOMAIN extra)
      /\ FieldsSize(rest) = SumFunctionOnSet(g, DOMAIN rest)
  BY DEF FieldsSize
<1> HIDE DEF f, g, rest, n
<1>8. SumFunctionOnSet(f, 1..(n + 1))
        = f[1] + SumFunctionOnSet(f, (1..(n + 1)) \ {1})
  <2> DEFINE S == 1..(n + 1)
  <2>1. IsFiniteSet(S) /\ 1 \in S /\ \A x \in S : f[x] \in Int
    <3>1. IsFiniteSet(S)
      BY <1>1, FS_Interval
    <3>2. 1 \in S
      BY <1>1
    <3>3. ASSUME NEW x \in S PROVE f[x] \in Int
      BY <1>4
    <3> QED
      BY <3>1, <3>2, <3>3
  <2>2. ASSUME NEW T, T = S, IsFiniteSet(T), 1 \in T, \A x \in T : f[x] \in Int
        PROVE  SumFunctionOnSet(f, T) = f[1] + SumFunctionOnSet(f, T \ {1})
    BY <2>2, SumRemove, ZenonT(60)
  <2> QED
    BY <2>1, <2>2
<1>9. (1..(n + 1)) \ {1} = 2..(n + 1)
  BY <1>1
<1>10. SumFunctionOnSet(f, 2..(n + 1)) = SumFunctionOnSet(g, 1..n)
  <2>1. \A i \in 1..n : f[i + 1] \in Int /\ g[i] = f[i + 1]
    BY <1>4, <1>5
  <2> QED
    BY <1>1, <2>1, SumShift
<1> QED
  BY <1>3, <1>6, <1>7, <1>8, <1>9, <1>10 DEF rest

\* Writing a field makes what is stored grow by no more than the field.
LEMMA ExtrasSizeWrite ==
  ASSUME NEW e \in Extras, NEW key \in FieldKey, NEW v \in TextSize,
         NEW w, w = [k \in DOMAIN e \cup {key} |-> IF k = key THEN v ELSE e[k]]
  PROVE  /\ w \in Extras
         /\ ExtrasSize(e) \in Nat /\ ExtrasSize(w) \in Nat
         /\ ExtrasSize(w) <= ExtrasSize(e) + FieldSize(key, v)
<1> DEFINE D == DOMAIN e
           h == [k \in DOMAIN e |-> FieldSize(k, e[k])]
           m == [k \in DOMAIN w |-> FieldSize(k, w[k])]
<1>1. e \in [D -> TextSize] /\ D \subseteq FieldKey /\ IsFiniteSet(D)
  BY ExtrasMembers
<1>2. DOMAIN w = D \cup {key} /\ IsFiniteSet(D \cup {key})
  BY <1>1, FS_AddElement
<1>3. /\ w \in [D \cup {key} -> TextSize]
      /\ w[key] = v /\ \A k \in D \ {key} : w[k] = e[k]
  BY <1>1
<1>4. w \in Extras
  BY <1>1, <1>2, <1>3, ExtrasMembers
<1>5. /\ \A k \in D : h[k] = FieldSize(k, e[k])
      /\ \A k \in D \cup {key} : m[k] = FieldSize(k, w[k])
  BY <1>2
<1>6. /\ ExtrasSize(e) = SumFunctionOnSet(h, D)
      /\ ExtrasSize(w) = SumFunctionOnSet(m, DOMAIN w)
  BY DEF ExtrasSize
<1> HIDE DEF h, m, D
<1>7. /\ \A k \in D : h[k] \in Nat
      /\ \A k \in D \cup {key} : m[k] \in Nat
  <2>1. ASSUME NEW k \in D PROVE h[k] \in Nat
    <3>1. k \in FieldKey /\ e[k] \in TextSize
      BY <1>1
    <3> QED
      BY <1>5, <3>1, FieldSizeNat
  <2>2. ASSUME NEW k \in D \cup {key} PROVE m[k] \in Nat
    <3>1. k \in FieldKey /\ w[k] \in TextSize
      BY <1>1, <1>3
    <3> QED
      BY <1>5, <3>1, FieldSizeNat
  <2> QED
    BY <2>1, <2>2
<1> DEFINE W == D \cup {key}
           C == D \ {key}
<1>8. IsFiniteSet(W) /\ key \in W /\ W \ {key} = C
  BY <1>2
<1>9. IsFiniteSet(C) /\ C \subseteq D
  BY <1>1, FS_Subset
<1>10. \A k \in C : h[k] \in Int /\ m[k] = h[k]
  BY <1>3, <1>5, <1>7, SMTT(60)
<1>11. m[key] = FieldSize(key, v)
  BY <1>3, <1>5
<1>12. \A k \in W : m[k] \in Nat
  BY <1>7
<1>13. key \in D => C = D \ {key}
  OBVIOUS
<1>14. key \notin D => C = D
  OBVIOUS
<1> HIDE DEF W, C
<1>15. SumFunctionOnSet(m, W) = m[key] + SumFunctionOnSet(m, C)
  BY <1>8, <1>12, SumRemove
<1>16. SumFunctionOnSet(m, C) = SumFunctionOnSet(h, C)
  BY <1>9, <1>10, SumSame
<1>17. /\ SumFunctionOnSet(h, D) \in Nat
       /\ SumFunctionOnSet(h, C) \in Nat
       /\ SumFunctionOnSet(m, W) \in Nat
  BY <1>1, <1>7, <1>8, <1>9, <1>12, SumNat
<1>18. SumFunctionOnSet(h, C) <= SumFunctionOnSet(h, D)
  <2>1. CASE key \in D
    <3>1. SumFunctionOnSet(h, D) = h[key] + SumFunctionOnSet(h, D \ {key})
      BY <1>1, <1>7, <2>1, SumRemove
    <3>2. h[key] \in Nat
      BY <1>7, <2>1
    <3> QED
      BY <1>13, <1>17, <2>1, <3>1, <3>2
  <2>2. CASE key \notin D
    BY <1>14, <1>17, <2>2
  <2> QED
    BY <2>1, <2>2
<1>19. m[key] \in Nat
  BY <1>7
<1> QED
  BY <1>2, <1>4, <1>6, <1>11, <1>15, <1>16, <1>17, <1>18, <1>19 DEF W

-----------------------------------------------------------------------------
(***************************************************************************)
(* What the account is funded for.                                         *)
(***************************************************************************)

Stages == {"create", "extensions", "mint", "metadata", "fields",
           "mint_authority", "configuration", "meta_list", "roles", "done"}

DeployTyped ==
    /\ params \in [core : TextSize, extra : Seq(Fields), class : Class]
    /\ pc \in Stages
    /\ account \in [lamports : Int, len : Int]
    /\ metadata \in [authority : {None, Temp, "metadata_update_authority"},
                     core : Nat, extra : Extras]

\* Until the metadata is there the lamports pay for all that will be; while
\* its fields are written, for what is there and the fields that are left.
Funding ==
    /\ pc = "create" => account.lamports = 0
    /\ pc \in {"extensions", "mint", "metadata"} =>
         /\ account.len = BaseSize
         /\ account.lamports = RentOverhead + BaseSize + 92 + params.core
                                 + FieldsSize(params.extra)
    /\ pc = "fields" =>
         account.lamports >= RentOverhead + account.len
                               + FieldsSize(params.extra)
    /\ pc \in {"mint_authority", "configuration", "meta_list", "roles", "done"} =>
         account.lamports >= RentOverhead + account.len

FundingInv == DeployTyped /\ Funding

\* The account is sized for a number of bytes.
LEMMA BaseSizeInt == BaseSize \in Int
<1>1. IsFiniteSet(SizedFor)
  <2> DEFINE A == {"PermanentDelegate"}
             B == A \cup {"MetadataPointer"}
             C == B \cup {"Pausable"}
             D == C \cup {"TransferHook"}
             E == D \cup {"PermissionedBurn"}
  <2>1. IsFiniteSet(A)
    BY FS_Singleton
  <2>2. IsFiniteSet(B)
    <3> HIDE DEF A
    <3> QED
      BY <2>1, FS_AddElement
  <2>3. IsFiniteSet(C)
    <3> HIDE DEF B
    <3> QED
      BY <2>2, FS_AddElement
  <2>4. IsFiniteSet(D)
    <3> HIDE DEF C
    <3> QED
      BY <2>3, FS_AddElement
  <2>5. IsFiniteSet(E)
    <3> HIDE DEF D
    <3> QED
      BY <2>4, FS_AddElement
  <2>6. SizedFor = E
    BY DEF SizedFor
  <2> QED
    BY <2>5, <2>6
<1>2. Cardinality(SizedFor) \in Nat
  BY <1>1, FS_CardinalityType
<1> QED
  BY <1>2, DeploymentAssumption DEF BaseSize

\* The sizes that account for a list of fields and for what is stored.
LEMMA SizesOf ==
  /\ \A core, extra : TlvSize(core, extra) = 92 + core + FieldsSize(extra)
  /\ \A m : StoredSize(m) = 84 + m.core + ExtrasSize(m.extra)
  /\ FieldsSize(<<>>) = 0
<1>1. FieldsSize(<<>>) = 0
  <2>1. DOMAIN <<>> = {}
    OBVIOUS
  <2> QED
    BY <2>1, SumEmpty DEF FieldsSize
<1> QED
  BY <1>1 DEF TlvSize, StoredSize, FieldsSize, ExtrasSize

\* Nothing is stored at first.
LEMMA NothingStored == <<>> \in Extras
<1>1. DOMAIN <<>> = {} /\ <<>> \in [{} -> TextSize]
  OBVIOUS
<1>2. IsFiniteSet({})
  BY FS_EmptySet
<1> QED
  BY <1>1, <1>2, ExtrasMembers

\* Before the mint account exists nothing is paid for.
LEMMA FundingInit == DeployInit => FundingInv
<1> SUFFICES ASSUME DeployInit PROVE FundingInv
  OBVIOUS
<1>1. params \in [core : TextSize, extra : Seq(Fields), class : Class]
  <2>1. params \in DeployMintParams
    BY DEF DeployInit
  <2>2. ASSUME NEW x \in BoundedSeq(Fields, MaxFields) PROVE x \in Seq(Fields)
    <3>1. PICK n \in 0..MaxFields : x \in [1..n -> Fields]
      BY DEF BoundedSeq, SeqOf
    <3>2. n \in Nat
      BY DeploymentAssumption
    <3> QED
      BY <3>1, <3>2
  <2> QED
    BY <2>1, <2>2 DEF DeployMintParams, Fields
<1>2. pc = "create" /\ account = [lamports |-> 0, len |-> 0]
      /\ metadata = [authority |-> None, core |-> 0, extra |-> <<>>]
  BY DEF DeployInit
<1> QED
  BY <1>1, <1>2, NothingStored DEF FundingInv, DeployTyped, Funding, Stages

\* A step that only goes on.
LEMMA FundingKept ==
  ASSUME FundingInv, UNCHANGED <<params, account>>,
         metadata' \in [authority : {None, Temp, "metadata_update_authority"},
                        core : Nat, extra : Extras],
         \/ pc = pc'
         \/ pc = "extensions" /\ pc' = "mint"
         \/ pc = "mint" /\ pc' = "metadata"
         \/ pc = "mint_authority" /\ pc' = "configuration"
         \/ pc = "configuration" /\ pc' = "meta_list"
         \/ pc = "meta_list" /\ pc' = "roles"
         \/ pc = "roles" /\ pc' = "done"
  PROVE  FundingInv'
<1>1. DeployTyped'
  BY DEF FundingInv, DeployTyped, Stages
<1>2. Funding'
  BY DEF FundingInv, Funding, BaseSize
<1> QED
  BY <1>1, <1>2 DEF FundingInv

\* create_mint_account pays for all the parameters ask for.
LEMMA CreateFunds ==
  ASSUME FundingInv, CreateMintAccount
  PROVE  FundingInv'
<1>1. /\ pc' = "extensions" /\ params' = params /\ metadata' = metadata
      /\ account' = [len |-> BaseSize,
                     lamports |-> MinimumBalance(BaseSize
                                    + TlvSize(params.core, params.extra))]
  BY DEF CreateMintAccount
<1>2. params.core \in Nat /\ params.extra \in Seq(Fields)
  BY DeploymentAssumption DEF FundingInv, DeployTyped
<1> DEFINE size == FieldsSize(params.extra)
<1>3. size \in Nat /\ BaseSize \in Int /\ RentOverhead \in Nat
  BY <1>2, FieldsSizeNat, BaseSizeInt, DeploymentAssumption
<1>4. account'.lamports = RentOverhead + (BaseSize + (92 + params.core + size))
  BY <1>1, SizesOf DEF MinimumBalance
<1>5. /\ account'.lamports = RentOverhead + BaseSize + 92 + params.core + size
      /\ account'.lamports \in Int /\ account'.len = BaseSize
  <2> HIDE DEF size
  <2>1. account'.len = BaseSize
    BY <1>1
  <2> QED
    BY <1>2, <1>3, <1>4, <2>1, SMTT(60)
<1>6. account' \in [lamports : Int, len : Int]
  BY <1>1, <1>3, <1>5
<1>7. DeployTyped'
  BY <1>1, <1>6 DEF FundingInv, DeployTyped, Stages
<1>8. Funding'
  BY <1>1, <1>5 DEF Funding, BaseSize
<1> QED
  BY <1>7, <1>8 DEF FundingInv

\* Initializing the metadata takes the fixed part of what was paid for.
LEMMA MetadataFunded ==
  ASSUME FundingInv, InitializeTokenMetadata
  PROVE  FundingInv'
<1>1. /\ pc = "metadata" /\ pc' = "fields" /\ params' = params
      /\ metadata' = [authority |-> Temp, core |-> params.core, extra |-> <<>>]
      /\ account' = [account EXCEPT !.len = @ + StoredSize(metadata')]
  BY DEF InitializeTokenMetadata
<1>2. /\ params.core \in Nat /\ params.extra \in Seq(Fields)
      /\ account \in [lamports : Int, len : Int]
  BY DeploymentAssumption DEF FundingInv, DeployTyped
<1>3. /\ account.len = BaseSize
      /\ account.lamports = RentOverhead + BaseSize + 92 + params.core
                              + FieldsSize(params.extra)
  BY <1>1 DEF FundingInv, Funding
<1>4. StoredSize(metadata') = 84 + params.core
  <2>1. DOMAIN <<>> = {}
    OBVIOUS
  <2>2. ExtrasSize(<<>>) = 0
    BY <2>1, SumEmpty DEF ExtrasSize
  <2>3. StoredSize(metadata') = 84 + params.core + ExtrasSize(<<>>)
    BY <1>1, SizesOf
  <2> QED
    BY <1>2, <2>2, <2>3
<1>5. /\ account'.lamports = account.lamports
      /\ account'.len = BaseSize + (84 + params.core)
  BY <1>1, <1>2, <1>3, <1>4
<1>6. FieldsSize(params.extra) \in Nat /\ BaseSize \in Int /\ RentOverhead \in Nat
  BY <1>2, FieldsSizeNat, BaseSizeInt, DeploymentAssumption
<1>7. account' \in [lamports : Int, len : Int]
  BY <1>1, <1>2, <1>4
<1>8. metadata' \in [authority : {None, Temp, "metadata_update_authority"},
                     core : Nat, extra : Extras]
  BY <1>1, <1>2, NothingStored
<1>9. DeployTyped'
  BY <1>1, <1>7, <1>8 DEF FundingInv, DeployTyped, Stages
<1>10. account'.lamports >= RentOverhead + account'.len
                              + FieldsSize(params.extra)
  BY <1>2, <1>3, <1>5, <1>6
<1>11. Funding'
  BY <1>1, <1>10 DEF Funding
<1> QED
  BY <1>9, <1>11 DEF FundingInv

\* Writing a field takes at most what was paid for it: less, where the key
\* comes again.
LEMMA FieldFunded ==
  ASSUME FundingInv, WriteAdditionalMetadata
  PROVE  FundingInv'
<1> DEFINE f == Head(params.extra)
           e == metadata.extra
           w == [k \in DOMAIN e \cup {f.key} |-> IF k = f.key THEN f.value ELSE e[k]]
<1>1. /\ pc = "fields" /\ pc' = pc /\ params.extra # <<>>
      /\ metadata' = [metadata EXCEPT !.extra = w]
      /\ account' = [account EXCEPT !.len =
                       @ + StoredSize(metadata') - StoredSize(metadata)]
      /\ params' = [params EXCEPT !.extra = Tail(@)]
  BY DEF WriteAdditionalMetadata
<1>2. /\ params \in [core : TextSize, extra : Seq(Fields), class : Class]
      /\ account \in [lamports : Int, len : Int]
      /\ metadata \in [authority : {None, Temp, "metadata_update_authority"},
                       core : Nat, extra : Extras]
  BY DEF FundingInv, DeployTyped
<1>3. /\ f \in Fields /\ Tail(params.extra) \in Seq(Fields)
      /\ FieldsSize(params.extra) = FieldSize(f.key, f.value)
                                      + FieldsSize(Tail(params.extra))
  <2>1. params.extra \in Seq(Fields)
    BY <1>2
  <2> QED
    BY <1>1, <2>1, HeadTailProperties, FieldsSizeTail
<1>4. f.key \in FieldKey /\ f.value \in TextSize
  BY <1>3 DEF Fields
<1>5. e \in Extras
  BY <1>2
<1>6. /\ w \in Extras
      /\ ExtrasSize(e) \in Nat /\ ExtrasSize(w) \in Nat
      /\ ExtrasSize(w) <= ExtrasSize(e) + FieldSize(f.key, f.value)
  <2>1. ASSUME NEW x, x = w
        PROVE  /\ x \in Extras
               /\ ExtrasSize(e) \in Nat /\ ExtrasSize(x) \in Nat
               /\ ExtrasSize(x) <= ExtrasSize(e) + FieldSize(f.key, f.value)
    <3> HIDE DEF e, f
    <3> QED
      BY <1>4, <1>5, <2>1, ExtrasSizeWrite
  <2> QED
    BY <2>1
<1>7. FieldSize(f.key, f.value) \in Nat
  BY <1>4, FieldSizeNat
<1>8. FieldsSize(Tail(params.extra)) \in Nat
  BY <1>3, FieldsSizeNat
<1> HIDE DEF w, f
<1>9. /\ metadata' \in [authority : {None, Temp, "metadata_update_authority"},
                        core : Nat, extra : Extras]
      /\ metadata'.extra = w /\ metadata'.core = metadata.core
      /\ metadata.core \in Nat
  BY <1>1, <1>2, <1>6
<1>10. params' \in [core : TextSize, extra : Seq(Fields), class : Class]
       /\ params'.extra = Tail(params.extra)
  BY <1>1, <1>2, <1>3
<1>11. /\ StoredSize(metadata') = 84 + metadata.core + ExtrasSize(w)
       /\ StoredSize(metadata) = 84 + metadata.core + ExtrasSize(e)
  BY <1>9, SizesOf
<1> HIDE DEF e
<1>12. /\ account'.lamports = account.lamports
       /\ account'.len = account.len + StoredSize(metadata') - StoredSize(metadata)
  BY <1>1, <1>2
<1>13. account'.len = account.len + ExtrasSize(w) - ExtrasSize(e)
  BY <1>2, <1>6, <1>9, <1>11, <1>12
<1>14. account' \in [lamports : Int, len : Int]
  <2>1. StoredSize(metadata') \in Int /\ StoredSize(metadata) \in Int
    BY <1>6, <1>9, <1>11
  <2> QED
    BY <1>1, <1>2, <2>1, SMTT(60)
<1>15. account.lamports >= RentOverhead + account.len + FieldsSize(params.extra)
  BY <1>1 DEF FundingInv, Funding
<1>16. account.lamports \in Int /\ account.len \in Int /\ RentOverhead \in Nat
  BY <1>2, DeploymentAssumption
<1>17. account'.lamports >= RentOverhead + account'.len
                              + FieldsSize(params'.extra)
  <2> DEFINE left == FieldsSize(Tail(params.extra))
             size == FieldSize(f.key, f.value)
             new  == ExtrasSize(w)
             old  == ExtrasSize(e)
  <2>1. /\ account.lamports >= RentOverhead + account.len + (size + left)
        /\ new <= old + size
        /\ left \in Nat /\ size \in Nat /\ new \in Nat /\ old \in Nat
    BY <1>3, <1>6, <1>7, <1>8, <1>15
  <2> HIDE DEF left, size, new, old
  <2>2. account.lamports >= RentOverhead + (account.len + new - old) + left
    BY <1>16, <2>1
  <2> QED
    BY <1>10, <1>12, <1>13, <2>2 DEF left, new, old
<1>18. DeployTyped'
  BY <1>1, <1>9, <1>10, <1>14 DEF DeployTyped, Stages
<1>19. Funding'
  BY <1>1, <1>17 DEF Funding
<1> QED
  BY <1>18, <1>19 DEF FundingInv

\* When no field is left the account pays for what is there.
LEMMA AuthorityFunded ==
  ASSUME FundingInv, TransferUpdateAuthority
  PROVE  FundingInv'
<1>1. /\ pc = "fields" /\ pc' = "mint_authority" /\ params.extra = <<>>
      /\ params' = params /\ account' = account
      /\ metadata' = [metadata EXCEPT !.authority = "metadata_update_authority"]
  BY DEF TransferUpdateAuthority
<1>2. DeployTyped'
  BY <1>1 DEF FundingInv, DeployTyped, Stages
<1>3. account.lamports >= RentOverhead + account.len + FieldsSize(params.extra)
  BY <1>1 DEF FundingInv, Funding
<1>4. account.lamports \in Int /\ account.len \in Int /\ RentOverhead \in Nat
  BY DeploymentAssumption DEF FundingInv, DeployTyped
<1>5. account.lamports >= RentOverhead + account.len
  BY <1>1, <1>3, <1>4, SizesOf
<1>6. Funding'
  BY <1>1, <1>5 DEF Funding
<1> QED
  BY <1>2, <1>6 DEF FundingInv

\* Every step of deploy_mint keeps the account funded.
LEMMA FundingStep == FundingInv /\ [DeployNext]_deployVars => FundingInv'
<1> SUFFICES ASSUME FundingInv, [DeployNext]_deployVars PROVE FundingInv'
  OBVIOUS
<1>1. metadata \in [authority : {None, Temp, "metadata_update_authority"},
                    core : Nat, extra : Extras]
  BY DEF FundingInv, DeployTyped
<1>2. CASE UNCHANGED deployVars
  BY <1>1, <1>2, FundingKept DEF deployVars
<1>3. CASE CreateMintAccount
  BY <1>3, CreateFunds
<1>4. CASE InitializeExtension
  <2>1. /\ UNCHANGED <<params, account, metadata>>
        /\ pc = "extensions" /\ (pc' = "mint" \/ pc' = pc)
    BY <1>4 DEF InitializeExtension
  <2> QED
    BY <1>1, <2>1, FundingKept
<1>5. CASE InitializeMint
  BY <1>1, <1>5, FundingKept DEF InitializeMint
<1>6. CASE InitializeTokenMetadata
  BY <1>6, MetadataFunded
<1>7. CASE WriteAdditionalMetadata
  BY <1>7, FieldFunded
<1>8. CASE TransferUpdateAuthority
  BY <1>8, AuthorityFunded
<1>9. CASE TransferMintAuthority
  BY <1>1, <1>9, FundingKept DEF TransferMintAuthority
<1>10. CASE RecordConfiguration
  BY <1>1, <1>10, FundingKept DEF RecordConfiguration
<1>11. CASE InitializeExtraAccountMetaList
  BY <1>1, <1>11, FundingKept DEF InitializeExtraAccountMetaList
<1>12. CASE GrantAdmin
  BY <1>1, <1>12, FundingKept DEF GrantAdmin
<1> QED
  BY <1>2, <1>3, <1>4, <1>5, <1>6, <1>7, <1>8, <1>9, <1>10, <1>11, <1>12
  DEF DeployNext

\* A step of a transfer leaves the deployment alone.
LEMMA HookStep ==
  ASSUME [HookNext]_<<deployVars, hookVars>>
  PROVE  [DeployNext]_deployVars
BY DEF HookNext

\* The lamports create_mint_account pays in beforehand suffice for whatever
\* the later steps of deploy_mint write: any number of fields, of any length,
\* keys given twice included.
THEOREM DeploymentsAreFunded == HookSpec => []FundedForItsMetadata
<1>1. HookInit => FundingInv
  BY FundingInit DEF HookInit
<1>2. FundingInv /\ [HookNext]_<<deployVars, hookVars>> => FundingInv'
  BY FundingStep, HookStep
<1>3. FundingInv => FundedForItsMetadata
  <2> SUFFICES ASSUME FundingInv, account.lamports > 0
               PROVE  account.lamports >= MinimumBalance(account.len)
    BY DEF FundedForItsMetadata
  <2>1. /\ params.core \in Nat /\ params.extra \in Seq(Fields)
        /\ account.lamports \in Int /\ account.len \in Int /\ RentOverhead \in Nat
    BY DeploymentAssumption DEF FundingInv, DeployTyped
  <2>2. FieldsSize(params.extra) \in Nat /\ BaseSize \in Int
    BY <2>1, FieldsSizeNat, BaseSizeInt
  <2>3. pc # "create"
    BY <2>1 DEF FundingInv, Funding
  <2>4. CASE pc \in {"extensions", "mint", "metadata"}
    <3>1. /\ account.len = BaseSize
          /\ account.lamports = RentOverhead + BaseSize + 92 + params.core
                                  + FieldsSize(params.extra)
      BY <2>4 DEF FundingInv, Funding
    <3> QED
      BY <2>1, <2>2, <3>1 DEF MinimumBalance
  <2>5. CASE pc = "fields"
    <3>1. account.lamports >= RentOverhead + account.len
                                + FieldsSize(params.extra)
      BY <2>5 DEF FundingInv, Funding
    <3> QED
      BY <2>1, <2>2, <3>1 DEF MinimumBalance
  <2>6. CASE pc \in {"mint_authority", "configuration", "meta_list", "roles", "done"}
    BY <2>6 DEF FundingInv, Funding, MinimumBalance
  <2> QED
    BY <2>3, <2>4, <2>5, <2>6 DEF FundingInv, DeployTyped, Stages
<1> QED
  BY <1>1, <1>2, <1>3, PTL DEF HookSpec

-----------------------------------------------------------------------------
(***************************************************************************)
(* The order of the sixteen steps.                                         *)
(***************************************************************************)

\* What the called programs require of the step that comes next: extensions
\* before initialize_mint2, the size it insists on, the temporary authority
\* where it signs, no ExtraAccountMetaList yet.  The safety half of
\* DeploymentsGoThrough: a deployment that ends, ends as it should.
StepsArePrepared ==
    /\ pc = "extensions" =>
         mintAuthority = None /\ Len(extensions) < Len(ExtensionSteps)
    /\ pc = "mint" =>
         account.len = ExtensionSize
                         * Cardinality({x.ext : x \in ToSet(extensions)})
    /\ pc \in {"metadata", "mint_authority"} => mintAuthority = Temp
    /\ pc = "fields" => metadata.authority = Temp
    /\ pc = "meta_list" => ~metaList
    /\ pc = "done" => GovernedByItsPrograms

ExtensionStep == {ExtensionSteps[i] : i \in 1..5}

\* Who holds what at which step.
Progress ==
    /\ mintAuthority =
         IF pc \in {"create", "extensions", "mint"} THEN None
         ELSE IF pc \in {"metadata", "fields", "mint_authority"} THEN Temp
         ELSE "mint_authority"
    /\ metadata.authority =
         IF pc \in {"create", "extensions", "mint", "metadata"} THEN None
         ELSE IF pc = "fields" THEN Temp
         ELSE "metadata_update_authority"
    /\ extensions \in Seq(ExtensionStep)
    /\ \A i \in 1..Len(extensions) : extensions[i] = ExtensionSteps[i]
    /\ pc = "create" => Len(extensions) = 0
    /\ pc = "extensions" => Len(extensions) < 5
    /\ pc \notin {"create", "extensions"} => Len(extensions) = 5
    /\ metaList \in BOOLEAN
    /\ metaList <=> pc \in {"roles", "done"}
    /\ admins = IF pc = "done" THEN {deployer} ELSE {}
    /\ pc \in {"meta_list", "roles", "done"} => configuration = params.class

DeployInv == FundingInv /\ Progress

\* The table of extensions.
LEMMA FiveExtensions ==
  /\ Len(ExtensionSteps) = 5
  /\ \A i \in 1..5 : ExtensionSteps[i] \in ExtensionStep
  /\ \A i \in 1..5 : ExtensionSteps[i].authority # Temp
  /\ {ExtensionSteps[i].ext : i \in 1..5} = SizedFor
<1>1. ASSUME NEW i \in 1..5
      PROVE  i = 1 \/ i = 2 \/ i = 3 \/ i = 4 \/ i = 5
  OBVIOUS
<1>2. /\ ExtensionSteps[1] = [ext |-> "MetadataPointer", authority |-> None]
      /\ ExtensionSteps[2] = [ext |-> "PermanentDelegate",
                              authority |-> "permanent_delegate"]
      /\ ExtensionSteps[3] = [ext |-> "PermissionedBurn",
                              authority |-> "permissioned_burn"]
      /\ ExtensionSteps[4] = [ext |-> "Pausable",
                              authority |-> "pausable_authority"]
      /\ ExtensionSteps[5] = [ext |-> "TransferHook",
                              authority |-> "transfer_hook_authority"]
      /\ Len(ExtensionSteps) = 5
  BY DEF ExtensionSteps
<1>3. \A i \in 1..5 : ExtensionSteps[i] \in ExtensionStep
  BY DEF ExtensionStep
<1>4. \A i \in 1..5 : ExtensionSteps[i].authority # Temp
  BY <1>1, <1>2 DEF Temp, None
<1>5. {ExtensionSteps[i].ext : i \in 1..5} = SizedFor
  <2>1. ASSUME NEW x \in SizedFor PROVE \E i \in 1..5 : x = ExtensionSteps[i].ext
    BY <1>2 DEF SizedFor
  <2>2. ASSUME NEW i \in 1..5 PROVE ExtensionSteps[i].ext \in SizedFor
    BY <1>1, <1>2 DEF SizedFor
  <2> QED
    BY <2>1, <2>2
<1> QED
  BY <1>2, <1>3, <1>4, <1>5

\* All five extensions, once they are there.
LEMMA AllExtensions ==
  ASSUME extensions \in Seq(ExtensionStep), Len(extensions) = 5,
         \A i \in 1..Len(extensions) : extensions[i] = ExtensionSteps[i]
  PROVE  /\ {x.ext : x \in ToSet(extensions)} = SizedFor
         /\ Temp \notin {x.authority : x \in ToSet(extensions)}
<1>1. ToSet(extensions) = {ExtensionSteps[i] : i \in 1..5}
  <2>1. DOMAIN extensions = 1..5 /\ \A i \in 1..5 : extensions[i] = ExtensionSteps[i]
    OBVIOUS
  <2> QED
    BY <2>1 DEF ToSet
<1>2. {x.ext : x \in ToSet(extensions)} = {ExtensionSteps[i].ext : i \in 1..5}
  BY <1>1
<1>3. {x.authority : x \in ToSet(extensions)}
        = {ExtensionSteps[i].authority : i \in 1..5}
  BY <1>1
<1> QED
  BY <1>2, <1>3, FiveExtensions

\* A deployment starts with nobody in office.
LEMMA ProgressInit == DeployInit => Progress
<1> SUFFICES ASSUME DeployInit PROVE Progress
  OBVIOUS
<1>1. /\ pc = "create" /\ extensions = <<>> /\ mintAuthority = None
      /\ metadata.authority = None /\ metaList = FALSE /\ admins = {}
  BY DEF DeployInit
<1>2. extensions \in Seq(ExtensionStep) /\ Len(extensions) = 0
  BY <1>1
<1>3. \A i \in 1..Len(extensions) : extensions[i] = ExtensionSteps[i]
  BY <1>2
<1> QED
  BY <1>1, <1>2, <1>3 DEF Progress

\* One more extension.
LEMMA ExtensionProgress ==
  ASSUME DeployInv, InitializeExtension
  PROVE  Progress'
<1> DEFINE n == Len(extensions)
<1>1. /\ pc = "extensions" /\ n < 5
      /\ extensions' = Append(extensions, ExtensionSteps[n + 1])
      /\ pc' = IF Len(extensions') = 5 THEN "mint" ELSE pc
      /\ UNCHANGED <<deployer, params, account, mintAuthority, metadata,
                     configuration, metaList, admins>>
  BY FiveExtensions DEF InitializeExtension
<1>2. /\ extensions \in Seq(ExtensionStep) /\ n \in Nat
      /\ \A i \in 1..n : extensions[i] = ExtensionSteps[i]
  BY DEF DeployInv, Progress
<1>3. ExtensionSteps[n + 1] \in ExtensionStep
  <2>1. n + 1 \in 1..5
    BY <1>1, <1>2
  <2> QED
    BY <2>1, FiveExtensions
<1>4. /\ extensions' \in Seq(ExtensionStep) /\ Len(extensions') = n + 1
      /\ \A i \in 1..n : extensions'[i] = extensions[i]
      /\ extensions'[n + 1] = ExtensionSteps[n + 1]
  BY <1>1, <1>2, <1>3, AppendProperties
<1> HIDE DEF n
<1>5. \A i \in 1..Len(extensions') : extensions'[i] = ExtensionSteps[i]
  <2>1. ASSUME NEW i \in 1..(n + 1) PROVE i \in 1..n \/ i = n + 1
    BY <1>2
  <2> QED
    BY <1>2, <1>4, <2>1
<1>6. (pc' = "mint" /\ Len(extensions') = 5)
        \/ (pc' = "extensions" /\ Len(extensions') < 5)
  BY <1>1, <1>2, <1>4
<1> QED
  BY <1>1, <1>4, <1>5, <1>6 DEF DeployInv, Progress

\* The other steps do not touch the extensions.
LEMMA OtherProgress ==
  ASSUME DeployInv,
         \/ UNCHANGED deployVars \/ CreateMintAccount \/ InitializeMint
         \/ InitializeTokenMetadata \/ WriteAdditionalMetadata
         \/ TransferUpdateAuthority \/ TransferMintAuthority
         \/ RecordConfiguration \/ InitializeExtraAccountMetaList \/ GrantAdmin
  PROVE  Progress'
<1>0. Progress
  BY DEF DeployInv
<1>1. /\ metadata \in [authority : {None, Temp, "metadata_update_authority"},
                       core : Nat, extra : Extras]
      /\ params \in [core : TextSize, extra : Seq(Fields), class : Class]
  BY DEF DeployInv, FundingInv, DeployTyped
<1>2. CASE UNCHANGED deployVars
  BY <1>0, <1>2 DEF Progress, deployVars
<1>3. CASE CreateMintAccount
  BY <1>0, <1>3 DEF Progress, CreateMintAccount
<1>4. CASE InitializeMint
  BY <1>0, <1>4 DEF Progress, InitializeMint
<1>5. CASE InitializeTokenMetadata
  BY <1>0, <1>5 DEF Progress, InitializeTokenMetadata
<1>6. CASE WriteAdditionalMetadata
  <2>1. metadata'.authority = metadata.authority /\ params'.class = params.class
    BY <1>1, <1>6 DEF WriteAdditionalMetadata
  <2>2. /\ pc = "fields" /\ pc' = pc
        /\ UNCHANGED <<deployer, extensions, mintAuthority, configuration,
                       metaList, admins>>
    BY <1>6 DEF WriteAdditionalMetadata
  <2> QED
    BY <1>0, <2>1, <2>2 DEF Progress
<1>7. CASE TransferUpdateAuthority
  <2>1. metadata'.authority = "metadata_update_authority"
    BY <1>1, <1>7 DEF TransferUpdateAuthority
  <2> QED
    BY <1>0, <1>7, <2>1 DEF Progress, TransferUpdateAuthority
<1>8. CASE TransferMintAuthority
  BY <1>0, <1>8 DEF Progress, TransferMintAuthority
<1>9. CASE RecordConfiguration
  BY <1>0, <1>9 DEF Progress, RecordConfiguration
<1>10. CASE InitializeExtraAccountMetaList
  BY <1>0, <1>10 DEF Progress, InitializeExtraAccountMetaList
<1>11. CASE GrantAdmin
  BY <1>0, <1>11 DEF Progress, GrantAdmin
<1> QED
  BY <1>2, <1>3, <1>4, <1>5, <1>6, <1>7, <1>8, <1>9, <1>10, <1>11

\* Every step of deploy_mint prepares the next.
LEMMA DeployInvStep == DeployInv /\ [DeployNext]_deployVars => DeployInv'
<1> SUFFICES ASSUME DeployInv, [DeployNext]_deployVars PROVE DeployInv'
  OBVIOUS
<1>1. FundingInv'
  BY FundingStep DEF DeployInv
<1>2. Progress'
  BY ExtensionProgress, OtherProgress DEF DeployNext
<1> QED
  BY <1>1, <1>2 DEF DeployInv

\* None of the steps of deploy_mint finds what it needs missing, and a mint
\* that is deployed is governed by its programs alone.
THEOREM DeploymentsAreNotRefused == HookSpec => []StepsArePrepared
<1>1. HookInit => DeployInv
  BY FundingInit, ProgressInit DEF HookInit, DeployInv
<1>2. DeployInv /\ [HookNext]_<<deployVars, hookVars>> => DeployInv'
  BY DeployInvStep, HookStep
<1>3. DeployInv => StepsArePrepared
  <2> SUFFICES ASSUME DeployInv PROVE StepsArePrepared
    OBVIOUS
  <2>0. Progress
    BY DEF DeployInv
  <2>1. pc = "extensions" =>
          mintAuthority = None /\ Len(extensions) < Len(ExtensionSteps)
    BY <2>0, FiveExtensions DEF Progress
  <2>2. pc \notin {"create", "extensions"} =>
          /\ {x.ext : x \in ToSet(extensions)} = SizedFor
          /\ Temp \notin {x.authority : x \in ToSet(extensions)}
    BY <2>0, AllExtensions DEF Progress
  <2>3. pc = "mint" =>
          account.len = ExtensionSize
                          * Cardinality({x.ext : x \in ToSet(extensions)})
    BY <2>2 DEF DeployInv, FundingInv, Funding, BaseSize
  <2>4. /\ pc \in {"metadata", "mint_authority"} => mintAuthority = Temp
        /\ pc = "fields" => metadata.authority = Temp
        /\ pc = "meta_list" => ~metaList
    BY <2>0 DEF Progress
  <2>5. pc = "done" => GovernedByItsPrograms
    BY <2>0, <2>2 DEF Progress, GovernedByItsPrograms
  <2> QED
    BY <2>1, <2>3, <2>4, <2>5 DEF StepsArePrepared
<1> QED
  BY <1>1, <1>2, <1>3, PTL DEF HookSpec

-----------------------------------------------------------------------------
(***************************************************************************)
(* How the table of recipes is followed.                                   *)
(***************************************************************************)

\* A function on 1..n is a sequence of length n.
LEMMA SeqOfLen ==
  ASSUME NEW S, NEW n \in Nat, NEW q \in [1..n -> S]
  PROVE  q \in Seq(S) /\ Len(q) = n
<1>1. q \in Seq(S)
  OBVIOUS
<1>2. DOMAIN q = 1..n /\ DOMAIN q = 1..Len(q) /\ Len(q) \in Nat
  BY <1>1
<1> QED
  BY <1>1, <1>2

\* One sequence, flattened.
LEMMA FlattenOne ==
  ASSUME NEW S, NEW q \in [1..1 -> S]
  PROVE  FlattenSeq(q) = q[1]
<1> DEFINE F(g) == [i \in 1..Len(q) |-> IF i = 1 THEN q[i] ELSE g[i-1] \o q[i]]
           flat == CHOOSE g : g = F(g)
           w == [i \in 1..1 |-> q[1]]
           n == 1
<1>1. Len(q) = 1
  <2>1. n \in Nat /\ q \in [1..n -> S]
    OBVIOUS
  <2>2. Len(q) = n
    <3> HIDE DEF n
    <3> QED
      BY <2>1, SeqOfLen
  <2> QED
    BY <2>2
<1>2. FlattenSeq(q) = flat[1]
  BY <1>1 DEF FlattenSeq
<1>3. w = F(w)
  BY <1>1
<1>4. flat = F(flat)
  <2> HIDE DEF F, w
  <2> QED
    BY <1>3
<1>5. flat[1] = q[1]
  <2> HIDE DEF flat
  <2>1. F(flat)[1] = q[1]
    BY <1>1, SMTT(60)
  <2> HIDE DEF F
  <2> QED
    BY <1>4, <2>1
<1> QED
  BY <1>2, <1>5

\* Two sequences, flattened.
LEMMA FlattenTwo ==
  ASSUME NEW S, NEW q \in [1..2 -> Seq(S)]
  PROVE  FlattenSeq(q) = q[1] \o q[2]
<1> DEFINE F(g) == [i \in 1..Len(q) |-> IF i = 1 THEN q[i] ELSE g[i-1] \o q[i]]
           flat == CHOOSE g : g = F(g)
           w == [i \in 1..2 |-> IF i = 1 THEN q[1] ELSE q[1] \o q[2]]
           n == 2
<1>1. Len(q) = 2
  <2>1. n \in Nat /\ q \in [1..n -> Seq(S)]
    OBVIOUS
  <2>2. Len(q) = n
    <3> HIDE DEF n
    <3> QED
      BY <2>1, SeqOfLen
  <2> QED
    BY <2>2
<1>2. FlattenSeq(q) = flat[2]
  BY <1>1 DEF FlattenSeq
<1>3. w = F(w)
  BY <1>1
<1>4. flat = F(flat)
  <2> HIDE DEF F, w
  <2> QED
    BY <1>3
<1>5. flat[1] = q[1] /\ flat[2] = flat[1] \o q[2]
  <2> HIDE DEF flat
  <2>1. F(flat)[1] = q[1] /\ F(flat)[2] = flat[1] \o q[2]
    BY <1>1
  <2> HIDE DEF F
  <2> QED
    BY <1>4, <2>1
<1> QED
  BY <1>2, <1>5, ZenonT(60)

\* A program and a literal.
LEMMA TwoNames ==
  ASSUME NEW x, NEW y
  PROVE  <<x>> \o <<y>> = <<x, y>>
<1> DEFINE S == {x, y}
           a == <<x>>
           b == <<y>>
           u == a \o b
           v == <<x, y>>
<1>1. a \in Seq(S) /\ Len(a) = 1 /\ a[1] = x
  OBVIOUS
<1>2. b \in Seq(S) /\ Len(b) = 1 /\ b[1] = y
  OBVIOUS
<1>3. v \in Seq(S) /\ Len(v) = 2 /\ v[1] = x /\ v[2] = y
  OBVIOUS
<1> HIDE DEF a, b, v, S
<1>4. /\ u \in Seq(S) /\ Len(u) = Len(a) + Len(b)
      /\ \A i \in 1..(Len(a) + Len(b)) :
           u[i] = IF i <= Len(a) THEN a[i] ELSE b[i - Len(a)]
  BY <1>1, <1>2, ConcatProperties
<1> HIDE DEF u
<1>5. Len(u) = 2 /\ u[1] = x /\ u[2] = y
  BY <1>1, <1>2, <1>4
<1>6. \A i \in 1..Len(u) : u[i] = v[i]
  <2>1. ASSUME NEW i \in 1..2 PROVE i = 1 \/ i = 2
    OBVIOUS
  <2> QED
    BY <1>3, <1>5, <2>1
<1> QED
  BY <1>3, <1>4, <1>5, <1>6, SeqEqual DEF a, b, u, v

\* The address of a PDA with one key, and with two, for a seed.
PdaOf(x, literal, a) == <<x, literal>> \o a
PdaOfBoth(x, literal, a, b) == <<x, literal>> \o a \o b

\* A recipe that is a program.
LEMMA ResolvedProgram ==
  ASSUME NEW id
  PROVE  References(Program(id)) = {} /\ Resolved(Program(id)) = <<id>>
BY DEF References, Resolved, Program

\* A recipe for a PDA of the mint.
LEMMA ResolvedOfMint ==
  ASSUME NEW p \in Nat, NEW x, NEW literal, accounts[p + 1] = <<x>>,
         NEW m, accounts[2] = m
  PROVE  /\ References(Pda(p, literal, <<1>>)) = {p, 1}
         /\ Resolved(Pda(p, literal, <<1>>)) = PdaOf(x, literal, m)
<1> DEFINE meta == Pda(p, literal, <<1>>)
           q == [j \in DOMAIN meta.seeds |-> accounts[meta.seeds[j] + 1]]
           S == {m}
<1>1. /\ meta.kind = "pda" /\ meta.program = p /\ meta.literal = literal
      /\ meta.seeds = <<1>>
  BY DEF Pda
<1>2. DOMAIN meta.seeds = 1..1 /\ meta.seeds[1] = 1
  BY <1>1
<1>3. References(meta) = {p, 1}
  <2>1. ToSet(meta.seeds) = {1}
    BY <1>2 DEF ToSet
  <2> HIDE DEF meta
  <2> QED
    BY <1>1, <2>1 DEF References
<1>4. q \in [1..1 -> S] /\ q[1] = m
  <2> HIDE DEF meta
  <2>1. DOMAIN q = 1..1
    BY <1>2
  <2>2. ASSUME NEW j \in 1..1 PROVE q[j] = m
    BY <1>2
  <2> QED
    BY <2>1, <2>2
<1>5. Resolved(meta) = <<x>> \o <<literal>> \o FlattenSeq(q)
  <2> HIDE DEF meta
  <2> QED
    BY <1>1 DEF Resolved
<1> HIDE DEF q, S, meta
<1>6. FlattenSeq(q) = m
  BY <1>4, FlattenOne
<1>7. <<x>> \o <<literal>> = <<x, literal>>
  BY TwoNames
<1> QED
  BY <1>3, <1>5, <1>6, <1>7 DEF meta, PdaOf

\* A recipe for a PDA of the mint and a token account.
LEMMA ResolvedOfTwo ==
  ASSUME NEW p \in Nat, NEW s \in Nat, NEW x, NEW literal,
         accounts[p + 1] = <<x>>,
         NEW m \in Seq(STRING), accounts[2] = m,
         NEW a \in Seq(STRING), accounts[s + 1] = a
  PROVE  /\ References(Pda(p, literal, <<1, s>>)) = {p, 1, s}
         /\ Resolved(Pda(p, literal, <<1, s>>)) = PdaOfBoth(x, literal, m, a)
<1> DEFINE meta == Pda(p, literal, <<1, s>>)
           q == [j \in DOMAIN meta.seeds |-> accounts[meta.seeds[j] + 1]]
<1>1. /\ meta.kind = "pda" /\ meta.program = p /\ meta.literal = literal
      /\ meta.seeds = <<1, s>>
  BY DEF Pda
<1>2. DOMAIN meta.seeds = 1..2 /\ meta.seeds[1] = 1 /\ meta.seeds[2] = s
  <2>1. DOMAIN <<1, s>> = 1..2 /\ <<1, s>>[1] = 1 /\ <<1, s>>[2] = s
    OBVIOUS
  <2> HIDE DEF meta
  <2> QED
    BY <1>1, <2>1
<1>3. References(meta) = {p, 1, s}
  <2>1. ToSet(meta.seeds) = {1, s}
    <3>1. \A j \in 1..2 : j = 1 \/ j = 2
      OBVIOUS
    <3> HIDE DEF meta
    <3> QED
      BY <1>2, <3>1 DEF ToSet
  <2> HIDE DEF meta
  <2> QED
    BY <1>1, <2>1 DEF References
<1>4. q \in [1..2 -> Seq(STRING)] /\ q[1] = m /\ q[2] = a
  <2> HIDE DEF meta
  <2>1. DOMAIN q = 1..2 /\ q[1] = m /\ q[2] = a
    BY <1>2
  <2>2. ASSUME NEW j \in 1..2 PROVE q[j] \in Seq(STRING)
    <3>1. j = 1 \/ j = 2
      OBVIOUS
    <3> HIDE DEF q
    <3> QED
      BY <2>1, <3>1
  <2> QED
    BY <2>1, <2>2
<1>5. Resolved(meta) = <<x>> \o <<literal>> \o FlattenSeq(q)
  <2> HIDE DEF meta
  <2> QED
    BY <1>1 DEF Resolved
<1> HIDE DEF q, meta
<1>6. FlattenSeq(q) = m \o a
  BY <1>4, FlattenTwo
<1>7. (<<x>> \o <<literal>>) \o (m \o a) = (<<x, literal>> \o m) \o a
  <2> DEFINE h == <<x, literal>>
             S == STRING \cup {x, literal}
  <2>1. <<x>> \o <<literal>> = h
    BY TwoNames
  <2>2. h \in Seq(S) /\ m \in Seq(S) /\ a \in Seq(S)
    OBVIOUS
  <2> HIDE DEF h, S
  <2>3. h \o (m \o a) = (h \o m) \o a
    BY <2>2, SMTT(60)
  <2> QED
    BY <2>1, <2>3 DEF h
<1> QED
  BY <1>3, <1>5, <1>6, <1>7 DEF meta, PdaOfBoth

\* The two offsets, and the words found there.
Offsets == <<ASSET_CLASS_CONFIG_ID_OFFSET, ASSET_CLASS_VERSION_ID_OFFSET>>

\* The words at the two offsets of an AssetConfiguration are its two ids.
LEMMA ConfigurationWords ==
  ASSUME configuration \in Seq(STRING), Len(configuration) = 2,
         NEW d, d = <<"discriminator">> \o configuration
  PROVE  [j \in DOMAIN Offsets |-> Word(d, Offsets[j])] = configuration
<1> DEFINE c == configuration
           w == [j \in DOMAIN Offsets |-> Word(d, Offsets[j])]
<1>1. DOMAIN Offsets = 1..2 /\ Offsets[1] = 1 /\ Offsets[2] = 2
  BY DEF Offsets, ASSET_CLASS_CONFIG_ID_OFFSET, ASSET_CLASS_VERSION_ID_OFFSET
<1>2. /\ Len(d) = 3 /\ d[2] = c[1] /\ d[3] = c[2]
  <2> DEFINE x == "discriminator"
             S == STRING \cup {x}
             h == <<x>>
  <2>1. h \in Seq(S) /\ Len(h) = 1 /\ c \in Seq(S)
    <3>1. x \in S
      OBVIOUS
    <3>2. c \in Seq(S)
      OBVIOUS
    <3> HIDE DEF x, S
    <3> QED
      BY <3>1, <3>2
  <2> HIDE DEF h, S
  <2>2. /\ Len(h \o c) = Len(h) + Len(c)
        /\ \A i \in 1..(Len(h) + Len(c)) :
             (h \o c)[i] = IF i <= Len(h) THEN h[i] ELSE c[i - Len(h)]
    BY <2>1, ConcatProperties
  <2>3. d = h \o c
    BY DEF h
  <2> QED
    BY <2>1, <2>2, <2>3
<1>3. Word(d, 1) = c[1] /\ Word(d, 2) = c[2]
  BY <1>2 DEF Word
<1>4. DOMAIN w = 1..2 /\ w[1] = c[1] /\ w[2] = c[2]
  <2>1. DOMAIN w = 1..2
    BY <1>1
  <2>2. w[1] = Word(d, Offsets[1]) /\ w[2] = Word(d, Offsets[2])
    BY <1>1
  <2> QED
    BY <1>1, <1>3, <2>1, <2>2
<1>5. DOMAIN c = 1..2 /\ c = [j \in 1..2 |-> c[j]]
  OBVIOUS
<1>6. w = [j \in 1..2 |-> w[j]]
  BY <1>4
<1> HIDE DEF w, c
<1>7. ASSUME NEW j \in 1..2 PROVE w[j] = c[j]
  <2>1. j = 1 \/ j = 2
    OBVIOUS
  <2> QED
    BY <1>4, <2>1
<1>8. w = c
  BY <1>5, <1>6, <1>7
<1> QED
  BY <1>8 DEF w, c

\* A recipe for the PDA of an asset class version.
LEMMA ResolvedOfData ==
  ASSUME NEW p \in Nat, NEW i \in Nat, NEW x, NEW literal,
         accounts[p + 1] = <<x>>,
         accounts[i + 1] = PdaOf("deploy", "asset_configuration", transfer.mint),
         configuration \in Seq(STRING), Len(configuration) = 2
  PROVE  /\ References(PdaOfData(p, literal, i, Offsets)) = {p, i}
         /\ Resolved(PdaOfData(p, literal, i, Offsets))
              = PdaOf(x, literal, configuration)
<1> DEFINE meta == PdaOfData(p, literal, i, Offsets)
           d == DataOf(accounts[i + 1])
<1>1. /\ meta.kind = "data" /\ meta.program = p /\ meta.literal = literal
      /\ meta.seeds = <<i>> /\ meta.offsets = Offsets
  BY DEF PdaOfData
<1>2. ToSet(meta.seeds) = {i} /\ meta.seeds[1] = i
  BY <1>1 DEF ToSet
<1> HIDE DEF meta
<1>3. References(meta) = {p, i}
  BY <1>1, <1>2 DEF References
<1>4. d = <<"discriminator">> \o configuration
  BY DEF DataOf, PdaOf
<1>5. [j \in DOMAIN Offsets |-> Word(d, Offsets[j])] = configuration
  <2> HIDE DEF d
  <2> QED
    BY <1>4, ConfigurationWords
<1>6. Resolved(meta) = <<x>> \o <<literal>>
                         \o [j \in DOMAIN Offsets |-> Word(d, Offsets[j])]
  <2> HIDE DEF Offsets
  <2> QED
    BY <1>1, <1>2 DEF Resolved
<1>7. Resolved(meta) = <<x>> \o <<literal>> \o configuration
  <2> HIDE DEF d
  <2> QED
    BY <1>5, <1>6
<1> QED
  BY <1>3, <1>7, TwoNames DEF meta, PdaOf

\* The table, row by row.
LEMMA MetaTable ==
  /\ Metas[1] = Program("deploy")
  /\ Metas[2] = Pda(5, "asset_configuration", <<1>>)
  /\ Metas[3] = Program("factory")
  /\ Metas[4] = PdaOfData(7, "asset_class_version", 6, Offsets)
  /\ Metas[5] = Program("deactivate")
  /\ Metas[6] = Pda(9, "deactivate", <<1>>)
  /\ Metas[7] = Program("transfer_control")
  /\ Metas[8] = Pda(11, "transfer_control_mode", <<1>>)
  /\ Metas[9] = Pda(11, "control_list", <<1, 0>>)
  /\ Metas[10] = Pda(11, "control_list", <<1, 2>>)
  /\ Metas[11] = Program("freeze")
  /\ Metas[12] = Pda(15, "freeze_state", <<1, 0>>)
  /\ Metas[13] = Program("hold")
  /\ Metas[14] = Pda(17, "hold_position", <<1, 0>>)
BY DEF Metas, DestinationListMeta, Offsets

\* What Execute expects, account by account.
LEMMA ExecuteTable ==
  ASSUME NEW t, NEW c
  PROVE  /\ ExecuteAccounts(t, c)[1] = t.source
         /\ ExecuteAccounts(t, c)[2] = t.mint
         /\ ExecuteAccounts(t, c)[3] = t.destination
         /\ ExecuteAccounts(t, c)[6] =
              <<"deploy">>
         /\ ExecuteAccounts(t, c)[7] =
              PdaOf("deploy", "asset_configuration", t.mint)
         /\ ExecuteAccounts(t, c)[8] =
              <<"factory">>
         /\ ExecuteAccounts(t, c)[9] =
              PdaOf("factory", "asset_class_version", c)
         /\ ExecuteAccounts(t, c)[10] =
              <<"deactivate">>
         /\ ExecuteAccounts(t, c)[11] =
              PdaOf("deactivate", "deactivate", t.mint)
         /\ ExecuteAccounts(t, c)[12] =
              <<"transfer_control">>
         /\ ExecuteAccounts(t, c)[13] =
              PdaOf("transfer_control", "transfer_control_mode", t.mint)
         /\ ExecuteAccounts(t, c)[14] =
              PdaOfBoth("transfer_control", "control_list", t.mint, t.source)
         /\ ExecuteAccounts(t, c)[15] =
              PdaOfBoth("transfer_control", "control_list", t.mint, t.destination)
         /\ ExecuteAccounts(t, c)[16] =
              <<"freeze">>
         /\ ExecuteAccounts(t, c)[17] =
              PdaOfBoth("freeze", "freeze_state", t.mint, t.source)
         /\ ExecuteAccounts(t, c)[18] =
              <<"hold">>
         /\ ExecuteAccounts(t, c)[19] =
              PdaOfBoth("hold", "hold_position", t.mint, t.source)
         /\ Len(ExecuteAccounts(t, c)) = 19
BY DEF ExecuteAccounts, PdaOf, PdaOfBoth

\* What batch_transfer forwards, if the caller passes the control list of the
\* destination.
LEMMA OrderedTable ==
  ASSUME NEW t, NEW c
  PROVE  /\ <<"deploy">>
              \in Ordered(t, c, t.destination)
         /\ PdaOf("deploy", "asset_configuration", t.mint)
              \in Ordered(t, c, t.destination)
         /\ <<"factory">>
              \in Ordered(t, c, t.destination)
         /\ PdaOf("factory", "asset_class_version", c)
              \in Ordered(t, c, t.destination)
         /\ <<"deactivate">>
              \in Ordered(t, c, t.destination)
         /\ PdaOf("deactivate", "deactivate", t.mint)
              \in Ordered(t, c, t.destination)
         /\ <<"transfer_control">>
              \in Ordered(t, c, t.destination)
         /\ PdaOf("transfer_control", "transfer_control_mode", t.mint)
              \in Ordered(t, c, t.destination)
         /\ PdaOfBoth("transfer_control", "control_list", t.mint, t.source)
              \in Ordered(t, c, t.destination)
         /\ PdaOfBoth("transfer_control", "control_list", t.mint, t.destination)
              \in Ordered(t, c, t.destination)
         /\ <<"freeze">>
              \in Ordered(t, c, t.destination)
         /\ PdaOfBoth("freeze", "freeze_state", t.mint, t.source)
              \in Ordered(t, c, t.destination)
         /\ <<"hold">>
              \in Ordered(t, c, t.destination)
         /\ PdaOfBoth("hold", "hold_position", t.mint, t.source)
              \in Ordered(t, c, t.destination)
BY DEF Ordered, PdaOf, PdaOfBoth

\* What Execute is to be given.
Expected == ExecuteAccounts(transfer, configuration)

\* The next recipe can be followed, and leads to what is forwarded and to what
\* Execute expects at that place.
RecipeRight(n) ==
    /\ \A i \in References(Metas[n - 4]) : i < n
    /\ Resolved(Metas[n - 4]) = Expected[n + 1]
    /\ Resolved(Metas[n - 4])
         \in Ordered(transfer, configuration, transfer.destination)

\* Each of the fourteen recipes is right once those before it have been.
LEMMA RecipesAreRight ==
  ASSUME transfer \in Transfers, configuration \in Class, NEW n \in 5..18,
         \A i \in 1..n : accounts[i] = Expected[i]
  PROVE  RecipeRight(n)
<1> DEFINE t == transfer
<1>0. \A i \in 1..n : accounts[i] = ExecuteAccounts(t, configuration)[i]
  BY DEF Expected
<1>1. t.mint \in Seq(STRING) /\ t.source \in Seq(STRING)
      /\ t.destination \in Seq(STRING)
  BY HookMetasAssumption DEF Transfers
<1>2. accounts[2] = t.mint /\ accounts[1] = t.source /\ accounts[3] = t.destination
  <2>1. 1 \in 1..n /\ 2 \in 1..n /\ 3 \in 1..n
    OBVIOUS
  <2> QED
    BY <1>0, <2>1, ExecuteTable
<1>3. CASE n = 5
  <2>1. Metas[n - 4] = Program("deploy")
    <3>1. n - 4 = 1
      BY <1>3
    <3> QED
      BY <3>1, MetaTable
  <2>2. /\ Expected[n + 1] = <<"deploy">>
        /\ Expected[n + 1] \in Ordered(t, configuration, t.destination)
    <3>1. n + 1 = 6
      BY <1>3
    <3> QED
      BY <3>1, ExecuteTable, OrderedTable DEF Expected
  <2>3. /\ References(Program("deploy")) = {}
        /\ Resolved(Program("deploy")) = <<"deploy">>
    BY ResolvedProgram
  <2> QED
    BY <1>3, <2>1, <2>2, <2>3 DEF RecipeRight
<1>4. CASE n = 6
  <2>1. Metas[n - 4] = Pda(5, "asset_configuration", <<1>>)
    <3>1. n - 4 = 2
      BY <1>4
    <3> QED
      BY <3>1, MetaTable
  <2>2. /\ Expected[n + 1] = PdaOf("deploy", "asset_configuration", t.mint)
        /\ Expected[n + 1] \in Ordered(t, configuration, t.destination)
    <3>1. n + 1 = 7
      BY <1>4
    <3> QED
      BY <3>1, ExecuteTable, OrderedTable DEF Expected
  <2>4. accounts[5 + 1] = <<"deploy">>
    <3>1. 6 \in 1..n /\ 5 + 1 = 6
      BY <1>4
    <3> QED
      BY <1>0, <3>1, ExecuteTable
  <2>3. /\ References(Pda(5, "asset_configuration", <<1>>)) = {5, 1}
        /\ Resolved(Pda(5, "asset_configuration", <<1>>)) =
             PdaOf("deploy", "asset_configuration", t.mint)
    BY <1>1, <1>2, <2>4, ResolvedOfMint
  <2> QED
    BY <1>4, <2>1, <2>2, <2>3 DEF RecipeRight
<1>5. CASE n = 7
  <2>1. Metas[n - 4] = Program("factory")
    <3>1. n - 4 = 3
      BY <1>5
    <3> QED
      BY <3>1, MetaTable
  <2>2. /\ Expected[n + 1] = <<"factory">>
        /\ Expected[n + 1] \in Ordered(t, configuration, t.destination)
    <3>1. n + 1 = 8
      BY <1>5
    <3> QED
      BY <3>1, ExecuteTable, OrderedTable DEF Expected
  <2>3. /\ References(Program("factory")) = {}
        /\ Resolved(Program("factory")) = <<"factory">>
    BY ResolvedProgram
  <2> QED
    BY <1>5, <2>1, <2>2, <2>3 DEF RecipeRight
<1>6. CASE n = 8
  <2>1. Metas[n - 4] = PdaOfData(7, "asset_class_version", 6, Offsets)
    <3>1. n - 4 = 4
      BY <1>6
    <3> QED
      BY <3>1, MetaTable
  <2>2. /\ Expected[n + 1] = PdaOf("factory", "asset_class_version", configuration)
        /\ Expected[n + 1] \in Ordered(t, configuration, t.destination)
    <3>1. n + 1 = 9
      BY <1>6
    <3> QED
      BY <3>1, ExecuteTable, OrderedTable DEF Expected
  <2>4. accounts[7 + 1] = <<"factory">>
    <3>1. 8 \in 1..n /\ 7 + 1 = 8
      BY <1>6
    <3> QED
      BY <1>0, <3>1, ExecuteTable
  <2>5. accounts[6 + 1] = PdaOf("deploy", "asset_configuration", t.mint)
    <3>1. 7 \in 1..n /\ 6 + 1 = 7
      BY <1>6
    <3> QED
      BY <1>0, <3>1, ExecuteTable
  <2>6. configuration \in Seq(STRING) /\ Len(configuration) = 2
    BY HookMetasAssumption
  <2>3. /\ References(PdaOfData(7, "asset_class_version", 6, Offsets)) = {7, 6}
        /\ Resolved(PdaOfData(7, "asset_class_version", 6, Offsets)) =
             PdaOf("factory", "asset_class_version", configuration)
    BY <2>4, <2>5, <2>6, ResolvedOfData
  <2> QED
    BY <1>6, <2>1, <2>2, <2>3 DEF RecipeRight
<1>7. CASE n = 9
  <2>1. Metas[n - 4] = Program("deactivate")
    <3>1. n - 4 = 5
      BY <1>7
    <3> QED
      BY <3>1, MetaTable
  <2>2. /\ Expected[n + 1] = <<"deactivate">>
        /\ Expected[n + 1] \in Ordered(t, configuration, t.destination)
    <3>1. n + 1 = 10
      BY <1>7
    <3> QED
      BY <3>1, ExecuteTable, OrderedTable DEF Expected
  <2>3. /\ References(Program("deactivate")) = {}
        /\ Resolved(Program("deactivate")) = <<"deactivate">>
    BY ResolvedProgram
  <2> QED
    BY <1>7, <2>1, <2>2, <2>3 DEF RecipeRight
<1>8. CASE n = 10
  <2>1. Metas[n - 4] = Pda(9, "deactivate", <<1>>)
    <3>1. n - 4 = 6
      BY <1>8
    <3> QED
      BY <3>1, MetaTable
  <2>2. /\ Expected[n + 1] = PdaOf("deactivate", "deactivate", t.mint)
        /\ Expected[n + 1] \in Ordered(t, configuration, t.destination)
    <3>1. n + 1 = 11
      BY <1>8
    <3> QED
      BY <3>1, ExecuteTable, OrderedTable DEF Expected
  <2>4. accounts[9 + 1] = <<"deactivate">>
    <3>1. 10 \in 1..n /\ 9 + 1 = 10
      BY <1>8
    <3> QED
      BY <1>0, <3>1, ExecuteTable
  <2>3. /\ References(Pda(9, "deactivate", <<1>>)) = {9, 1}
        /\ Resolved(Pda(9, "deactivate", <<1>>)) =
             PdaOf("deactivate", "deactivate", t.mint)
    BY <1>1, <1>2, <2>4, ResolvedOfMint
  <2> QED
    BY <1>8, <2>1, <2>2, <2>3 DEF RecipeRight
<1>9. CASE n = 11
  <2>1. Metas[n - 4] = Program("transfer_control")
    <3>1. n - 4 = 7
      BY <1>9
    <3> QED
      BY <3>1, MetaTable
  <2>2. /\ Expected[n + 1] = <<"transfer_control">>
        /\ Expected[n + 1] \in Ordered(t, configuration, t.destination)
    <3>1. n + 1 = 12
      BY <1>9
    <3> QED
      BY <3>1, ExecuteTable, OrderedTable DEF Expected
  <2>3. /\ References(Program("transfer_control")) = {}
        /\ Resolved(Program("transfer_control")) = <<"transfer_control">>
    BY ResolvedProgram
  <2> QED
    BY <1>9, <2>1, <2>2, <2>3 DEF RecipeRight
<1>10. CASE n = 12
  <2>1. Metas[n - 4] = Pda(11, "transfer_control_mode", <<1>>)
    <3>1. n - 4 = 8
      BY <1>10
    <3> QED
      BY <3>1, MetaTable
  <2>2. /\ Expected[n + 1] = PdaOf("transfer_control", "transfer_control_mode", t.mint)
        /\ Expected[n + 1] \in Ordered(t, configuration, t.destination)
    <3>1. n + 1 = 13
      BY <1>10
    <3> QED
      BY <3>1, ExecuteTable, OrderedTable DEF Expected
  <2>4. accounts[11 + 1] = <<"transfer_control">>
    <3>1. 12 \in 1..n /\ 11 + 1 = 12
      BY <1>10
    <3> QED
      BY <1>0, <3>1, ExecuteTable
  <2>3. /\ References(Pda(11, "transfer_control_mode", <<1>>)) = {11, 1}
        /\ Resolved(Pda(11, "transfer_control_mode", <<1>>)) =
             PdaOf("transfer_control", "transfer_control_mode", t.mint)
    BY <1>1, <1>2, <2>4, ResolvedOfMint
  <2> QED
    BY <1>10, <2>1, <2>2, <2>3 DEF RecipeRight
<1>11. CASE n = 13
  <2>1. Metas[n - 4] = Pda(11, "control_list", <<1, 0>>)
    <3>1. n - 4 = 9
      BY <1>11
    <3> QED
      BY <3>1, MetaTable
  <2>2. /\ Expected[n + 1] = PdaOfBoth("transfer_control", "control_list", t.mint, t.source)
        /\ Expected[n + 1] \in Ordered(t, configuration, t.destination)
    <3>1. n + 1 = 14
      BY <1>11
    <3> QED
      BY <3>1, ExecuteTable, OrderedTable DEF Expected
  <2>4. accounts[11 + 1] = <<"transfer_control">>
    <3>1. 12 \in 1..n /\ 11 + 1 = 12
      BY <1>11
    <3> QED
      BY <1>0, <3>1, ExecuteTable
  <2>5. accounts[0 + 1] = t.source
    BY <1>2
  <2>3. /\ References(Pda(11, "control_list", <<1, 0>>)) = {11, 1, 0}
        /\ Resolved(Pda(11, "control_list", <<1, 0>>)) =
             PdaOfBoth("transfer_control", "control_list", t.mint, t.source)
    BY <1>1, <1>2, <2>4, <2>5, ResolvedOfTwo
  <2> QED
    BY <1>11, <2>1, <2>2, <2>3 DEF RecipeRight
<1>12. CASE n = 14
  <2>1. Metas[n - 4] = Pda(11, "control_list", <<1, 2>>)
    <3>1. n - 4 = 10
      BY <1>12
    <3> QED
      BY <3>1, MetaTable
  <2>2. /\ Expected[n + 1] = PdaOfBoth("transfer_control", "control_list", t.mint, t.destination)
        /\ Expected[n + 1] \in Ordered(t, configuration, t.destination)
    <3>1. n + 1 = 15
      BY <1>12
    <3> QED
      BY <3>1, ExecuteTable, OrderedTable DEF Expected
  <2>4. accounts[11 + 1] = <<"transfer_control">>
    <3>1. 12 \in 1..n /\ 11 + 1 = 12
      BY <1>12
    <3> QED
      BY <1>0, <3>1, ExecuteTable
  <2>5. accounts[2 + 1] = t.destination
    BY <1>2
  <2>3. /\ References(Pda(11, "control_list", <<1, 2>>)) = {11, 1, 2}
        /\ Resolved(Pda(11, "control_list", <<1, 2>>)) =
             PdaOfBoth("transfer_control", "control_list", t.mint, t.destination)
    BY <1>1, <1>2, <2>4, <2>5, ResolvedOfTwo
  <2> QED
    BY <1>12, <2>1, <2>2, <2>3 DEF RecipeRight
<1>13. CASE n = 15
  <2>1. Metas[n - 4] = Program("freeze")
    <3>1. n - 4 = 11
      BY <1>13
    <3> QED
      BY <3>1, MetaTable
  <2>2. /\ Expected[n + 1] = <<"freeze">>
        /\ Expected[n + 1] \in Ordered(t, configuration, t.destination)
    <3>1. n + 1 = 16
      BY <1>13
    <3> QED
      BY <3>1, ExecuteTable, OrderedTable DEF Expected
  <2>3. /\ References(Program("freeze")) = {}
        /\ Resolved(Program("freeze")) = <<"freeze">>
    BY ResolvedProgram
  <2> QED
    BY <1>13, <2>1, <2>2, <2>3 DEF RecipeRight
<1>14. CASE n = 16
  <2>1. Metas[n - 4] = Pda(15, "freeze_state", <<1, 0>>)
    <3>1. n - 4 = 12
      BY <1>14
    <3> QED
      BY <3>1, MetaTable
  <2>2. /\ Expected[n + 1] = PdaOfBoth("freeze", "freeze_state", t.mint, t.source)
        /\ Expected[n + 1] \in Ordered(t, configuration, t.destination)
    <3>1. n + 1 = 17
      BY <1>14
    <3> QED
      BY <3>1, ExecuteTable, OrderedTable DEF Expected
  <2>4. accounts[15 + 1] = <<"freeze">>
    <3>1. 16 \in 1..n /\ 15 + 1 = 16
      BY <1>14
    <3> QED
      BY <1>0, <3>1, ExecuteTable
  <2>5. accounts[0 + 1] = t.source
    BY <1>2
  <2>3. /\ References(Pda(15, "freeze_state", <<1, 0>>)) = {15, 1, 0}
        /\ Resolved(Pda(15, "freeze_state", <<1, 0>>)) =
             PdaOfBoth("freeze", "freeze_state", t.mint, t.source)
    BY <1>1, <1>2, <2>4, <2>5, ResolvedOfTwo
  <2> QED
    BY <1>14, <2>1, <2>2, <2>3 DEF RecipeRight
<1>15. CASE n = 17
  <2>1. Metas[n - 4] = Program("hold")
    <3>1. n - 4 = 13
      BY <1>15
    <3> QED
      BY <3>1, MetaTable
  <2>2. /\ Expected[n + 1] = <<"hold">>
        /\ Expected[n + 1] \in Ordered(t, configuration, t.destination)
    <3>1. n + 1 = 18
      BY <1>15
    <3> QED
      BY <3>1, ExecuteTable, OrderedTable DEF Expected
  <2>3. /\ References(Program("hold")) = {}
        /\ Resolved(Program("hold")) = <<"hold">>
    BY ResolvedProgram
  <2> QED
    BY <1>15, <2>1, <2>2, <2>3 DEF RecipeRight
<1>16. CASE n = 18
  <2>1. Metas[n - 4] = Pda(17, "hold_position", <<1, 0>>)
    <3>1. n - 4 = 14
      BY <1>16
    <3> QED
      BY <3>1, MetaTable
  <2>2. /\ Expected[n + 1] = PdaOfBoth("hold", "hold_position", t.mint, t.source)
        /\ Expected[n + 1] \in Ordered(t, configuration, t.destination)
    <3>1. n + 1 = 19
      BY <1>16
    <3> QED
      BY <3>1, ExecuteTable, OrderedTable DEF Expected
  <2>4. accounts[17 + 1] = <<"hold">>
    <3>1. 18 \in 1..n /\ 17 + 1 = 18
      BY <1>16
    <3> QED
      BY <1>0, <3>1, ExecuteTable
  <2>5. accounts[0 + 1] = t.source
    BY <1>2
  <2>3. /\ References(Pda(17, "hold_position", <<1, 0>>)) = {17, 1, 0}
        /\ Resolved(Pda(17, "hold_position", <<1, 0>>)) =
             PdaOfBoth("hold", "hold_position", t.mint, t.source)
    BY <1>1, <1>2, <2>4, <2>5, ResolvedOfTwo
  <2> QED
    BY <1>16, <2>1, <2>2, <2>3 DEF RecipeRight
<1> QED
  BY <1>3, <1>4, <1>5, <1>6, <1>7, <1>8, <1>9,
     <1>10, <1>11, <1>12, <1>13, <1>14, <1>15, <1>16

-----------------------------------------------------------------------------
(***************************************************************************)
(* Transfers.                                                              *)
(***************************************************************************)

\* The safety half of HonestTransfersReachTheHook: a transfer whose caller
\* forwards the control list of its destination is never refused on the way
\* to the hook's own checks, and the accounts gathered for it so far are the
\* ones Execute expects, in its order.
HonestTransfersAreServed ==
    status # "none" /\ list = transfer.destination =>
        /\ status # "refused"
        /\ Len(accounts) <= Len(Expected)
        /\ \A i \in 1..Len(accounts) : accounts[i] = Expected[i]

Places == {Expected[i] : i \in 1..19}

\* There is no transfer before the mint is deployed, and an honest one has
\* what it needs.
TransferInv ==
    /\ status # "none" =>
         pc = "done" /\ transfer \in Transfers /\ configuration \in Class
    /\ status # "none" /\ list = transfer.destination =>
         /\ status # "refused"
         /\ accounts \in Seq(Places)
         /\ Len(accounts) <= 19
         /\ status = "resolving" => Len(accounts) >= 5
         /\ \A i \in 1..Len(accounts) : accounts[i] = Expected[i]

\* Execute's accounts are a sequence.
LEMMA ExecuteSeq ==
  ASSUME NEW t, NEW c, NEW x, x = ExecuteAccounts(t, c)
  PROVE  x \in Seq({x[i] : i \in 1..19}) /\ Len(x) = 19
<1> DEFINE n == 19
           P == {x[i] : i \in 1..19}
<1>1. DOMAIN x = 1..19 /\ x = [i \in 1..19 |-> x[i]]
  BY DEF ExecuteAccounts
<1>2. n \in Nat /\ x \in [1..n -> P]
  BY <1>1
<1>3. x \in Seq(P) /\ Len(x) = n
  <2> HIDE DEF n, P
  <2> QED
    BY <1>2, SeqOfLen
<1> QED
  BY <1>3

\* A deployed mint is not deployed again.
LEMMA DoneIsDone == pc = "done" => ~DeployNext
BY DEF DeployNext, CreateMintAccount, InitializeExtension, InitializeMint,
       InitializeTokenMetadata, WriteAdditionalMetadata,
       TransferUpdateAuthority, TransferMintAuthority, RecordConfiguration,
       InitializeExtraAccountMetaList, GrantAdmin

\* A transfer starts with the five accounts of the call.
LEMMA TransferCheckedServed ==
  ASSUME TransferInv, DeployInv, TransferChecked, UNCHANGED deployVars
  PROVE  TransferInv'
<1>0. configuration \in Class
  BY DEF DeployInv, Progress, FundingInv, DeployTyped, TransferChecked
<1>1. /\ pc' = "done" /\ transfer' \in Transfers /\ status' = "resolving"
      /\ configuration' \in Class
      /\ accounts' = SubSeq(Expected', 1, 5)
  BY <1>0 DEF TransferChecked, deployVars, Expected
<1> DEFINE E == Expected'
<1>2. ASSUME NEW i \in 1..5 PROVE E[i] \in Places'
  <2>1. i \in 1..19
    OBVIOUS
  <2> QED
    BY <2>1 DEF Places
<1>3. \A i \in 1..5 : E[i] \in Places'
  BY <1>2
<1>4. /\ accounts' \in Seq(Places') /\ Len(accounts') = 5
      /\ \A i \in 1..5 : accounts'[i] = E[i]
  <2> HIDE DEF E
  <2>1. /\ SubSeq(E, 1, 5) \in Seq(Places')
        /\ Len(SubSeq(E, 1, 5)) = IF 1 <= 5 THEN 5 - 1 + 1 ELSE 0
        /\ \A i \in 1..(5 - 1 + 1) : SubSeq(E, 1, 5)[i] = E[1 + i - 1]
    BY <1>3, SubSeqProperties
  <2> DEFINE q == SubSeq(E, 1, 5)
  <2>2. accounts' = q
    BY <1>1 DEF E
  <2> HIDE DEF q
  <2>3. \A i \in 1..5 : 1 + i - 1 = i
    OBVIOUS
  <2> QED
    BY <2>1, <2>2, <2>3 DEF q
<1> HIDE DEF E
<1> QED
  BY <1>1, <1>4 DEF TransferInv, E

\* An honest transfer is not refused at any recipe, and the account it yields
\* is the next one Execute expects.
LEMMA ResolveNextServed ==
  ASSUME TransferInv, ResolveNext, UNCHANGED deployVars
  PROVE  TransferInv'
<1> DEFINE n == Len(accounts)
           meta == Metas[n - 4]
<1>1. /\ status = "resolving" /\ n < 19
      /\ UNCHANGED <<transfer, list, pc, configuration>>
  BY DEF ResolveNext, EXTRA_ACCOUNT_META_COUNT, deployVars
<1>2. pc = "done" /\ transfer \in Transfers /\ configuration \in Class
  BY <1>1 DEF TransferInv
<1>3. status' # "none"
  BY <1>1 DEF ResolveNext
<1>4. CASE list # transfer.destination
  BY <1>1, <1>2, <1>4 DEF TransferInv
<1>5. CASE list = transfer.destination
  <2>1. /\ accounts \in Seq(Places) /\ n \in Nat /\ n >= 5
        /\ \A i \in 1..n : accounts[i] = Expected[i]
    BY <1>1, <1>5 DEF TransferInv
  <2>2. n \in 5..18
    <3> HIDE DEF n
    <3> QED
      BY <1>1, <2>1, SMTT(60)
  <2>3. RecipeRight(n)
    <3> HIDE DEF n
    <3> QED
      BY <1>2, <2>1, <2>2, RecipesAreRight
  <2>4. /\ \A i \in References(meta) : i < n
        /\ Resolved(meta) = Expected[n + 1]
        /\ Resolved(meta) \in Ordered(transfer, configuration, list)
    BY <1>5, <2>3 DEF RecipeRight
  <2>5. accounts' = Append(accounts, Expected[n + 1]) /\ status' = status
    <3>1. IF /\ \A i \in References(meta) : i < n
             /\ Resolved(meta) \in Ordered(transfer, configuration, list)
          THEN accounts' = Append(accounts, Resolved(meta)) /\ UNCHANGED status
          ELSE status' = "refused" /\ UNCHANGED accounts
      BY DEF ResolveNext
    <3> HIDE DEF meta, n
    <3> QED
      BY <2>4, <3>1
  <2>6. Expected[n + 1] \in Places
    <3> HIDE DEF n
    <3>1. n + 1 \in 1..19
      BY <2>2
    <3> QED
      BY <3>1 DEF Places
  <2>7. Expected' = Expected /\ Places' = Places
    BY <1>1 DEF Expected, Places
  <2>8. /\ accounts' \in Seq(Places) /\ Len(accounts') = n + 1
        /\ \A i \in 1..n : accounts'[i] = accounts[i]
        /\ accounts'[n + 1] = Expected[n + 1]
    BY <2>1, <2>5, <2>6, AppendProperties
  <2> HIDE DEF n, meta
  <2>9. \A i \in 1..Len(accounts') : accounts'[i] = Expected[i]
    <3>1. ASSUME NEW i \in 1..(n + 1) PROVE i \in 1..n \/ i = n + 1
      BY <2>1
    <3> QED
      BY <2>1, <2>8, <3>1
  <2>10. Len(accounts') <= 19 /\ Len(accounts') >= 5
    BY <2>2, <2>8
  <2>11. accounts' \in Seq(Places')
    BY <2>7, <2>8
  <2>12. \A i \in 1..Len(accounts') : accounts'[i] = Expected'[i]
    BY <2>7, <2>9
  <2> QED
    BY <1>1, <1>2, <2>5, <2>10, <2>11, <2>12 DEF TransferInv
<1> QED
  BY <1>4, <1>5

\* Execute finds the accounts it expects.
LEMMA CallExecuteServed ==
  ASSUME TransferInv, CallExecute, UNCHANGED deployVars
  PROVE  TransferInv'
<1>1. /\ status = "resolving" /\ Len(accounts) = 19
      /\ status' = IF accounts = Expected THEN "executed" ELSE "refused"
      /\ UNCHANGED <<transfer, list, accounts, pc, configuration>>
  BY DEF CallExecute, EXTRA_ACCOUNT_META_COUNT, deployVars, Expected
<1>2. pc = "done" /\ transfer \in Transfers /\ configuration \in Class
  BY <1>1 DEF TransferInv
<1>3. list = transfer.destination =>
        /\ accounts \in Seq(Places)
        /\ \A i \in 1..Len(accounts) : accounts[i] = Expected[i]
  BY <1>1 DEF TransferInv
<1>4. list = transfer.destination => accounts = Expected
  <2>1. Expected \in Seq(Places) /\ Len(Expected) = 19
    BY ExecuteSeq DEF Expected, Places
  <2> QED
    BY <1>1, <1>3, <2>1, SeqEqual
<1>5. Expected' = Expected /\ Places' = Places
  BY <1>1 DEF Expected, Places
<1> QED
  BY <1>1, <1>2, <1>3, <1>4, <1>5 DEF TransferInv

\* Every step of a transfer serves an honest one.
LEMMA TransferInvStep ==
  TransferInv /\ DeployInv /\ [HookNext]_<<deployVars, hookVars>> => TransferInv'
<1> SUFFICES ASSUME TransferInv, DeployInv, [HookNext]_<<deployVars, hookVars>>
             PROVE  TransferInv'
  OBVIOUS
<1>1. CASE UNCHANGED <<deployVars, hookVars>>
  BY <1>1 DEF TransferInv, deployVars, hookVars, Expected, Places
<1>2. CASE DeployNext /\ UNCHANGED hookVars
  <2>1. status = "none"
    BY <1>2, DoneIsDone DEF TransferInv
  <2>2. status' = status
    BY <1>2 DEF hookVars
  <2> QED
    BY <2>1, <2>2 DEF TransferInv
<1>3. CASE (TransferChecked \/ ResolveNext \/ CallExecute) /\ UNCHANGED deployVars
  BY <1>3, TransferCheckedServed, ResolveNextServed, CallExecuteServed
<1> QED
  BY <1>1, <1>2, <1>3 DEF HookNext

\* The table the transfer hook stores, the accounts batch_transfer forwards
\* and those Execute declares agree: an honest transfer is never refused for
\* its accounts, whatever the mint, its class, the accounts and the signer.
THEOREM HonestTransfersAreNotRefused == HookSpec => []HonestTransfersAreServed
<1>1. HookInit => TransferInv /\ DeployInv
  BY FundingInit, ProgressInit DEF HookInit, TransferInv, DeployInv
<1>2. TransferInv /\ DeployInv /\ [HookNext]_<<deployVars, hookVars>>
        => TransferInv' /\ DeployInv'
  BY TransferInvStep, DeployInvStep, HookStep
<1>3. TransferInv => HonestTransfersAreServed
  <2>1. Len(Expected) = 19
    BY ExecuteTable DEF Expected
  <2> QED
    BY <2>1 DEF TransferInv, HonestTransfersAreServed
<1> QED
  BY <1>1, <1>2, <1>3, PTL DEF HookSpec

=============================================================================
