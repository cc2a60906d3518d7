----------------------------- MODULE AssetProofs ----------------------------
(***************************************************************************)
(* Theorems about Asset, for every value of its constants: types, the lien *)
(* that every program respects, the refinement of Custody, and the records *)
(* of the hold program, whose claims add up to what its accumulator says.  *)
(***************************************************************************)
EXTENDS Asset, Induction

-----------------------------------------------------------------------------
(***************************************************************************)
(* Batches of moves.                                                       *)
(***************************************************************************)

\* Ledgers without the bounds of u64.
LooseLedger == [balance : [Account -> Int], supply : Int]

\* A move takes a ledger to a ledger.
LEMMA MovedLoose ==
  ASSUME NEW l \in LooseLedger, NEW m \in Move
  PROVE  Moved(l, m) \in LooseLedger
<1>1. m.amount \in Int
  BY ConstantsAssumption DEF Move, Amount
<1> QED
  BY <1>1 DEF Moved, LooseLedger

\* The ledger after a prefix of a batch is what its last move makes of the
\* ledger before it.
LEMMA LedgerTraceSteps ==
  ASSUME ledger \in LooseLedger, NEW n \in Nat, NEW moves \in [1..n -> Move]
  PROVE  /\ LedgerTrace(n, moves)[0] = ledger
         /\ \A i \in 1..n : LedgerTrace(n, moves)[i]
                              = Moved(LedgerTrace(n, moves)[i-1], moves[i])
<1> DEFINE step == [i \in 1..n |-> [l \in LooseLedger |-> Moved(l, moves[i])]]
           F(t) == [i \in 0..n |-> IF i = 0 THEN ledger
                                   ELSE Moved(t[i-1], moves[i])]
<1>1. step \in Steps(n, LooseLedger)
  BY MovedLoose DEF Steps
<1>2. PICK f : IsTrace(n, LooseLedger, ledger, step, f)
  <2> HIDE DEF step
  <2> QED
    BY <1>1, PrefixRecursion
<1>3. ASSUME NEW i \in 1..n PROVE f[i] = Moved(f[i-1], moves[i])
  <2>1. f[i-1] \in LooseLedger
    BY <1>2 DEF IsTrace
  <2> QED
    BY <1>2, <2>1 DEF IsTrace
<1>4. f = F(f)
  BY <1>2, <1>3 DEF IsTrace
<1>5. LedgerTrace(n, moves) = CHOOSE t : t = F(t)
  BY DEF LedgerTrace
<1>6. LedgerTrace(n, moves) = F(LedgerTrace(n, moves))
  <2> HIDE DEF F
  <2> QED
    BY <1>4, <1>5
<1> QED
  BY <1>6

\* What Token-2022 accepts keeps the ledger within u64.
LEMMA MovedTyped ==
  ASSUME NEW l \in Ledger, NEW m \in Move, MoveAccepted(l, m)
  PROVE  Moved(l, m) \in Ledger
<1>1. m.amount \in Amount /\ m.from \in Account \cup {NoPda}
                          /\ m.to \in Account \cup {NoPda}
  BY DEF Move
<1>2. l.balance \in [Account -> Amount] /\ l.supply \in Amount
  BY DEF Ledger
<1>3. CASE m.from = m.to
  BY <1>3 DEF Moved
<1>4. CASE m.from # m.to
  <2>1. Moved(l, m).supply \in Amount
    BY <1>1, <1>2, <1>4, ConstantsAssumption DEF Moved, MoveAccepted, Amount
  <2>2. ASSUME NEW a \in Account PROVE Moved(l, m).balance[a] \in Amount
    BY <1>1, <1>2, <1>4, ConstantsAssumption DEF Moved, MoveAccepted, Amount
  <2>3. /\ Moved(l, m) = [balance |-> Moved(l, m).balance,
                           supply  |-> Moved(l, m).supply]
        /\ Moved(l, m).balance = [a \in Account |-> Moved(l, m).balance[a]]
    BY <1>4 DEF Moved
  <2>4. Moved(l, m).balance \in [Account -> Amount]
    BY <2>2, <2>3
  <2> QED
    BY <2>1, <2>3, <2>4 DEF Ledger
<1> QED
  BY <1>3, <1>4

\* A ledger whose balances cover the liens.
Covered(l) ==
    /\ l \in Ledger
    /\ \A a \in Account : position[a].held <= l.balance[a]

\* A move that Token-2022 accepts and that leaves the lien of its source.
Respectful(l, m) ==
    /\ MoveAccepted(l, m)
    /\ (m.from # NoPda /\ m.from # m.to) =>
          position[m.from].held <= l.balance[m.from] - m.amount

\* Such a move keeps the liens covered.
LEMMA MovedCovered ==
  ASSUME TypeOK, NEW l, Covered(l), NEW m \in Move, Respectful(l, m)
  PROVE  Covered(Moved(l, m))
<1>1. Moved(l, m) \in Ledger
  BY MovedTyped DEF Covered, Respectful
<1>2. ASSUME NEW a \in Account
      PROVE  position[a].held <= Moved(l, m).balance[a]
  <2>1. /\ m.amount \in Nat
        /\ l.balance[a] \in Nat
        /\ position[a].held \in Nat
        /\ position[a].held <= l.balance[a]
    BY ConstantsAssumption
       DEF TypeOK, Covered, Ledger, Move, Amount, HoldPosition
  <2>2. CASE m.from = m.to
    BY <2>1, <2>2 DEF Moved
  <2>3. CASE m.from # m.to /\ a = m.from
    BY <2>1, <2>3, ConstantsAssumption DEF Moved, Respectful
  <2>4. CASE m.from # m.to /\ a # m.from
    BY <2>1, <2>4 DEF Moved
  <2> QED
    BY <2>2, <2>3, <2>4
<1> QED
  BY <1>1, <1>2 DEF Covered

\* A batch keeps the liens covered if each of its legs is respectful whenever
\* the ledger it meets covers them.
LEMMA BatchCovered ==
  ASSUME TypeOK, Covered(ledger), NEW n \in Nat, NEW moves \in [1..n -> Move],
         \A i \in 1..n : Covered(LedgerTrace(n, moves)[i-1]) =>
                           Respectful(LedgerTrace(n, moves)[i-1], moves[i])
  PROVE  Covered(LedgerTrace(n, moves)[n])
<1> DEFINE trace == LedgerTrace(n, moves)
           S == {i \in 0..n : Covered(trace[i])}
<1>1. ledger \in LooseLedger
  BY ConstantsAssumption DEF Covered, Ledger, LooseLedger, Amount
<1>2. /\ trace[0] = ledger
      /\ \A i \in 1..n : trace[i] = Moved(trace[i-1], moves[i])
  BY <1>1, LedgerTraceSteps
<1> HIDE DEF trace
<1>3. 0 \in S
  BY <1>2
<1>4. ASSUME NEW i \in 1..n, i - 1 \in S PROVE i \in S
  <2>1. Covered(trace[i-1]) /\ Respectful(trace[i-1], moves[i])
    BY <1>4 DEF trace
  <2>2. moves[i] \in Move
    OBVIOUS
  <2>3. Covered(trace[i])
    BY <2>1, <2>2, <1>2, MovedCovered
  <2> QED
    BY <2>3
<1>5. \A i \in 0..n : i \in S
  <2> HIDE DEF S
  <2> QED
    BY <1>3, <1>4, PrefixInduction
<1> QED
  BY <1>5 DEF trace

-----------------------------------------------------------------------------
(***************************************************************************)
(* Batches of freezes.                                                     *)
(***************************************************************************)

\* One leg of a freeze instruction writes freeze states.
LEMMA FreezeStepTyped ==
  ASSUME NEW kind \in FreezeKind, NEW states \in [Account -> FreezeState],
         NEW leg \in FreezeLeg
  PROVE  FreezeStep(kind, states, leg) \in [Account -> FreezeState]
<1>1. leg.account \in Account /\ leg.balance \in Amount
  BY DEF FreezeLeg
<1>2. ASSUME NEW st \in FreezeState
      PROVE  FreezeLegWritten(kind, st, leg.balance) \in FreezeState
  <2> DEFINE fully == IF kind = "freeze" THEN TRUE
                      ELSE IF kind = "unfreeze" THEN FALSE ELSE st.fully
             frozen == IF kind = "partial" THEN leg.balance
                       ELSE IF kind = "unpartial" THEN 0 ELSE st.frozen
  <2>1. st.fully \in BOOLEAN /\ st.frozen \in Amount
    BY DEF FreezeState
  <2>2. fully \in BOOLEAN
    BY <2>1
  <2>3. 0 \in Amount
    BY ConstantsAssumption DEF Amount
  <2>4. frozen \in Amount
    BY <2>1, <2>3, <1>1
  <2>5. FreezeLegWritten(kind, st, leg.balance)
          = [fully |-> fully, frozen |-> frozen]
    BY DEF FreezeLegWritten
  <2> HIDE DEF fully, frozen
  <2> QED
    BY <2>2, <2>4, <2>5 DEF FreezeState
<1> QED
  BY <1>1, <1>2 DEF FreezeStep

\* A batch writes freeze states too.
LEMMA FreezeTraceTyped ==
  ASSUME freezeState \in [Account -> FreezeState], NEW kind \in FreezeKind,
         NEW n \in Nat, NEW legs \in [1..n -> FreezeLeg]
  PROVE  FreezeTrace(kind, n, legs)[n] \in [Account -> FreezeState]
<1> DEFINE A == [Account -> FreezeState]
           step == [i \in 1..n |-> [s \in A |-> FreezeStep(kind, s, legs[i])]]
           F(t) == [i \in 0..n |-> IF i = 0 THEN freezeState
                                   ELSE FreezeStep(kind, t[i-1], legs[i])]
<1> HIDE DEF A
<1>1. \A i \in 1..n, s \in A : FreezeStep(kind, s, legs[i]) \in A
  BY FreezeStepTyped DEF A
<1>2. step \in Steps(n, A) /\ freezeState \in A
  BY <1>1 DEF Steps, A
<1>3. PICK f : IsTrace(n, A, freezeState, step, f)
  <2> HIDE DEF step
  <2> QED
    BY <1>2, PrefixRecursion
<1>4. ASSUME NEW i \in 1..n PROVE f[i] = FreezeStep(kind, f[i-1], legs[i])
  <2>1. f[i-1] \in A
    BY <1>3 DEF IsTrace
  <2> QED
    BY <1>3, <2>1 DEF IsTrace
<1>5. f = F(f)
  BY <1>3, <1>4 DEF IsTrace
<1>6. FreezeTrace(kind, n, legs) = CHOOSE t : t = F(t)
  BY DEF FreezeTrace
<1>7. FreezeTrace(kind, n, legs) = F(FreezeTrace(kind, n, legs))
  <2> HIDE DEF F
  <2> QED
    BY <1>5, <1>6
<1> DEFINE trace == FreezeTrace(kind, n, legs)
           S == {i \in 0..n : trace[i] \in A}
<1>8. trace[0] = freezeState
       /\ \A i \in 1..n : trace[i] = FreezeStep(kind, trace[i-1], legs[i])
  BY <1>7
<1> HIDE DEF trace
<1>9. 0 \in S
  BY <1>2, <1>8
<1>10. ASSUME NEW i \in 1..n, i - 1 \in S PROVE i \in S
  BY <1>10, <1>8, <1>1
<1>11. \A i \in 0..n : i \in S
  <2> HIDE DEF S
  <2> QED
    BY <1>9, <1>10, PrefixInduction
<1> QED
  BY <1>11 DEF trace, A

-----------------------------------------------------------------------------
(***************************************************************************)
(* The inductive invariant: types, and balances that cover the liens.      *)
(***************************************************************************)
Inv == TypeOK /\ LienCovered

\* The parts of the state a ledger instruction leaves alone.
RestUnchanged ==
    UNCHANGED <<paused, deactivated, roles, mode, controlList,
                freezeState, position, holds, maxSupply, now>>

\* An instruction that only moves tokens need only keep the liens covered.
LEMMA LedgerStepInv ==
  ASSUME Inv, Covered(ledger'), RestUnchanged
  PROVE  Inv'
BY DEF Inv, TypeOK, LienCovered, Covered, RestUnchanged

\* The invariant, in the words of the lemmas about moves.
LEMMA InvCovered ==
  ASSUME Inv
  PROVE  TypeOK /\ Covered(ledger)
BY DEF Inv, TypeOK, LienCovered, Covered

\* The hook keeps the lien of the source: it looks at the balance the debit
\* has left.
LEMMA TransferRespectful ==
  ASSUME TypeOK, NEW l \in Ledger, NEW from \in Account, NEW to \in Account,
         NEW amount \in Amount, TransferChecked(l, from, to, amount)
  PROVE  Respectful(l, Transfer(from, to, amount))
<1> DEFINE m == Transfer(from, to, amount)
<1>1. /\ m.from = from /\ m.to = to /\ m.amount = amount
      /\ MoveAccepted(l, m)
  BY DEF Transfer, TransferChecked
<1>2. ASSUME from # to
      PROVE  position[from].held <= l.balance[from] - amount
  <2>1. /\ freezeState[from].frozen \in Nat
        /\ position[from].held \in Nat
        /\ l.balance[from] \in Nat
        /\ amount \in Nat
    BY ConstantsAssumption
       DEF TypeOK, FreezeState, HoldPosition, Ledger, Amount
  <2>2. Moved(l, m).balance[from]
          >= freezeState[from].frozen + position[from].held
    BY <1>2 DEF TransferChecked, Execute, RequireLockedBalanceCovered, HeldAmount
  <2>3. Moved(l, m).balance[from] = l.balance[from] - amount
    BY <1>1, <1>2 DEF Moved
  <2> QED
    BY <2>1, <2>2, <2>3
<1> QED
  BY <1>1, <1>2 DEF Respectful

\* The transfer-control program keeps the invariant.
LEMMA TransferControlInv ==
  ASSUME Inv, TransferControlNext
  PROVE  Inv'
BY DEF TransferControlNext, InitializeMode, AddToControlList,
       RemoveFromControlList, Inv, TypeOK, LienCovered

\* The freeze program keeps the invariant: it does not touch the liens.
LEMMA FreezeInv ==
  ASSUME Inv, FreezeNext
  PROVE  Inv'
<1>1. freezeState \in [Account -> FreezeState]
  BY DEF Inv, TypeOK
<1>2. ASSUME freezeState' \in [Account -> FreezeState],
             UNCHANGED <<ledger, paused, deactivated, roles, mode,
                         controlList, position, holds, maxSupply, now>>
      PROVE  Inv'
  BY <1>2 DEF Inv, TypeOK, LienCovered
<1>3. ASSUME NEW kind \in FreezeKind, NEW signer \in Actor,
             NEW leg \in FreezeLeg, FreezeOne(kind, signer, leg)
      PROVE  Inv'
  BY <1>1, <1>2, <1>3, FreezeStepTyped DEF FreezeOne
<1>4. ASSUME NEW kind \in FreezeKind, NEW signer \in Actor,
             NEW n \in 1..MaxBatch, NEW legs \in [1..n -> FreezeLeg],
             FreezeBatch(kind, signer, n, legs)
      PROVE  Inv'
  BY <1>1, <1>2, <1>4, FreezeTraceTyped, ConstantsAssumption DEF FreezeBatch
<1>5. \A a \in Account : Leg(a) \in FreezeLeg
  BY ConstantsAssumption DEF Leg, FreezeLeg, Amount
<1>6. ASSUME NEW n \in 1..MaxBatch, NEW accounts \in [1..n -> Account]
      PROVE  [i \in 1..n |-> Leg(accounts[i])] \in [1..n -> FreezeLeg]
  BY <1>5
<1>7. "freeze" \in FreezeKind /\ "unfreeze" \in FreezeKind
      /\ "partial" \in FreezeKind /\ "unpartial" \in FreezeKind
  BY DEF FreezeKind
<1>8. PICK signer \in Actor :
        \/ \E a \in Account :
              \/ FreezeAccount(signer, a)
              \/ UnfreezeAccount(signer, a)
              \/ UnfreezeAccountPartial(signer, a)
        \/ \E leg \in FreezeLeg : FreezeAccountPartial(signer, leg)
        \/ \E n \in 1..MaxBatch :
              \/ \E accounts \in [1..n -> Account] :
                    \/ BatchFreezeAccount(signer, n, accounts)
                    \/ BatchUnfreezeAccount(signer, n, accounts)
                    \/ BatchUnfreezeAccountPartial(signer, n, accounts)
              \/ \E legs \in [1..n -> FreezeLeg] :
                    BatchFreezeAccountPartial(signer, n, legs)
  BY DEF FreezeNext
<1>9. ASSUME NEW a \in Account,
             \/ FreezeAccount(signer, a)
             \/ UnfreezeAccount(signer, a)
             \/ UnfreezeAccountPartial(signer, a)
      PROVE  Inv'
  BY <1>3, <1>5, <1>7, <1>9
     DEF FreezeAccount, UnfreezeAccount, UnfreezeAccountPartial
<1>10. ASSUME NEW leg \in FreezeLeg, FreezeAccountPartial(signer, leg)
       PROVE  Inv'
  BY <1>3, <1>7, <1>10 DEF FreezeAccountPartial
<1>11. ASSUME NEW n \in 1..MaxBatch, NEW accounts \in [1..n -> Account],
              \/ BatchFreezeAccount(signer, n, accounts)
              \/ BatchUnfreezeAccount(signer, n, accounts)
              \/ BatchUnfreezeAccountPartial(signer, n, accounts)
       PROVE  Inv'
  BY <1>4, <1>6, <1>7, <1>11
     DEF BatchFreezeAccount, BatchUnfreezeAccount, BatchUnfreezeAccountPartial
<1>12. ASSUME NEW n \in 1..MaxBatch, NEW legs \in [1..n -> FreezeLeg],
              BatchFreezeAccountPartial(signer, n, legs)
       PROVE  Inv'
  BY <1>4, <1>7, <1>12 DEF BatchFreezeAccountPartial
<1> QED
  BY <1>8, <1>9, <1>10, <1>11, <1>12

\* Wallet transfers and batches of them keep the invariant: the hook runs on
\* every leg that is not a self-transfer.
LEMMA TransferInv ==
  ASSUME Inv, TransferNext
  PROVE  Inv'
<1>1. TypeOK /\ Covered(ledger)
  BY InvCovered
<1>2. \A from, to \in Account, amount \in Amount :
         Transfer(from, to, amount) \in Move
  BY DEF Transfer, Move
<1>3. ASSUME NEW from \in Account, NEW to \in Account, NEW amount \in Amount,
             WalletTransfer(from, to, amount)
      PROVE  Inv'
  <2>1. Respectful(ledger, Transfer(from, to, amount))
    BY <1>1, <1>3, TransferRespectful DEF WalletTransfer, Covered
  <2>2. Covered(ledger')
    BY <1>1, <1>2, <1>3, <2>1, MovedCovered DEF WalletTransfer
  <2> QED
    BY <1>3, <2>2, LedgerStepInv DEF WalletTransfer, RestUnchanged
<1>4. ASSUME NEW from \in Account, NEW n \in 1..MaxBatch,
             NEW legs \in [1..n -> TransferLeg], BatchTransfer(from, n, legs)
      PROVE  Inv'
  <2> DEFINE moves == [i \in 1..n |->
                         Transfer(from, legs[i].to, legs[i].amount)]
             trace == LedgerTrace(n, moves)
  <2>1. n \in Nat /\ moves \in [1..n -> Move]
    BY <1>2, ConstantsAssumption DEF TransferLeg
  <2>2. /\ \A i \in 1..n :
              TransferChecked(trace[i-1], from, legs[i].to, legs[i].amount)
        /\ ledger' = trace[n]
        /\ RestUnchanged
    BY <1>4 DEF BatchTransfer, LegsAccepted, TransferMoves, RestUnchanged
  <2>3. ASSUME NEW i \in 1..n, Covered(trace[i-1])
        PROVE  Respectful(trace[i-1], moves[i])
    <3>1. legs[i].to \in Account /\ legs[i].amount \in Amount
      BY DEF TransferLeg
    <3>2. Respectful(trace[i-1], Transfer(from, legs[i].to, legs[i].amount))
      BY <1>1, <2>2, <2>3, <3>1, TransferRespectful DEF Covered
    <3> QED
      BY <3>2
  <2>4. Covered(trace[n])
    <3> HIDE DEF moves
    <3> QED
      BY <1>1, <2>1, <2>3, BatchCovered
  <2> QED
    BY <2>2, <2>4, LedgerStepInv
<1> QED
  BY <1>3, <1>4 DEF TransferNext

\* The pre-debit check of the operations program protects the lien as the
\* hook's post-debit check does.
LEMMA HoldCoveredRespectful ==
  ASSUME TypeOK, NEW l \in Ledger, NEW m \in Move, m.from \in Account,
         RequireHoldCovered(l, m.from, m.amount), MoveAccepted(l, m)
  PROVE  Respectful(l, m)
<1>1. /\ position[m.from].held \in Nat
      /\ l.balance[m.from] \in Nat
      /\ m.amount \in Nat
  BY ConstantsAssumption DEF TypeOK, HoldPosition, Ledger, Move, Amount
<1>2. l.balance[m.from] >= position[m.from].held + m.amount
  BY DEF RequireHoldCovered, HeldAmount
<1> QED
  BY <1>1, <1>2 DEF Respectful

\* Seizures and burns, which no hook sees, keep the invariant.
LEMMA OperationsInv ==
  ASSUME Inv, OperationsNext
  PROVE  Inv'
<1>1. TypeOK /\ Covered(ledger)
  BY InvCovered
<1>2. ASSUME NEW m \in Move, m.from \in Account,
             RequireHoldCovered(ledger, m.from, m.amount),
             MoveAccepted(ledger, m), ledger' = Moved(ledger, m), RestUnchanged
      PROVE  Inv'
  <2>1. Covered(ledger')
    BY <1>1, <1>2, HoldCoveredRespectful, MovedCovered DEF Covered
  <2> QED
    BY <1>2, <2>1, LedgerStepInv
<1>3. ASSUME NEW signer \in Actor, NEW from \in Account, NEW to \in Account,
             NEW amount \in Amount, ControllerTransfer(signer, from, to, amount)
      PROVE  Inv'
  <2> DEFINE m == Transfer(from, to, amount)
  <2>1. m \in Move /\ m.from = from /\ m.amount = amount
    BY DEF Transfer, Move
  <2>2. /\ RequireHoldCovered(ledger, from, amount) /\ MoveAccepted(ledger, m)
        /\ ledger' = Moved(ledger, m) /\ RestUnchanged
    BY <1>3 DEF ControllerTransfer, RestUnchanged
  <2> HIDE DEF m
  <2> QED
    BY <1>2, <2>1, <2>2
<1>4. ASSUME NEW signer \in Actor, NEW from \in Account, NEW amount \in Amount,
             BurnTokens(signer, from, amount)
      PROVE  Inv'
  <2> DEFINE m == Burn(from, amount)
  <2>1. m \in Move /\ m.from = from /\ m.amount = amount
    BY DEF Burn, Move
  <2>2. /\ RequireHoldCovered(ledger, from, amount) /\ MoveAccepted(ledger, m)
        /\ ledger' = Moved(ledger, m) /\ RestUnchanged
    BY <1>4 DEF BurnTokens, RestUnchanged
  <2> HIDE DEF m
  <2> QED
    BY <1>2, <2>1, <2>2
<1>5. ASSUME NEW signer \in Actor, NEW n \in 1..MaxBatch,
             NEW legs \in [1..n -> BurnLeg], BatchBurn(signer, n, legs)
      PROVE  Inv'
  <2> DEFINE moves == [i \in 1..n |-> Burn(legs[i].from, legs[i].amount)]
             trace == LedgerTrace(n, moves)
  <2>1. /\ \A i \in 1..n :
             /\ RequireHoldCovered(trace[i-1], legs[i].from, legs[i].amount)
             /\ MoveAccepted(trace[i-1], moves[i])
        /\ ledger' = trace[n]
        /\ RestUnchanged
    BY <1>5 DEF BatchBurn, RestUnchanged
  <2>2. ASSUME NEW i \in 1..n
        PROVE  /\ moves[i] \in Move
               /\ moves[i].from = legs[i].from
               /\ moves[i].from \in Account
               /\ moves[i].amount = legs[i].amount
    BY DEF BurnLeg, Burn, Move
  <2>3. n \in Nat /\ moves \in [1..n -> Move]
    BY <2>2, ConstantsAssumption
  <2> HIDE DEF moves
  <2>4. ASSUME NEW i \in 1..n, Covered(trace[i-1])
        PROVE  Respectful(trace[i-1], moves[i])
    BY <1>1, <2>1, <2>2, <2>4, HoldCoveredRespectful DEF Covered
  <2>5. Covered(trace[n])
    BY <1>1, <2>3, <2>4, BatchCovered
  <2> QED
    BY <2>1, <2>5, LedgerStepInv
<1> QED
  BY <1>3, <1>4, <1>5 DEF OperationsNext

\* Issuance keeps the invariant: no account loses a token by it.
LEMMA MintInv ==
  ASSUME Inv, MintNext
  PROVE  Inv'
<1>1. TypeOK /\ Covered(ledger)
  BY InvCovered
<1>2. ASSUME NEW to \in Account, NEW amount \in Amount
      PROVE  /\ MintTo(to, amount) \in Move
             /\ MintTo(to, amount).from = NoPda
  BY DEF MintTo, Move
<1>3. ASSUME NEW signer \in Actor, NEW to \in Account, NEW amount \in Amount,
             MintTokens(signer, to, amount)
      PROVE  Inv'
  <2>1. Respectful(ledger, MintTo(to, amount))
    BY <1>2, <1>3 DEF MintTokens, Respectful
  <2>2. Covered(ledger')
    BY <1>1, <1>2, <1>3, <2>1, MovedCovered DEF MintTokens
  <2> QED
    BY <1>3, <2>2, LedgerStepInv DEF MintTokens, RestUnchanged
<1>4. ASSUME NEW signer \in Actor, NEW n \in 1..MaxBatch,
             NEW legs \in [1..n -> MintLeg], BatchMint(signer, n, legs)
      PROVE  Inv'
  <2> DEFINE moves == [i \in 1..n |-> MintTo(legs[i].to, legs[i].amount)]
             trace == LedgerTrace(n, moves)
  <2>1. /\ \A i \in 1..n : MoveAccepted(trace[i-1], moves[i])
        /\ ledger' = trace[n]
        /\ RestUnchanged
    BY <1>4 DEF BatchMint, RestUnchanged
  <2>2. \A i \in 1..n : moves[i] \in Move /\ moves[i].from = NoPda
    BY <1>2 DEF MintLeg
  <2>3. n \in Nat /\ moves \in [1..n -> Move]
    BY <2>2, ConstantsAssumption
  <2> HIDE DEF moves
  <2>4. \A i \in 1..n : Respectful(trace[i-1], moves[i])
    BY <2>1, <2>2 DEF Respectful
  <2>5. Covered(trace[n])
    BY <1>1, <2>3, <2>4, BatchCovered
  <2> QED
    BY <2>1, <2>5, LedgerStepInv
<1>5. ASSUME NEW signer \in Actor, NEW cap \in Amount, SetMaxSupply(signer, cap)
      PROVE  Inv'
  BY <1>5 DEF SetMaxSupply, Inv, TypeOK, LienCovered
<1> QED
  BY <1>3, <1>4, <1>5 DEF MintNext

\* The lifecycle programs keep the invariant.
LEMMA LifecycleInv ==
  ASSUME Inv, LifecycleNext
  PROVE  Inv'
<1>1. ASSUME NEW signer \in Actor, NEW account \in Actor,
             NEW batch \in RoleBatch,
             \/ GrantRoles(signer, account, batch)
             \/ RevokeRoles(signer, account, batch)
      PROVE  Inv'
  <2>1. roles' \in [Actor -> SUBSET Role]
    BY <1>1, RoleBatchAssumption DEF GrantRoles, RevokeRoles, Inv, TypeOK
  <2> QED
    BY <1>1, <2>1 DEF GrantRoles, RevokeRoles, Inv, TypeOK, LienCovered
<1>2. ASSUME NEW signer \in Actor,
             \/ PauseMint(signer)
             \/ UnpauseMint(signer)
             \/ Deactivate(signer)
      PROVE  Inv'
  BY <1>2 DEF PauseMint, UnpauseMint, Deactivate, Inv, TypeOK, LienCovered
<1> QED
  BY <1>1, <1>2 DEF LifecycleNext

\* What record_new_hold writes, and that it only claims what is free.
LEMMA RecordNewHoldEffect ==
  ASSUME TypeOK, NEW a \in Account, NEW id \in HoldId, NEW amount \in Amount,
         NEW expiration \in Expiration, NEW escrow \in Actor,
         NEW destination \in Account \cup {NoPda},
         RecordNewHold(a, id, amount, expiration, escrow, destination)
  PROVE  /\ position' \in [Account -> HoldPosition]
         /\ holds' \in [Account -> [HoldId -> Hold \cup {NoPda}]]
         /\ position'[a].held = position[a].held + amount
         /\ \A b \in Account \ {a} : position'[b] = position[b]
         /\ position[a].held + amount <= ledger.balance[a]
<1>1. /\ position \in [Account -> HoldPosition]
      /\ holds \in [Account -> [HoldId -> Hold \cup {NoPda}]]
      /\ position[a].held \in Nat
      /\ freezeState[a].frozen \in Nat
      /\ ledger.balance[a] \in Nat
      /\ amount \in Nat
  BY ConstantsAssumption DEF TypeOK, HoldPosition, FreezeState, Ledger, Amount
<1> DEFINE hold == [escrow      |-> escrow,
                    destination |-> destination,
                    current     |-> amount,
                    expiration  |-> expiration,
                    status      |-> "Active"]
           pos == [held |-> position[a].held + amount, count |-> id]
<1>2. /\ position' = [position EXCEPT ![a] = pos]
      /\ holds' = [holds EXCEPT ![a][id] = hold]
      /\ position[a].held + amount <= MaxAmount
      /\ amount > 0
      /\ Monus(Monus(ledger.balance[a], freezeState[a].frozen),
               position[a].held) >= amount
  BY <1>1 DEF RecordNewHold
<1>3. hold \in Hold
  BY ExpirationAssumption DEF Hold, HoldStatus
<1>4. pos \in HoldPosition
  BY <1>1, <1>2, ConstantsAssumption DEF HoldPosition, Amount, HoldId
<1>5. pos.held = position[a].held + amount
  OBVIOUS
<1>6. position[a].held + amount <= ledger.balance[a]
  BY <1>1, <1>2 DEF Monus
<1> HIDE DEF hold, pos
<1> QED
  BY <1>1, <1>2, <1>3, <1>4, <1>5, <1>6

\* What resolving part of a hold writes.
LEMMA ReduceLienEffect ==
  ASSUME TypeOK, NEW a \in Account, NEW id \in HoldId, NEW amount \in Amount,
         NEW status \in HoldStatus, ActiveHold(a, id),
         amount <= holds[a][id].current, ReduceLien(a, id, amount, status)
  PROVE  /\ position' \in [Account -> HoldPosition]
         /\ holds' \in [Account -> [HoldId -> Hold \cup {NoPda}]]
         /\ position'[a].held = position[a].held - amount
         /\ \A b \in Account \ {a} : position'[b] = position[b]
<1> DEFINE left == holds[a][id].current - amount
           pos == [position[a] EXCEPT !.held = @ - amount]
           hold == [holds[a][id] EXCEPT
                      !.current = left,
                      !.status  = IF left = 0 THEN status ELSE @]
<1>1. /\ position \in [Account -> HoldPosition]
      /\ holds \in [Account -> [HoldId -> Hold \cup {NoPda}]]
      /\ position[a] \in HoldPosition
      /\ holds[a][id] \in Hold
  BY DEF TypeOK, ActiveHold
<1>2. /\ amount \in Nat /\ amount <= position[a].held
      /\ position[a].held \in Amount /\ holds[a][id].current \in Amount
  BY <1>1, ConstantsAssumption DEF ReduceLien, HoldPosition, Hold, Amount
<1>3. /\ position' = [position EXCEPT ![a] = pos]
      /\ holds' = [holds EXCEPT ![a] = [holds[a] EXCEPT ![id] = hold]]
  BY <1>1 DEF ReduceLien
<1>4. pos \in HoldPosition /\ pos.held = position[a].held - amount
  BY <1>1, <1>2, ConstantsAssumption DEF HoldPosition, Amount
<1>5. left \in Amount
  BY <1>2, ConstantsAssumption DEF Amount
<1>6. hold \in Hold
  <2> HIDE DEF left
  <2> QED
    BY <1>1, <1>5 DEF Hold
<1> HIDE DEF hold, pos
<1> QED
  BY <1>1, <1>3, <1>4, <1>6

\* The hold program keeps the invariant.
LEMMA HoldInv ==
  ASSUME Inv, HoldNext
  PROVE  Inv'
<1>1. TypeOK /\ Covered(ledger)
  BY InvCovered
<1>2. \A b \in Account : /\ position[b].held \in Nat
                         /\ ledger.balance[b] \in Nat
                         /\ position[b].held <= ledger.balance[b]
  BY <1>1, ConstantsAssumption
     DEF TypeOK, Covered, HoldPosition, Ledger, Amount
<1>3. ASSUME ledger' \in Ledger,
             position' \in [Account -> HoldPosition],
             holds' \in [Account -> [HoldId -> Hold \cup {NoPda}]],
             \A b \in Account : position'[b].held <= ledger'.balance[b],
             UNCHANGED <<paused, deactivated, roles, mode, controlList,
                         freezeState, maxSupply, now>>
      PROVE  Inv'
  BY <1>1, <1>3 DEF Inv, TypeOK, LienCovered
<1>4. ASSUME NEW a \in Account, NEW id \in HoldId, NEW amount \in Amount,
             NEW expiration \in Expiration, NEW escrow \in Actor,
             NEW destination \in Account \cup {NoPda},
             RecordNewHold(a, id, amount, expiration, escrow, destination),
             UNCHANGED <<ledger, paused, deactivated, roles, mode, controlList,
                         freezeState, maxSupply, now>>
      PROVE  Inv'
  <2>1. /\ position' \in [Account -> HoldPosition]
        /\ holds' \in [Account -> [HoldId -> Hold \cup {NoPda}]]
        /\ position'[a].held = position[a].held + amount
        /\ \A b \in Account \ {a} : position'[b] = position[b]
        /\ position[a].held + amount <= ledger.balance[a]
    BY <1>1, <1>4, RecordNewHoldEffect
  <2>2. \A b \in Account : position'[b].held <= ledger'.balance[b]
    BY <1>2, <1>4, <2>1
  <2>3. ledger' \in Ledger
    BY <1>1, <1>4 DEF Covered
  <2> QED
    BY <1>3, <1>4, <2>1, <2>2, <2>3
<1>5. ASSUME NEW a \in Account, NEW id \in HoldId, NEW amount \in Amount,
             NEW status \in HoldStatus, ActiveHold(a, id),
             amount <= holds[a][id].current, ReduceLien(a, id, amount, status),
             UNCHANGED <<ledger, paused, deactivated, roles, mode, controlList,
                         freezeState, maxSupply, now>>
      PROVE  Inv'
  <2>1. /\ position' \in [Account -> HoldPosition]
        /\ holds' \in [Account -> [HoldId -> Hold \cup {NoPda}]]
        /\ position'[a].held = position[a].held - amount
        /\ \A b \in Account \ {a} : position'[b] = position[b]
    BY <1>1, <1>5, ReduceLienEffect
  <2>2. amount \in Nat
    BY ConstantsAssumption DEF Amount
  <2>3. \A b \in Account : position'[b].held <= ledger'.balance[b]
    BY <1>2, <1>5, <2>1, <2>2
  <2>4. ledger' \in Ledger
    BY <1>1, <1>5 DEF Covered
  <2> QED
    BY <1>3, <1>5, <2>1, <2>3, <2>4
<1>6. ASSUME NEW signer \in Actor, NEW a \in Account, NEW id \in HoldId,
             NEW to \in Account, NEW amount \in Amount,
             ExecuteHold(signer, a, id, to, amount)
      PROVE  Inv'
  <2> DEFINE m == Transfer(a, to, amount)
  <2>1. /\ position' \in [Account -> HoldPosition]
        /\ holds' \in [Account -> [HoldId -> Hold \cup {NoPda}]]
        /\ position'[a].held = position[a].held - amount
        /\ \A b \in Account \ {a} : position'[b] = position[b]
    BY <1>1, <1>6, ReduceLienEffect DEF ExecuteHold, HoldStatus
  <2>2. m \in Move /\ m.from = a /\ m.to = to /\ m.amount = amount
    BY DEF Transfer, Move
  <2>3. MoveAccepted(ledger, m) /\ ledger' = Moved(ledger, m)
    BY <1>6 DEF ExecuteHold, HoldTransfer
  <2> HIDE DEF m
  <2>4. ledger' \in Ledger
    BY <1>1, <2>2, <2>3, MovedTyped DEF Covered
  <2>5. amount \in Nat
    BY ConstantsAssumption DEF Amount
  <2>6. ASSUME NEW b \in Account PROVE position'[b].held <= ledger'.balance[b]
    <3>1. CASE a = to
      <4>1. ledger' = ledger
        BY <2>2, <2>3, <3>1 DEF Moved
      <4> QED
        BY <4>1, <2>1, <2>5, <1>2
    <3>2. CASE a # to /\ b = a
      <4>1. ledger'.balance[b] = ledger.balance[b] - amount
        BY <2>2, <2>3, <3>2 DEF Moved
      <4> QED
        BY <4>1, <2>1, <2>5, <3>2, <1>2
    <3>3. CASE a # to /\ b # a
      <4>1. ledger'.balance[b] >= ledger.balance[b]
        BY <2>2, <2>3, <2>5, <3>3, <1>2 DEF Moved
      <4>2. ledger'.balance[b] \in Nat
        BY <2>4, ConstantsAssumption DEF Ledger, Amount
      <4> QED
        BY <4>1, <4>2, <2>1, <3>3, <1>2
    <3> QED
      BY <3>1, <3>2, <3>3
  <2>7. UNCHANGED <<paused, deactivated, roles, mode, controlList,
                    freezeState, maxSupply, now>>
    BY <1>6 DEF ExecuteHold
  <2> QED
    BY <1>3, <2>1, <2>4, <2>6, <2>7
<1>7. ASSUME NEW signer \in Actor, NEW a \in Account, NEW id \in HoldId,
             NEW amount \in Amount, ReleaseHold(signer, a, id, amount)
      PROVE  Inv'
  <2>1. "Closed" \in HoldStatus
    BY DEF HoldStatus
  <2> QED
    BY <1>5, <1>7, <2>1 DEF ReleaseHold
<1>8. ASSUME NEW a \in Account, NEW id \in HoldId, ReclaimHold(a, id)
      PROVE  Inv'
  <2>1. "Expired" \in HoldStatus
    BY DEF HoldStatus
  <2>2. holds[a][id].current \in Amount
    BY <1>1, <1>8 DEF ReclaimHold, ActiveHold, TypeOK, Hold
  <2>3. holds[a][id].current <= holds[a][id].current
    BY <2>2, ConstantsAssumption DEF Amount
  <2> QED
    BY <1>5, <1>8, <2>1, <2>2, <2>3 DEF ReclaimHold
<1>9. ASSUME NEW a \in Account, NEW id \in HoldId, NEW amount \in Amount,
             NEW expiration \in Expiration, NEW escrow \in Actor,
             NEW destination \in Account \cup {NoPda},
             \/ CreateHold(a, id, amount, expiration, escrow, destination)
             \/ \E signer \in Actor :
                   ControllerCreateHold(signer, a, id, amount, expiration,
                                        escrow, destination)
      PROVE  Inv'
  BY <1>4, <1>9 DEF CreateHold, ControllerCreateHold
<1> QED
  BY <1>6, <1>7, <1>8, <1>9, ZenonT(60) DEF HoldNext

-----------------------------------------------------------------------------
(***************************************************************************)
(* The theorems.                                                           *)
(***************************************************************************)

\* Every instruction of every program keeps the invariant.
LEMMA InvStep ==
  ASSUME Inv, [Next]_vars
  PROVE  Inv'
<1>1. CASE Tick
  BY <1>1, ConstantsAssumption DEF Tick, Inv, TypeOK, LienCovered
<1>2. CASE UNCHANGED vars
  BY <1>2 DEF vars, Inv, TypeOK, LienCovered
<1> QED
  BY <1>1, <1>2, TransferControlInv, FreezeInv, TransferInv, OperationsInv,
     HoldInv, MintInv, LifecycleInv DEF Next

\* A mint straight after deployment satisfies it.
LEMMA InvInit ==
  ASSUME Init
  PROVE  Inv
<1>1. 0 \in Amount /\ 0 \in 0..MaxHoldId /\ 0 \in 0..MaxTime
  BY ConstantsAssumption DEF Amount
<1>2. ledger \in Ledger
  BY <1>1 DEF Init, Ledger
<1>3. Unfrozen \in FreezeState
  BY <1>1 DEF Unfrozen, FreezeState
<1>4. freezeState \in [Account -> FreezeState]
  BY <1>3 DEF Init
<1>5. position \in [Account -> HoldPosition]
  BY <1>1 DEF Init, HoldPosition
<1>6. holds \in [Account -> [HoldId -> Hold \cup {NoPda}]]
  BY DEF Init
<1>7. TypeOK
  BY <1>1, <1>2, <1>4, <1>5, <1>6, ConstantsAssumption DEF Init, TypeOK
<1>8. LienCovered
  BY DEF Init, LienCovered
<1> QED
  BY <1>7, <1>8 DEF Inv

\* The accounts of the mint keep their types; no u64 of the ledger, the holds
\* or the positions ever leaves its range.
THEOREM TypeCorrect == Spec => []TypeOK
<1>1. Init => Inv
  BY InvInit
<1>2. Inv /\ [Next]_vars => Inv'
  BY InvStep
<1>3. Inv => TypeOK
  BY DEF Inv
<1> QED
  BY <1>1, <1>2, <1>3, PTL DEF Spec

\* No order of instructions, alone or in batches of any length, by holders,
\* escrows or controllers, takes out tokens a hold claims.
THEOREM LiensStayCovered == Spec => []LienCovered
<1>1. Init => Inv
  BY InvInit
<1>2. Inv /\ [Next]_vars => Inv'
  BY InvStep
<1>3. Inv => LienCovered
  BY DEF Inv
<1> QED
  BY <1>1, <1>2, <1>3, PTL DEF Spec

-----------------------------------------------------------------------------
(***************************************************************************)
(* The refinement of Custody.                                              *)
(***************************************************************************)

\* The refinement mapping.
Free == [a \in Account |-> ledger.balance[a] - position[a].held]

Locked == [a \in Account |-> position[a].held]

\* In every reachable state what is free and what is locked are amounts.
LEMMA MappingTyped ==
  ASSUME Inv
  PROVE  /\ Free \in [Account -> Amount]
         /\ Locked \in [Account -> Amount]
         /\ position \in [Account -> HoldPosition]
         /\ \A a \in Account : /\ ledger.balance[a] \in Nat
                               /\ position[a].held \in Nat
                               /\ position[a].held <= ledger.balance[a]
<1>1. position \in [Account -> HoldPosition]
  BY DEF Inv, TypeOK
<1>2. \A a \in Account : /\ ledger.balance[a] \in Amount
                         /\ position[a].held \in Amount
                         /\ position[a].held <= ledger.balance[a]
  BY DEF Inv, TypeOK, LienCovered, Ledger, HoldPosition
<1> QED
  BY <1>1, <1>2, ConstantsAssumption DEF Free, Locked, Amount

\* An instruction that leaves the positions alone moves free tokens, if any.
LEMMA CirculateStep ==
  ASSUME Inv, Inv', position' = position
  PROVE  Escrow!Circulate
<1>1. Free' \in [Account -> Amount]
  <2>1. \A a \in Account : /\ ledger'.balance[a] \in Amount
                           /\ position'[a].held \in Amount
                           /\ position'[a].held <= ledger'.balance[a]
    BY DEF Inv, TypeOK, LienCovered, Ledger, HoldPosition
  <2> QED
    BY <2>1, ConstantsAssumption DEF Free, Amount
<1>2. Locked' = Locked
  BY DEF Locked
<1> QED
  BY <1>1, <1>2 DEF Escrow!Circulate, Escrow!Amount, Amount, Free, Locked

\* Creating a hold locks what it claims.
LEMMA LockStep ==
  ASSUME Inv, NEW a \in Account, NEW amount \in Amount, amount > 0,
         position' \in [Account -> HoldPosition],
         position'[a].held = position[a].held + amount,
         \A b \in Account \ {a} : position'[b] = position[b],
         position[a].held + amount <= ledger.balance[a],
         ledger' = ledger
  PROVE  Escrow!Next
<1>1. amount \in 1..MaxAmount
  BY ConstantsAssumption DEF Amount
<1>2. \A b \in Account : /\ ledger.balance[b] \in Nat
                         /\ position[b].held \in Nat
  BY MappingTyped
<1>3. amount <= Free[a]
  BY <1>1, <1>2 DEF Free
<1>4. Free' = [Free EXCEPT ![a] = @ - amount]
  <2>1. ASSUME NEW b \in Account
        PROVE  ledger'.balance[b] - position'[b].held
                 = IF b = a THEN Free[a] - amount ELSE Free[b]
    BY <1>1, <1>2 DEF Free
  <2> QED
    BY <2>1 DEF Free
<1>5. Locked' = [Locked EXCEPT ![a] = @ + amount]
  BY DEF Locked
<1>6. Escrow!Lock(a, amount)
  BY <1>3, <1>4, <1>5 DEF Escrow!Lock, Free, Locked
<1> QED
  BY <1>1, <1>6 DEF Escrow!Next

\* Resolving part of a hold unlocks it, for its own account or another's.
LEMMA UnlockStep ==
  ASSUME Inv, NEW a \in Account, NEW to \in Account, NEW amount \in Amount,
         amount > 0, amount <= position[a].held,
         position'[a].held = position[a].held - amount,
         \A b \in Account \ {a} : position'[b] = position[b],
         IF a = to THEN ledger' = ledger
         ELSE \A b \in Account : ledger'.balance[b]
                = IF b = a THEN ledger.balance[b] - amount
                  ELSE IF b = to THEN ledger.balance[b] + amount
                  ELSE ledger.balance[b]
  PROVE  Escrow!Next
<1>1. amount \in 1..MaxAmount
  BY ConstantsAssumption DEF Amount
<1>2. \A b \in Account : /\ ledger.balance[b] \in Nat
                         /\ position[b].held \in Nat
  BY MappingTyped
<1>3. amount <= Locked[a]
  BY DEF Locked
<1>4. Free' = [Free EXCEPT ![to] = @ + amount]
  <2>1. ASSUME NEW b \in Account
        PROVE  ledger'.balance[b] - position'[b].held
                 = IF b = to THEN Free[to] + amount ELSE Free[b]
    <3>1. CASE a = to
      BY <3>1, <1>1, <1>2 DEF Free
    <3>2. CASE a # to /\ b = a
      BY <3>2, <1>1, <1>2 DEF Free
    <3>3. CASE a # to /\ b # a
      BY <3>3, <1>1, <1>2 DEF Free
    <3> QED
      BY <3>1, <3>2, <3>3
  <2> QED
    BY <2>1 DEF Free
<1>5. Locked' = [Locked EXCEPT ![a] = @ - amount]
  BY DEF Locked
<1>6. Escrow!Unlock(a, to, amount)
  BY <1>3, <1>4, <1>5 DEF Escrow!Unlock, Free, Locked
<1> QED
  BY <1>1, <1>6 DEF Escrow!Next

\* Every hold instruction is a step of the escrow, or leaves it alone.
LEMMA HoldStep ==
  ASSUME Inv, Inv', HoldNext
  PROVE  Escrow!Next
<1>1. TypeOK
  BY DEF Inv
<1>2. ASSUME NEW a \in Account, NEW id \in HoldId, NEW amount \in Amount,
             NEW expiration \in Expiration, NEW escrow \in Actor,
             NEW destination \in Account \cup {NoPda},
             \/ CreateHold(a, id, amount, expiration, escrow, destination)
             \/ \E signer \in Actor :
                   ControllerCreateHold(signer, a, id, amount, expiration,
                                        escrow, destination)
      PROVE  Escrow!Next
  <2>1. /\ RecordNewHold(a, id, amount, expiration, escrow, destination)
        /\ ledger' = ledger
    BY <1>2 DEF CreateHold, ControllerCreateHold
  <2>2. amount > 0
    BY <2>1 DEF RecordNewHold
  <2>3. /\ position' \in [Account -> HoldPosition]
        /\ position'[a].held = position[a].held + amount
        /\ \A b \in Account \ {a} : position'[b] = position[b]
        /\ position[a].held + amount <= ledger.balance[a]
    BY <1>1, <2>1, RecordNewHoldEffect
  <2> QED
    BY <2>1, <2>2, <2>3, LockStep
<1>3. ASSUME NEW a \in Account, NEW id \in HoldId, NEW amount \in Amount,
             NEW status \in HoldStatus, ActiveHold(a, id),
             amount <= holds[a][id].current, ReduceLien(a, id, amount, status)
      PROVE  /\ amount <= position[a].held
             /\ position'[a].held = position[a].held - amount
             /\ \A b \in Account \ {a} : position'[b] = position[b]
  BY <1>1, <1>3, ReduceLienEffect DEF ReduceLien
<1>4. ASSUME NEW signer \in Actor, NEW a \in Account, NEW id \in HoldId,
             NEW to \in Account, NEW amount \in Amount,
             ExecuteHold(signer, a, id, to, amount)
      PROVE  Escrow!Next
  <2>1. /\ amount <= position[a].held
        /\ position'[a].held = position[a].held - amount
        /\ \A b \in Account \ {a} : position'[b] = position[b]
    BY <1>3, <1>4 DEF ExecuteHold, HoldStatus
  <2>2. ledger' = Moved(ledger, Transfer(a, to, amount)) /\ amount > 0
    BY <1>4 DEF ExecuteHold, HoldTransfer
  <2>3. CASE a = to
    <3>1. ledger' = ledger
      BY <2>2, <2>3 DEF Moved, Transfer
    <3> QED
      BY <2>1, <2>2, <2>3, <3>1, UnlockStep
  <2>4. CASE a # to
    <3>1. \A b \in Account : ledger'.balance[b]
                = IF b = a THEN ledger.balance[b] - amount
                  ELSE IF b = to THEN ledger.balance[b] + amount
                  ELSE ledger.balance[b]
      BY <2>2, <2>4 DEF Moved, Transfer
    <3> QED
      BY <2>1, <2>2, <2>4, <3>1, UnlockStep
  <2> QED
    BY <2>3, <2>4
<1>5. ASSUME NEW signer \in Actor, NEW a \in Account, NEW id \in HoldId,
             NEW amount \in Amount, ReleaseHold(signer, a, id, amount)
      PROVE  Escrow!Next
  <2>1. /\ amount <= position[a].held
        /\ position'[a].held = position[a].held - amount
        /\ \A b \in Account \ {a} : position'[b] = position[b]
    BY <1>3, <1>5 DEF ReleaseHold, HoldStatus
  <2>2. ledger' = ledger /\ amount > 0
    BY <1>5 DEF ReleaseHold
  <2> QED
    BY <2>1, <2>2, UnlockStep
<1>6. ASSUME NEW a \in Account, NEW id \in HoldId, ReclaimHold(a, id)
      PROVE  Escrow!Next
  <2> DEFINE amount == holds[a][id].current
  <2>1. amount \in Amount
    BY <1>1, <1>6 DEF ReclaimHold, ActiveHold, TypeOK, Hold
  <2>2. amount <= amount /\ amount >= 0 /\ amount \in Nat
    BY <2>1, ConstantsAssumption DEF Amount
  <2>3. /\ amount <= position[a].held
        /\ position'[a].held = position[a].held - amount
        /\ \A b \in Account \ {a} : position'[b] = position[b]
    BY <1>3, <1>6, <2>1, <2>2 DEF ReclaimHold, HoldStatus
  <2>4. ledger' = ledger
    BY <1>6 DEF ReclaimHold
  <2>5. CASE amount > 0
    <3> HIDE DEF amount
    <3> QED
      BY <2>1, <2>3, <2>4, <2>5, UnlockStep
  <2>6. CASE amount = 0
    <3>1. \A b \in Account : position'[b].held = position[b].held
      BY <2>3, <2>6, MappingTyped
    <3>2. Free' = Free /\ Locked' = Locked
      BY <2>4, <3>1 DEF Free, Locked
    <3>3. Free' \in [Account -> Amount]
      BY <3>2, MappingTyped
    <3>4. Escrow!Circulate
      BY <3>2, <3>3 DEF Escrow!Circulate, Escrow!Amount, Amount, Free, Locked
    <3> QED
      BY <3>4 DEF Escrow!Next
  <2> QED
    BY <2>2, <2>5, <2>6
<1> QED
  BY <1>2, <1>4, <1>5, <1>6 DEF HoldNext

\* Only the hold program writes positions and hold records.
LEMMA HoldsElsewhere ==
  ASSUME [Next]_vars, ~HoldNext
  PROVE  UNCHANGED <<position, holds>>
<1>1. TransferControlNext => UNCHANGED <<position, holds>>
  BY DEF TransferControlNext, InitializeMode, AddToControlList,
         RemoveFromControlList
<1>2. FreezeNext => UNCHANGED <<position, holds>>
  <2>1. \A kind, signer, leg :
           FreezeOne(kind, signer, leg) => UNCHANGED <<position, holds>>
    BY DEF FreezeOne
  <2>2. \A kind, signer, n, legs :
           FreezeBatch(kind, signer, n, legs) => UNCHANGED <<position, holds>>
    BY DEF FreezeBatch
  <2> QED
    BY <2>1, <2>2
       DEF FreezeNext, FreezeAccount, UnfreezeAccount, FreezeAccountPartial,
           UnfreezeAccountPartial, BatchFreezeAccount, BatchUnfreezeAccount,
           BatchFreezeAccountPartial, BatchUnfreezeAccountPartial
<1>3. TransferNext => UNCHANGED <<position, holds>>
  BY DEF TransferNext, WalletTransfer, BatchTransfer
<1>4. OperationsNext => UNCHANGED <<position, holds>>
  BY DEF OperationsNext, ControllerTransfer, BurnTokens, BatchBurn
<1>5. MintNext => UNCHANGED <<position, holds>>
  BY DEF MintNext, MintTokens, BatchMint, SetMaxSupply
<1>6. LifecycleNext => UNCHANGED <<position, holds>>
  BY DEF LifecycleNext, GrantRoles, RevokeRoles, PauseMint, UnpauseMint,
         Deactivate
<1>7. Tick \/ UNCHANGED vars => UNCHANGED <<position, holds>>
  BY DEF Tick, vars
<1> QED
  BY <1>1, <1>2, <1>3, <1>4, <1>5, <1>6, <1>7 DEF Next

\* The programs together implement an escrow in custody of the held tokens.
THEOREM LiensRefineCustody == Spec => LiensActAsCustody
<1>1. Init => Inv
  BY InvInit
<1>2. Inv /\ [Next]_vars => Inv'
  BY InvStep
<1>3. Init => Escrow!Init
  BY DEF Init, Escrow!Init
<1>4. Inv /\ Inv' /\ [Next]_vars => [Escrow!Next]_<<Free, Locked>>
  <2>1. Inv /\ Inv' /\ HoldNext => Escrow!Next
    BY HoldStep
  <2>2. Inv /\ Inv' /\ [Next]_vars /\ ~HoldNext => Escrow!Next
    BY HoldsElsewhere, CirculateStep DEF Escrow!Next
  <2> QED
    BY <2>1, <2>2
<1>5. Escrow!Spec <=> Escrow!Init /\ [][Escrow!Next]_<<Free, Locked>>
  BY DEF Escrow!Spec, Free, Locked
<1> QED
  BY <1>1, <1>2, <1>3, <1>4, <1>5, PTL DEF Spec, LiensActAsCustody

-----------------------------------------------------------------------------
(***************************************************************************)
(* The records.  A hold instruction appends one record or takes something  *)
(* off the claim of one.                                                   *)
(***************************************************************************)

\* The other records and the other accounts' positions are left alone.
OnlyHold(a, id) ==
    /\ \A b \in Account \ {a} : /\ position'[b] = position[b]
                                /\ holds'[b] = holds[b]
    /\ \A j \in HoldId \ {id} : holds'[a][j] = holds[a][j]

Appended(a, id) ==
    /\ id = position[a].count + 1
    /\ holds[a][id] = NoPda
    /\ holds'[a][id] # NoPda
    /\ holds'[a][id].status = "Active"
    /\ holds'[a][id].current \in Amount
    /\ holds'[a][id].current > 0
    /\ position'[a].held = position[a].held + holds'[a][id].current
    /\ position'[a].count = id
    /\ ledger' = ledger
    /\ OnlyHold(a, id)

Reduced(a, id, amount) ==
    /\ ActiveHold(a, id)
    /\ holds[a][id].current \in Amount
    /\ amount <= holds[a][id].current
    /\ holds'[a][id] # NoPda
    /\ holds'[a][id].escrow = holds[a][id].escrow
    /\ holds'[a][id].destination = holds[a][id].destination
    /\ holds'[a][id].expiration = holds[a][id].expiration
    /\ holds'[a][id].current = holds[a][id].current - amount
    /\ (holds'[a][id].status = "Active") <=> (holds'[a][id].current # 0)
    /\ position'[a].held = position[a].held - amount
    /\ position'[a].count = position[a].count
    /\ OnlyHold(a, id)

\* An execution moves what it takes off the claim, before the expiration.
Paid(a, id, amount) ==
    \E to \in Account :
        /\ now < holds[a][id].expiration
        /\ holds[a][id].destination \in {NoPda, to}
        /\ ledger' = Moved(ledger, Transfer(a, to, amount))

\* record_new_hold appends.
LEMMA RecordAppends ==
  ASSUME TypeOK, NEW a \in Account, NEW id \in HoldId, NEW amount \in Amount,
         NEW expiration \in Expiration, NEW escrow \in Actor,
         NEW destination \in Account \cup {NoPda}, ledger' = ledger,
         RecordNewHold(a, id, amount, expiration, escrow, destination)
  PROVE  Appended(a, id)
<1> DEFINE hold == [escrow      |-> escrow,
                    destination |-> destination,
                    current     |-> amount,
                    expiration  |-> expiration,
                    status      |-> "Active"]
           pos == [held |-> position[a].held + amount, count |-> id]
<1>1. /\ position \in [Account -> HoldPosition]
      /\ holds \in [Account -> [HoldId -> Hold \cup {NoPda}]]
  BY DEF TypeOK
<1>2. /\ position' = [position EXCEPT ![a] = pos]
      /\ holds' = [holds EXCEPT ![a] = [holds[a] EXCEPT ![id] = hold]]
      /\ id = position[a].count + 1
      /\ holds[a][id] = NoPda
      /\ amount > 0
  BY <1>1 DEF RecordNewHold
<1>3. holds'[a][id] = hold /\ position'[a] = pos
  BY <1>1, <1>2
<1>4. OnlyHold(a, id)
  <2> HIDE DEF hold, pos
  <2> QED
    BY <1>1, <1>2 DEF OnlyHold
<1>5. hold # NoPda
  <2>1. hold \in Hold
    BY ExpirationAssumption DEF Hold, HoldStatus
  <2> QED
    BY <2>1, NoPdaIsNoHold
<1> QED
  BY <1>2, <1>3, <1>4, <1>5 DEF Appended

\* The reduction of a lien.
LEMMA LienReduced ==
  ASSUME TypeOK, NEW a \in Account, NEW id \in HoldId, NEW amount \in Amount,
         NEW status \in HoldStatus \ {"Active"}, ActiveHold(a, id),
         amount <= holds[a][id].current, ReduceLien(a, id, amount, status)
  PROVE  Reduced(a, id, amount)
<1> DEFINE left == holds[a][id].current - amount
           pos == [position[a] EXCEPT !.held = @ - amount]
           hold == [holds[a][id] EXCEPT
                      !.current = left,
                      !.status  = IF left = 0 THEN status ELSE @]
<1>1. /\ position \in [Account -> HoldPosition]
      /\ holds \in [Account -> [HoldId -> Hold \cup {NoPda}]]
      /\ position[a] \in HoldPosition
      /\ holds[a][id] \in Hold
      /\ holds[a][id].status = "Active"
  BY DEF TypeOK, ActiveHold
<1>2. /\ position' = [position EXCEPT ![a] = pos]
      /\ holds' = [holds EXCEPT ![a] = [holds[a] EXCEPT ![id] = hold]]
  BY <1>1 DEF ReduceLien
<1>3. /\ pos.held = position[a].held - amount
      /\ pos.count = position[a].count
  BY <1>1 DEF HoldPosition
<1>4. /\ hold.escrow = holds[a][id].escrow
      /\ hold.destination = holds[a][id].destination
      /\ hold.expiration = holds[a][id].expiration
      /\ hold.current = holds[a][id].current - amount
      /\ (hold.status = "Active") <=> (hold.current # 0)
  BY <1>1 DEF Hold
<1>5. holds'[a][id] = hold /\ position'[a] = pos
  <2> HIDE DEF hold, pos
  <2> QED
    BY <1>1, <1>2
<1>6. OnlyHold(a, id)
  <2> HIDE DEF hold, pos
  <2> QED
    BY <1>1, <1>2 DEF OnlyHold
<1>7. holds[a][id].current \in Amount /\ left \in Amount
  BY <1>1, ConstantsAssumption DEF Hold, Amount
<1>8. hold \in Hold
  <2> HIDE DEF left
  <2> QED
    BY <1>1, <1>7 DEF Hold
<1>9. hold # NoPda
  BY <1>8, NoPdaIsNoHold
<1> HIDE DEF hold, pos
<1> QED
  BY <1>3, <1>4, <1>5, <1>6, <1>7, <1>9 DEF Reduced

\* What the hold program does to the records.
LEMMA HoldEffect ==
  ASSUME TypeOK, HoldNext
  PROVE  \E a \in Account, id \in HoldId :
            \/ Appended(a, id)
            \/ \E amount \in Amount :
                  /\ Reduced(a, id, amount)
                  /\ ledger' = ledger \/ Paid(a, id, amount)
<1> DEFINE Goal == \E a \in Account, id \in HoldId :
                      \/ Appended(a, id)
                      \/ \E amount \in Amount :
                            /\ Reduced(a, id, amount)
                            /\ ledger' = ledger \/ Paid(a, id, amount)
<1>1. ASSUME NEW a \in Account, NEW id \in HoldId, NEW amount \in Amount,
             NEW expiration \in Expiration, NEW escrow \in Actor,
             NEW destination \in Account \cup {NoPda},
             \/ CreateHold(a, id, amount, expiration, escrow, destination)
             \/ \E signer \in Actor :
                   ControllerCreateHold(signer, a, id, amount, expiration,
                                        escrow, destination)
      PROVE  Goal
  <2>1. /\ RecordNewHold(a, id, amount, expiration, escrow, destination)
        /\ ledger' = ledger
    BY <1>1 DEF CreateHold, ControllerCreateHold
  <2>2. Appended(a, id)
    BY <2>1, RecordAppends
  <2> QED
    BY <2>2
<1>2. "Closed" \in HoldStatus \ {"Active"} /\ "Expired" \in HoldStatus \ {"Active"}
  BY DEF HoldStatus
<1>3. ASSUME NEW signer \in Actor, NEW a \in Account, NEW id \in HoldId,
             NEW to \in Account, NEW amount \in Amount,
             ExecuteHold(signer, a, id, to, amount)
      PROVE  Goal
  <2>1. Reduced(a, id, amount)
    BY <1>2, <1>3, LienReduced DEF ExecuteHold
  <2>2. Paid(a, id, amount)
    BY <1>3 DEF ExecuteHold, HoldTransfer, Paid
  <2> QED
    BY <2>1, <2>2
<1>4. ASSUME NEW signer \in Actor, NEW a \in Account, NEW id \in HoldId,
             NEW amount \in Amount, ReleaseHold(signer, a, id, amount)
      PROVE  Goal
  <2>1. Reduced(a, id, amount) /\ ledger' = ledger
    BY <1>2, <1>4, LienReduced DEF ReleaseHold
  <2> QED
    BY <2>1
<1>5. ASSUME NEW a \in Account, NEW id \in HoldId, ReclaimHold(a, id)
      PROVE  Goal
  <2> DEFINE amount == holds[a][id].current
  <2>1. amount \in Amount
    BY <1>5 DEF ReclaimHold, ActiveHold, TypeOK, Hold
  <2>2. amount <= amount
    BY <2>1, ConstantsAssumption DEF Amount
  <2>3. Reduced(a, id, amount) /\ ledger' = ledger
    BY <1>2, <1>5, <2>1, <2>2, LienReduced DEF ReclaimHold
  <2> HIDE DEF amount
  <2> QED
    BY <2>1, <2>3
<1> HIDE DEF Goal
<1>6. Goal
  BY <1>1, <1>3, <1>4, <1>5, ZenonT(60) DEF HoldNext
<1> QED
  BY <1>6 DEF Goal

\* What a record claims, and the claims of the records of an account.
ClaimOf(r) == IF r # NoPda /\ r.status = "Active" THEN r.current ELSE 0

ClaimsOf(records) == [id \in HoldId |-> ClaimOf(records[id])]

\* The accumulator, before and after a step.
LEMMA HeldIsSum ==
  /\ \A a, id : /\ Claim(a, id) = ClaimOf(holds[a][id])
               /\ Claim(a, id)' = ClaimOf(holds'[a][id])
  /\ HeldIsSumOfActiveHolds <=> \A a \in Account :
        position[a].held = SumFunctionOnSet(ClaimsOf(holds[a]), HoldId)
  /\ HeldIsSumOfActiveHolds' <=> \A a \in Account :
        position'[a].held = SumFunctionOnSet(ClaimsOf(holds'[a]), HoldId)
BY DEF Claim, ActiveHold, ClaimOf, ClaimsOf, HeldIsSumOfActiveHolds

\* Hold ids are finitely many and every claim is an amount.
LEMMA ClaimsTyped ==
  ASSUME NEW records \in [HoldId -> Hold \cup {NoPda}]
  PROVE  /\ IsFiniteSet(HoldId)
         /\ \A id \in HoldId : /\ ClaimsOf(records)[id] = ClaimOf(records[id])
                               /\ ClaimOf(records[id]) \in Nat
<1>1. IsFiniteSet(HoldId)
  BY ConstantsAssumption, FS_Interval DEF HoldId
<1>2. ASSUME NEW id \in HoldId PROVE ClaimOf(records[id]) \in Nat
  BY ConstantsAssumption DEF ClaimOf, Hold, Amount
<1> QED
  BY <1>1, <1>2 DEF ClaimsOf

\* When one claim of one account changes, the sum of its claims follows.
LEMMA ClaimChanges ==
  ASSUME TypeOK, TypeOK', HeldIsSumOfActiveHolds,
         NEW a \in Account, NEW id \in HoldId, OnlyHold(a, id),
         position'[a].held = position[a].held - ClaimOf(holds[a][id])
                               + ClaimOf(holds'[a][id])
  PROVE  HeldIsSumOfActiveHolds'
<1> DEFINE f == ClaimsOf(holds[a])
           g == ClaimsOf(holds'[a])
<1>1. /\ holds[a] \in [HoldId -> Hold \cup {NoPda}]
      /\ holds'[a] \in [HoldId -> Hold \cup {NoPda}]
  BY DEF TypeOK
<1>2. /\ IsFiniteSet(HoldId)
      /\ \A j \in HoldId : /\ f[j] = ClaimOf(holds[a][j])
                           /\ f[j] \in Nat
                           /\ g[j] = ClaimOf(holds'[a][j])
                           /\ g[j] \in Nat
  BY <1>1, ClaimsTyped
<1>3. \A j \in HoldId \ {id} : g[j] = f[j]
  BY <1>2 DEF OnlyHold
<1>4. f[id] = ClaimOf(holds[a][id]) /\ g[id] = ClaimOf(holds'[a][id])
  BY <1>2
<1>5. position[a].held = SumFunctionOnSet(f, HoldId)
  BY HeldIsSum
<1>6. \A j \in HoldId : f[j] \in Int /\ g[j] \in Int
  BY <1>2
<1>7. SumFunctionOnSet(g, HoldId) = SumFunctionOnSet(f, HoldId) - f[id] + g[id]
  <2> HIDE DEF f, g
  <2> QED
    BY <1>2, <1>3, <1>6, SumUpdate
<1>8. position'[a].held = SumFunctionOnSet(g, HoldId)
  BY <1>4, <1>5, <1>7
<1>9. \A b \in Account \ {a} :
         position'[b].held = SumFunctionOnSet(ClaimsOf(holds'[b]), HoldId)
  BY HeldIsSum DEF OnlyHold
<1> QED
  BY <1>8, <1>9, HeldIsSum

\* The inductive invariant of the records.
RecordsInv == Inv /\ HoldRecordsConsistent /\ HeldIsSumOfActiveHolds

\* A hold instruction keeps the records and the accumulator in step.
LEMMA HoldKeepsRecords ==
  ASSUME RecordsInv, Inv', HoldNext
  PROVE  RecordsInv'
<1>1. TypeOK /\ TypeOK' /\ HoldRecordsConsistent /\ HeldIsSumOfActiveHolds
  BY DEF RecordsInv, Inv
<1>2. \A a \in Account : /\ position[a].held \in Nat
                        /\ position[a].count \in Nat
  BY <1>1, ConstantsAssumption DEF TypeOK, HoldPosition, Amount
<1>3. \A a \in Account, id \in HoldId : id \in Nat
  BY ConstantsAssumption DEF HoldId
<1>4. ASSUME NEW a \in Account, NEW id \in HoldId, Appended(a, id)
      PROVE  RecordsInv'
  <2>1. holds'[a][id].current \in Nat
    BY <1>4, ConstantsAssumption DEF Appended, Amount
  <2>2. /\ ClaimOf(holds[a][id]) = 0
        /\ ClaimOf(holds'[a][id]) = holds'[a][id].current
    BY <1>4 DEF Appended, ClaimOf
  <2>3. position'[a].held = position[a].held - ClaimOf(holds[a][id])
                              + ClaimOf(holds'[a][id])
    BY <1>2, <1>4, <2>1, <2>2 DEF Appended
  <2>4. HeldIsSumOfActiveHolds'
    BY <1>1, <1>4, <2>3, ClaimChanges DEF Appended
  <2>5. ASSUME NEW b \in Account, NEW j \in HoldId
        PROVE  /\ (holds'[b][j] = NoPda) <=> (j > position'[b].count)
               /\ holds'[b][j] # NoPda =>
                    (holds'[b][j].status = "Active" <=> holds'[b][j].current > 0)
    <3>1. CASE b # a
      BY <1>1, <1>4, <3>1 DEF Appended, OnlyHold, HoldRecordsConsistent
    <3>2. CASE b = a /\ j # id
      BY <1>1, <1>2, <1>3, <1>4, <3>2
         DEF Appended, OnlyHold, HoldRecordsConsistent
    <3>3. CASE b = a /\ j = id
      BY <1>3, <1>4, <3>3 DEF Appended
    <3> QED
      BY <3>1, <3>2, <3>3
  <2> QED
    BY <2>4, <2>5 DEF RecordsInv, HoldRecordsConsistent
<1>5. ASSUME NEW a \in Account, NEW id \in HoldId, NEW amount \in Amount,
             Reduced(a, id, amount)
      PROVE  RecordsInv'
  <2>1. /\ holds[a][id].current \in Nat
        /\ amount \in Nat
        /\ holds'[a][id].current \in Nat
        /\ holds'[a][id].current = holds[a][id].current - amount
    BY <1>5, ConstantsAssumption DEF Reduced, Amount
  <2>2. /\ ClaimOf(holds[a][id]) = holds[a][id].current
        /\ ClaimOf(holds'[a][id]) = holds'[a][id].current
    BY <1>5 DEF Reduced, ClaimOf, ActiveHold
  <2>3. position'[a].held = position[a].held - ClaimOf(holds[a][id])
                              + ClaimOf(holds'[a][id])
    <3>1. position'[a].held = position[a].held - amount
      BY <1>5 DEF Reduced
    <3> QED
      BY <1>2, <2>1, <2>2, <3>1
  <2>4. HeldIsSumOfActiveHolds'
    BY <1>1, <1>5, <2>3, ClaimChanges DEF Reduced
  <2>5. ASSUME NEW b \in Account, NEW j \in HoldId
        PROVE  /\ (holds'[b][j] = NoPda) <=> (j > position'[b].count)
               /\ holds'[b][j] # NoPda =>
                    (holds'[b][j].status = "Active" <=> holds'[b][j].current > 0)
    <3>1. CASE b # a
      BY <1>1, <1>5, <3>1 DEF Reduced, OnlyHold, HoldRecordsConsistent
    <3>2. CASE b = a /\ j # id
      BY <1>1, <1>5, <3>2 DEF Reduced, OnlyHold, HoldRecordsConsistent
    <3>3. CASE b = a /\ j = id
      BY <1>1, <1>5, <2>1, <3>3
         DEF Reduced, ActiveHold, HoldRecordsConsistent
    <3> QED
      BY <3>1, <3>2, <3>3
  <2> QED
    BY <2>4, <2>5 DEF RecordsInv, HoldRecordsConsistent
<1> QED
  BY <1>1, <1>4, <1>5, HoldEffect

\* So does every other instruction: it touches neither.
LEMMA RecordsStep ==
  ASSUME RecordsInv, [Next]_vars
  PROVE  RecordsInv'
<1>1. Inv'
  BY InvStep DEF RecordsInv
<1>2. CASE HoldNext
  BY <1>1, <1>2, HoldKeepsRecords
<1>3. CASE ~HoldNext
  <2>1. UNCHANGED <<position, holds>>
    BY <1>3, HoldsElsewhere
  <2>2. HoldRecordsConsistent'
    BY <2>1 DEF RecordsInv, HoldRecordsConsistent
  <2>3. HeldIsSumOfActiveHolds'
    BY <2>1, HeldIsSum DEF RecordsInv
  <2> QED
    BY <1>1, <2>2, <2>3 DEF RecordsInv
<1> QED
  BY <1>2, <1>3

\* A mint straight after deployment has no holds.
LEMMA RecordsInit ==
  ASSUME Init
  PROVE  RecordsInv
<1>1. Inv
  BY InvInit
<1>2. HoldRecordsConsistent
  <2>1. \A id \in HoldId : id > 0
    BY ConstantsAssumption DEF HoldId
  <2> QED
    BY <2>1 DEF Init, HoldRecordsConsistent
<1>3. ASSUME NEW a \in Account
      PROVE  position[a].held = SumFunctionOnSet(ClaimsOf(holds[a]), HoldId)
  <2>1. IsFiniteSet(HoldId)
    BY ConstantsAssumption, FS_Interval DEF HoldId
  <2>2. \A id \in HoldId : ClaimsOf(holds[a])[id] = 0
    BY DEF Init, ClaimsOf, ClaimOf
  <2>3. SumFunctionOnSet(ClaimsOf(holds[a]), HoldId) = 0
    BY <2>1, <2>2, SumZero
  <2> QED
    BY <2>3 DEF Init
<1> QED
  BY <1>1, <1>2, <1>3, HeldIsSum DEF RecordsInv

\* The records' invariant holds in every reachable state.
LEMMA RecordsInvariant == Spec => []RecordsInv
<1>1. Init => RecordsInv
  BY RecordsInit
<1>2. RecordsInv /\ [Next]_vars => RecordsInv'
  BY RecordsStep
<1> QED
  BY <1>1, <1>2, PTL DEF Spec

\* The accumulator the transfer hook reads never drifts from the claims of
\* the active holds, however many holds there are and in whatever order they
\* are created, executed, released and reclaimed.
THEOREM AccumulatorNeverDrifts == Spec => []HeldIsSumOfActiveHolds
<1>1. RecordsInv => HeldIsSumOfActiveHolds
  BY DEF RecordsInv
<1> QED
  BY <1>1, RecordsInvariant, PTL

\* Hold ids are handed out without gap or reuse, and a record is active
\* exactly while it claims something.
THEOREM RecordsStayConsistent == Spec => []HoldRecordsConsistent
<1>1. RecordsInv => HoldRecordsConsistent
  BY DEF RecordsInv
<1> QED
  BY <1>1, RecordsInvariant, PTL

\* One claim is at most what is held on its account, and it claims something.
LEMMA ClaimWithinHeld ==
  ASSUME RecordsInv, NEW a \in Account, NEW id \in HoldId, ActiveHold(a, id)
  PROVE  /\ holds[a][id].current \in Nat
         /\ holds[a][id].current > 0
         /\ position[a].held \in Nat
         /\ holds[a][id].current <= position[a].held
<1> DEFINE f == ClaimsOf(holds[a])
<1>1. /\ holds[a] \in [HoldId -> Hold \cup {NoPda}]
      /\ holds[a][id] \in Hold
      /\ position[a].held \in Amount
  BY DEF RecordsInv, Inv, TypeOK, HoldPosition, ActiveHold
<1>2. holds[a][id].current \in Nat /\ position[a].held \in Nat
  BY <1>1, ConstantsAssumption DEF Hold, Amount
<1>3. holds[a][id].current > 0
  BY DEF RecordsInv, HoldRecordsConsistent, ActiveHold
<1>4. f[id] = holds[a][id].current
  BY <1>1, ClaimsTyped DEF ActiveHold, ClaimOf
<1>5. IsFiniteSet(HoldId) /\ \A j \in HoldId : f[j] \in Nat
  BY <1>1, ClaimsTyped
<1>6. position[a].held = SumFunctionOnSet(f, HoldId)
  BY HeldIsSum DEF RecordsInv
<1>7. f[id] <= SumFunctionOnSet(f, HoldId)
  <2> HIDE DEF f
  <2> QED
    BY <1>5, SumMember
<1> QED
  BY <1>2, <1>3, <1>4, <1>6, <1>7

\* As long as its account is not frozen, execute_hold's balance check lets
\* every active hold be executed in full: one claim is at most the sum of
\* them, and the sum is covered by the balance.
THEOREM UnfrozenStaysExecutable == Spec => []UnfrozenHoldsExecutable
<1>1. RecordsInv => UnfrozenHoldsExecutable
  <2> SUFFICES ASSUME RecordsInv, NEW a \in Account, NEW id \in HoldId,
                      ActiveHold(a, id), freezeState[a] = Unfrozen
               PROVE  SourceCovers(a, holds[a][id].current)
    BY DEF UnfrozenHoldsExecutable
  <2>1. /\ holds[a] \in [HoldId -> Hold \cup {NoPda}]
        /\ holds[a][id] \in Hold
        /\ position[a].held \in Amount
        /\ ledger.balance[a] \in Amount
        /\ position[a].held <= ledger.balance[a]
    BY DEF RecordsInv, Inv, TypeOK, LienCovered, HoldPosition, Ledger,
           ActiveHold
  <2>2. holds[a][id].current \in Nat /\ holds[a][id].current <= position[a].held
    BY ClaimWithinHeld
  <2>4. freezeState[a].fully = FALSE /\ freezeState[a].frozen = 0
    BY DEF Unfrozen
  <2> QED
    BY <2>1, <2>2, <2>4, ConstantsAssumption
       DEF SourceCovers, RequireLockedBalanceCovered, Amount
<1> QED
  BY <1>1, RecordsInvariant, PTL

-----------------------------------------------------------------------------
(***************************************************************************)
(* What a step may do to a hold.                                           *)
(***************************************************************************)

\* A record's terms are fixed when it is written, its claim only shrinks, and
\* a resolved record is never written again, whichever instruction runs.
THEOREM TermsNeverChange == Spec => HoldsOnlyShrink
<1> DEFINE Shrinks(b, j) ==
             holds[b][j] # NoPda =>
                /\ holds'[b][j] # NoPda
                /\ holds'[b][j].escrow = holds[b][j].escrow
                /\ holds'[b][j].destination = holds[b][j].destination
                /\ holds'[b][j].expiration = holds[b][j].expiration
                /\ holds'[b][j].current <= holds[b][j].current
                /\ holds[b][j].status # "Active" => holds'[b][j] = holds[b][j]
           Step == \A b \in Account, j \in HoldId : Shrinks(b, j)
<1>1. RecordsInv /\ [Next]_vars => Step
  <2> SUFFICES ASSUME RecordsInv, [Next]_vars,
                      NEW b \in Account, NEW j \in HoldId
               PROVE  Shrinks(b, j)
    OBVIOUS
  <2>1. TypeOK
    BY DEF RecordsInv, Inv
  <2>2. holds[b][j] # NoPda => holds[b][j].current \in Nat
    <3>1. holds[b][j] \in Hold \cup {NoPda}
      BY <2>1 DEF TypeOK
    <3> QED
      BY <3>1, ConstantsAssumption DEF Hold, Amount
  <2>3. CASE holds'[b][j] = holds[b][j]
    BY <2>2, <2>3
  <2>4. ASSUME NEW a \in Account, NEW id \in HoldId,
               \/ Appended(a, id)
               \/ \E amount \in Amount : Reduced(a, id, amount)
        PROVE  Shrinks(b, j)
    <3>1. CASE b # a \/ j # id
      BY <2>3, <2>4, <3>1 DEF Appended, Reduced, OnlyHold
    <3>2. CASE b = a /\ j = id /\ Appended(a, id)
      BY <3>2 DEF Appended
    <3>3. ASSUME b = a, j = id, NEW amount \in Amount, Reduced(a, id, amount)
          PROVE  Shrinks(b, j)
      <4>1. amount \in Nat
        BY ConstantsAssumption DEF Amount
      <4> QED
        BY <2>2, <3>3, <4>1 DEF Reduced, ActiveHold
    <3> QED
      BY <2>4, <3>1, <3>2, <3>3
  <2>5. CASE HoldNext
    BY <2>1, <2>4, <2>5, HoldEffect
  <2>6. CASE ~HoldNext
    BY <2>3, <2>6, HoldsElsewhere
  <2> QED
    BY <2>5, <2>6
<1>2. RecordsInv /\ [Next]_vars =>
        [\A a \in Account, id \in HoldId :
           holds[a][id] # NoPda =>
              /\ holds'[a][id] # NoPda
              /\ holds'[a][id].escrow = holds[a][id].escrow
              /\ holds'[a][id].destination = holds[a][id].destination
              /\ holds'[a][id].expiration = holds[a][id].expiration
              /\ holds'[a][id].current <= holds[a][id].current
              /\ holds[a][id].status # "Active" => holds'[a][id] = holds[a][id]
        ]_vars
  BY <1>1
<1> QED
  BY <1>2, RecordsInvariant, PTL DEF Spec, HoldsOnlyShrink

\* When tokens move and a claim shrinks, the hold was executed: before its
\* expiration, for exactly what the claim lost, to the destination it names.
THEOREM ExecutionsPayTheirClaim == Spec => ExecutionPaysTheClaim
<1> DEFINE Pays(b, j) ==
             (Claim(b, j)' < Claim(b, j) /\ ledger' # ledger) =>
                LET paid == Claim(b, j) - Claim(b, j)'
                    to   == holds[b][j].destination
                IN  /\ now < holds[b][j].expiration
                    /\ ledger'.balance[b] = ledger.balance[b] - paid
                    /\ to # NoPda =>
                         ledger'.balance[to] = ledger.balance[to] + paid
           Step == \A b \in Account, j \in HoldId : Pays(b, j)
<1>1. RecordsInv /\ [Next]_vars => Step
  <2> SUFFICES ASSUME RecordsInv, [Next]_vars,
                      NEW b \in Account, NEW j \in HoldId,
                      Claim(b, j)' < Claim(b, j), ledger' # ledger
               PROVE  LET paid == Claim(b, j) - Claim(b, j)'
                          to   == holds[b][j].destination
                      IN  /\ now < holds[b][j].expiration
                          /\ ledger'.balance[b] = ledger.balance[b] - paid
                          /\ to # NoPda =>
                               ledger'.balance[to] = ledger.balance[to] + paid
    OBVIOUS
  <2>1. TypeOK
    BY DEF RecordsInv, Inv
  <2>2. /\ Claim(b, j) = ClaimOf(holds[b][j])
        /\ Claim(b, j)' = ClaimOf(holds'[b][j])
    BY HeldIsSum
  <2>3. ClaimOf(holds[b][j]) \in Nat
    <3>1. holds[b] \in [HoldId -> Hold \cup {NoPda}]
      BY <2>1 DEF TypeOK
    <3> QED
      BY <3>1, ClaimsTyped
  <2>4. holds'[b][j] # holds[b][j]
    BY <2>2, <2>3
  <2>5. HoldNext
    BY <2>4, HoldsElsewhere
  <2>6. PICK a \in Account, id \in HoldId :
               \/ Appended(a, id)
               \/ \E amount \in Amount : /\ Reduced(a, id, amount)
                                         /\ ledger' = ledger \/ Paid(a, id, amount)
    BY <2>1, <2>5, HoldEffect
  <2>7. PICK amount \in Amount : Reduced(a, id, amount) /\ Paid(a, id, amount)
    BY <2>6 DEF Appended
  <2>8. b = a /\ j = id
    BY <2>4, <2>7 DEF Reduced, OnlyHold
  <2>9. PICK to \in Account :
               /\ now < holds[a][id].expiration
               /\ holds[a][id].destination \in {NoPda, to}
               /\ ledger' = Moved(ledger, Transfer(a, to, amount))
    BY <2>7 DEF Paid
  <2>10. a # to
    BY <2>9 DEF Moved, Transfer
  <2>11. /\ ledger'.balance[a] = ledger.balance[a] - amount
         /\ ledger'.balance[to] = ledger.balance[to] + amount
    BY <2>9, <2>10 DEF Moved, Transfer
  <2>12. Claim(b, j) - Claim(b, j)' = amount
    <3>1. /\ holds[a][id].current \in Nat
          /\ amount \in Nat
          /\ holds'[a][id].current = holds[a][id].current - amount
      BY <2>7, ConstantsAssumption DEF Reduced, Amount
    <3>2. /\ ClaimOf(holds[a][id]) = holds[a][id].current
          /\ ClaimOf(holds'[a][id]) = holds'[a][id].current
      BY <2>7 DEF Reduced, ClaimOf, ActiveHold
    <3> QED
      BY <2>2, <2>8, <3>1, <3>2
  <2> QED
    BY <2>8, <2>9, <2>11, <2>12
<1>2. RecordsInv /\ [Next]_vars =>
        [\A a \in Account, id \in HoldId :
           (Claim(a, id)' < Claim(a, id) /\ ledger' # ledger) =>
              LET paid == Claim(a, id) - Claim(a, id)'
                  to   == holds[a][id].destination
              IN  /\ now < holds[a][id].expiration
                  /\ ledger'.balance[a] = ledger.balance[a] - paid
                  /\ to # NoPda => ledger'.balance[to] = ledger.balance[to] + paid
        ]_vars
  BY <1>1
<1> QED
  BY <1>2, RecordsInvariant, PTL DEF Spec, ExecutionPaysTheClaim

-----------------------------------------------------------------------------
(***************************************************************************)
(* No lien is stranded.                                                    *)
(***************************************************************************)

\* All that reclaim_hold asks of an active hold besides its expiration, and
\* release_hold besides the signature of the escrow: the functionality, and
\* that its checked subtraction succeeds.
HoldsStayResolvable ==
    \A a \in Account, id \in HoldId :
        ActiveHold(a, id) =>
            /\ RequireFunctionality("HOLD_CREATE_HOLD")
            /\ holds[a][id].current > 0
            /\ holds[a][id].current <= position[a].held

\* Reclaiming a hold, or releasing all it claims, resolves it.
ResolutionIsComplete ==
    [][\A a \in Account, id \in HoldId :
          (\/ ReclaimHold(a, id)
           \/ \E signer \in Actor :
                 ReleaseHold(signer, a, id, holds[a][id].current))
             => ~ActiveHold(a, id)'
      ]_vars

\* Where there is a hold the asset class offers holds.
HoldsOffered ==
    \A a \in Account, id \in HoldId :
        ActiveHold(a, id) => RequireFunctionality("HOLD_CREATE_HOLD")

\* Every instruction of hold asks for the functionality.
LEMMA HoldsOfferedStep ==
  ASSUME HoldsOffered, [Next]_vars
  PROVE  HoldsOffered'
<1>1. CASE HoldNext
  <2>1. RequireFunctionality("HOLD_CREATE_HOLD")
    <3> DEFINE R == RequireFunctionality("HOLD_CREATE_HOLD")
    <3>1. ASSUME NEW a, NEW id, NEW amount, NEW expiration, NEW escrow,
                 NEW destination,
                 \/ CreateHold(a, id, amount, expiration, escrow, destination)
                 \/ \E signer \in Actor :
                       ControllerCreateHold(signer, a, id, amount, expiration,
                                            escrow, destination)
          PROVE  R
      BY <3>1 DEF CreateHold, ControllerCreateHold, HoldGate
    <3>2. ASSUME NEW a, NEW id, NEW signer, NEW amount,
                 \/ \E to \in Account : ExecuteHold(signer, a, id, to, amount)
                 \/ ReleaseHold(signer, a, id, amount)
          PROVE  R
      BY <3>2 DEF ExecuteHold, ReleaseHold, HoldGate
    <3>3. ASSUME NEW a, NEW id, ReclaimHold(a, id) PROVE R
      BY <3>3 DEF ReclaimHold
    <3> HIDE DEF R
    <3>4. R
      BY <1>1, <3>1, <3>2, <3>3 DEF HoldNext
    <3> QED
      BY <3>4 DEF R
  <2>2. RequireFunctionality("HOLD_CREATE_HOLD")'
    BY <2>1 DEF RequireFunctionality
  <2> QED
    BY <2>2 DEF HoldsOffered
<1>2. CASE ~HoldNext
  <2>1. UNCHANGED <<position, holds>>
    BY <1>2, HoldsElsewhere
  <2> QED
    BY <2>1 DEF HoldsOffered, RequireFunctionality, ActiveHold
<1> QED
  BY <1>1, <1>2

\* The safety half of HoldsResolve.  An expired hold can always be reclaimed,
\* and its escrow can always release one: whatever is paused, deactivated,
\* frozen, seized or burned meanwhile, the accumulator is never too small for
\* the subtraction, and one such instruction is enough.
THEOREM NoLienStranded == Spec => []HoldsStayResolvable /\ ResolutionIsComplete
<1>1. Init => HoldsOffered
  BY DEF Init, HoldsOffered, ActiveHold
<1>2. HoldsOffered /\ [Next]_vars => HoldsOffered'
  BY HoldsOfferedStep
<1>3. RecordsInv /\ HoldsOffered => HoldsStayResolvable
  BY ClaimWithinHeld DEF HoldsStayResolvable, HoldsOffered
<1>4. ASSUME RecordsInv, NEW a \in Account, NEW id \in HoldId,
             \/ ReclaimHold(a, id)
             \/ \E signer \in Actor :
                   ReleaseHold(signer, a, id, holds[a][id].current)
      PROVE  ~ActiveHold(a, id)'
  <2>1. /\ ActiveHold(a, id)
        /\ \E s \in {"Closed", "Expired"} :
              ReduceLien(a, id, holds[a][id].current, s)
    <3>1. CASE ReclaimHold(a, id)
      BY <3>1 DEF ReclaimHold
    <3>2. CASE \E signer \in Actor :
                  ReleaseHold(signer, a, id, holds[a][id].current)
      BY <3>2 DEF ReleaseHold
    <3> QED
      BY <1>4, <3>1, <3>2
  <2>2. holds[a][id].current - holds[a][id].current = 0
    BY <1>4, <2>1, ClaimWithinHeld
  <2>3. /\ holds \in [Account -> [HoldId -> Hold \cup {NoPda}]]
        /\ holds[a][id] \in Hold
    BY <1>4, <2>1 DEF RecordsInv, Inv, TypeOK, ActiveHold
  <2>4. holds'[a][id].status \in {"Closed", "Expired"}
    BY <2>1, <2>2, <2>3 DEF ReduceLien, Hold
  <2> QED
    BY <2>4 DEF ActiveHold
<1>5. RecordsInv =>
        [\A a \in Account, id \in HoldId :
            (\/ ReclaimHold(a, id)
             \/ \E signer \in Actor :
                   ReleaseHold(signer, a, id, holds[a][id].current))
               => ~ActiveHold(a, id)'
        ]_vars
  BY <1>4
<1>6. Spec => []RecordsInv
  BY RecordsInvariant
<1> QED
  BY <1>1, <1>2, <1>3, <1>5, <1>6, PTL DEF Spec, ResolutionIsComplete

=============================================================================
