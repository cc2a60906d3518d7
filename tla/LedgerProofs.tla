---------------------------- MODULE LedgerProofs ----------------------------
(***************************************************************************)
(* What may happen to the ledger, for every value of the constants and     *)
(* batches of every length: the cap on the supply, what a holder may spend *)
(* in a batch, the freezes and the control list that bind a move, and what *)
(* pause and deactivation put an end to.                                   *)
(***************************************************************************)
EXTENDS AssetProofs

-----------------------------------------------------------------------------
(***************************************************************************)
(* The supply and its cap.                                                 *)
(***************************************************************************)

\* The supply is within the cap, and zero where a cap is due and not yet set.
Capped == CapRespected /\ NoUncappedSupply

\* Supplies that never go up keep it.
LEMMA CappedDown ==
  ASSUME TypeOK, TypeOK', Capped, UNCHANGED maxSupply,
         ledger'.supply <= ledger.supply
  PROVE  Capped'
<1>1. ledger.supply \in Nat /\ ledger'.supply \in Nat
  BY ConstantsAssumption DEF TypeOK, Ledger, Amount
<1>2. maxSupply # NoPda => maxSupply \in Nat
  BY ConstantsAssumption DEF TypeOK, Amount
<1> QED
  BY <1>1, <1>2 DEF Capped, CapRespected, NoUncappedSupply

\* What a move does to the supply.
LEMMA MovedSupply ==
  ASSUME NEW l \in LooseLedger, NEW m \in Move
  PROVE  /\ Moved(l, m).supply \in Int
         /\ m.from # NoPda => Moved(l, m).supply <= l.supply
         /\ m.from = NoPda /\ m.to # NoPda =>
              Moved(l, m).supply = l.supply + m.amount
<1>1. m.amount \in Nat /\ l.supply \in Int
  BY ConstantsAssumption DEF Move, Amount, LooseLedger
<1> QED
  BY <1>1 DEF Moved

\* A batch that only transfers or burns does not raise the supply.
LEMMA BatchDown ==
  ASSUME ledger \in LooseLedger, NEW n \in Nat, NEW moves \in [1..n -> Move],
         \A i \in 1..n : moves[i].from # NoPda
  PROVE  LedgerTrace(n, moves)[n].supply <= ledger.supply
<1> DEFINE trace == LedgerTrace(n, moves)
           S == {i \in 0..n : trace[i] \in LooseLedger
                                /\ trace[i].supply <= ledger.supply}
<1>1. /\ trace[0] = ledger
      /\ \A i \in 1..n : trace[i] = Moved(trace[i-1], moves[i])
  BY LedgerTraceSteps
<1> HIDE DEF trace
<1>2. ledger.supply \in Int
  BY DEF LooseLedger
<1>3. 0 \in S
  BY <1>1, <1>2
<1>4. ASSUME NEW i \in 1..n, i - 1 \in S PROVE i \in S
  <2>1. trace[i-1] \in LooseLedger /\ trace[i-1].supply <= ledger.supply
    BY <1>4
  <2>2. trace[i] \in LooseLedger /\ trace[i].supply <= trace[i-1].supply
    BY <1>1, <2>1, MovedLoose, MovedSupply
  <2>3. trace[i].supply \in Int /\ trace[i-1].supply \in Int
    BY <2>1, <2>2 DEF LooseLedger
  <2> QED
    BY <1>2, <2>1, <2>2, <2>3
<1>5. n \in S
  <2> HIDE DEF S
  <2>1. n \in 0..n
    OBVIOUS
  <2> QED
    BY <1>3, <1>4, <2>1, PrefixInduction
<1> QED
  BY <1>5 DEF trace

\* The total of a batch is the last of its running totals.
LEMMA BatchTotalRuns ==
  ASSUME NEW n \in Nat, NEW legs \in [1..n -> MintLeg]
  PROVE  \E t : /\ t[0] = 0
                /\ \A i \in 1..n : t[i] = t[i-1] + legs[i].amount
                /\ \A i \in 0..n : t[i] \in Int
                /\ BatchTotal(n, legs) = t[n]
<1> DEFINE step == [i \in 1..n |-> [x \in Int |-> x + legs[i].amount]]
           F(t) == [i \in 0..n |-> IF i = 0 THEN 0
                                   ELSE t[i-1] + legs[i].amount]
           total == CHOOSE t : t = F(t)
<1>1. \A i \in 1..n : legs[i].amount \in Int
  BY ConstantsAssumption DEF MintLeg, Amount
<1>2. step \in Steps(n, Int)
  BY <1>1 DEF Steps
<1>3. PICK f : IsTrace(n, Int, 0, step, f)
  <2> HIDE DEF step
  <2>1. 0 \in Int
    OBVIOUS
  <2> QED
    BY <1>2, <2>1, PrefixRecursion
<1>4. ASSUME NEW i \in 1..n PROVE f[i] = f[i-1] + legs[i].amount
  <2>1. f[i-1] \in Int
    BY <1>3 DEF IsTrace
  <2> QED
    BY <1>3, <2>1 DEF IsTrace
<1>5. f = F(f)
  BY <1>3, <1>4 DEF IsTrace
<1>6. BatchTotal(n, legs) = total[n]
  BY DEF BatchTotal
<1>7. total = F(total)
  <2> HIDE DEF F
  <2> QED
    BY <1>5
<1>8. total[0] = 0 /\ \A i \in 1..n : total[i] = total[i-1] + legs[i].amount
  <2> HIDE DEF total
  <2> QED
    BY <1>7
<1> HIDE DEF total
<1> DEFINE S == {i \in 0..n : total[i] \in Int}
<1>9. 0 \in S
  BY <1>8
<1>10. \A i \in 1..n : i - 1 \in S => i \in S
  BY <1>1, <1>8
<1>11. \A i \in 0..n : i \in S
  <2> HIDE DEF S
  <2> QED
    BY <1>9, <1>10, PrefixInduction
<1> QED
  BY <1>6, <1>8, <1>11

\* A batch of mint_to raises the supply by its total, so that the one check
\* of the cap, made before the first leg, is the check of all of them.
LEMMA BatchUp ==
  ASSUME ledger \in LooseLedger, NEW n \in Nat, NEW legs \in [1..n -> MintLeg]
  PROVE  LedgerTrace(n, [i \in 1..n |-> MintTo(legs[i].to, legs[i].amount)])
           [n].supply = ledger.supply + BatchTotal(n, legs)
<1> DEFINE moves == [i \in 1..n |-> MintTo(legs[i].to, legs[i].amount)]
           trace == LedgerTrace(n, moves)
<1>1. PICK t : /\ t[0] = 0
               /\ \A i \in 1..n : t[i] = t[i-1] + legs[i].amount
               /\ \A i \in 0..n : t[i] \in Int
               /\ BatchTotal(n, legs) = t[n]
  BY BatchTotalRuns
<1>2. \A i \in 1..n : /\ moves[i] \in Move
                      /\ moves[i].from = NoPda /\ moves[i].to # NoPda
                      /\ moves[i].amount = legs[i].amount
                      /\ legs[i].amount \in Int
  BY ConstantsAssumption DEF MintLeg, MintTo, Move, Amount
<1>3. moves \in [1..n -> Move]
  BY <1>2
<1> HIDE DEF moves
<1>4. /\ trace[0] = ledger
      /\ \A i \in 1..n : trace[i] = Moved(trace[i-1], moves[i])
  BY <1>3, LedgerTraceSteps
<1> DEFINE S == {i \in 0..n : trace[i] \in LooseLedger
                                /\ trace[i].supply = ledger.supply + t[i]}
<1> HIDE DEF trace
<1>5. ledger.supply \in Int
  BY DEF LooseLedger
<1>6. 0 \in S
  BY <1>1, <1>4, <1>5
<1>7. ASSUME NEW i \in 1..n, i - 1 \in S PROVE i \in S
  <2>1. trace[i-1] \in LooseLedger /\ trace[i-1].supply = ledger.supply + t[i-1]
    BY <1>7
  <2>2. /\ trace[i] \in LooseLedger
        /\ trace[i].supply = trace[i-1].supply + legs[i].amount
    BY <1>2, <1>4, <2>1, MovedLoose, MovedSupply, ZenonT(60)
  <2>3. t[i-1] \in Int /\ t[i] = t[i-1] + legs[i].amount
    BY <1>1
  <2> QED
    BY <1>2, <1>5, <2>1, <2>2, <2>3
<1>8. n \in S
  <2> HIDE DEF S
  <2>1. n \in 0..n
    OBVIOUS
  <2> QED
    BY <1>6, <1>7, <2>1, PrefixInduction
<1> QED
  BY <1>1, <1>8 DEF trace, moves

-----------------------------------------------------------------------------
(***************************************************************************)
(* The programs.                                                           *)
(***************************************************************************)

\* Issuance within the cap keeps the supply capped.
LEMMA CappedIssue ==
  ASSUME TypeOK, NEW amount \in Int, RequireWithinMaxSupply(amount),
         UNCHANGED maxSupply, ledger'.supply = ledger.supply + amount
  PROVE  Capped'
<1>1. CASE maxSupply = NoPda
  BY <1>1 DEF RequireWithinMaxSupply, RequireFunctionality, Capped,
              CapRespected, NoUncappedSupply
<1>2. CASE maxSupply # NoPda
  BY <1>2 DEF RequireWithinMaxSupply, Capped, CapRespected, NoUncappedSupply
<1> QED
  BY <1>1, <1>2

\* The mint and cap programs keep it.
LEMMA MintCapped ==
  ASSUME TypeOK, Capped, MintNext
  PROVE  Capped'
<1>1. ledger \in LooseLedger
  BY ConstantsAssumption DEF TypeOK, Ledger, Amount, LooseLedger
<1>2. ASSUME NEW signer \in Actor, NEW to \in Account, NEW amount \in Amount,
             MintTokens(signer, to, amount)
      PROVE  Capped'
  <2>1. MintTo(to, amount) \in Move /\ MintTo(to, amount).from = NoPda
        /\ MintTo(to, amount).to # NoPda /\ MintTo(to, amount).amount = amount
        /\ amount \in Int
    BY ConstantsAssumption DEF MintTo, Move, Amount
  <2>2. ledger'.supply = ledger.supply + amount
    BY <1>1, <1>2, <2>1, MovedSupply DEF MintTokens
  <2> QED
    BY <1>2, <2>1, <2>2, CappedIssue DEF MintTokens
<1>3. ASSUME NEW signer \in Actor, NEW n \in 1..MaxBatch,
             NEW legs \in [1..n -> MintLeg], BatchMint(signer, n, legs)
      PROVE  Capped'
  <2>1. n \in Nat
    BY ConstantsAssumption
  <2>2. ledger'.supply = ledger.supply + BatchTotal(n, legs)
    BY <1>1, <1>3, <2>1, BatchUp DEF BatchMint
  <2>3. BatchTotal(n, legs) \in Int
    BY <2>1, BatchTotalRuns
  <2>4. RequireWithinMaxSupply(BatchTotal(n, legs)) /\ UNCHANGED maxSupply
    BY <1>3 DEF BatchMint
  <2> QED
    BY <2>2, <2>3, <2>4, CappedIssue
<1>4. ASSUME NEW signer \in Actor, NEW cap \in Amount, SetMaxSupply(signer, cap)
      PROVE  Capped'
  <2>1. cap \in Nat /\ cap # NoPda
    BY ConstantsAssumption DEF Amount
  <2>2. maxSupply' = cap /\ ledger' = ledger /\ ledger.supply <= cap
    BY <1>4, <2>1 DEF SetMaxSupply, TypeOK, Ledger, Amount
  <2> QED
    BY <2>1, <2>2 DEF Capped, CapRespected, NoUncappedSupply
<1> QED
  BY <1>2, <1>3, <1>4 DEF MintNext

\* Transfers leave the supply alone, seizures too, and burns lower it.
LEMMA MovesLowerSupply ==
  ASSUME TypeOK, TransferNext \/ OperationsNext
  PROVE  ledger'.supply <= ledger.supply /\ UNCHANGED maxSupply
<1>1. ledger \in LooseLedger
  BY ConstantsAssumption DEF TypeOK, Ledger, Amount, LooseLedger
<1>2. \A from \in Account, to \in Account \cup {NoPda}, amount \in Amount :
        LET m == [from |-> from, to |-> to, amount |-> amount]
        IN  m \in Move /\ m.from # NoPda
  BY ConstantsAssumption DEF Move
<1>3. ASSUME NEW from \in Account, NEW to \in Account, NEW amount \in Amount
      PROVE  /\ Moved(ledger, Transfer(from, to, amount)).supply
                  <= ledger.supply
             /\ Moved(ledger, Burn(from, amount)).supply <= ledger.supply
  BY <1>1, <1>2, MovedSupply DEF Transfer, Burn
<1>4. ASSUME NEW from \in Account, NEW to \in Account, NEW amount \in Amount,
             NEW signer \in Actor,
             \/ ControllerTransfer(signer, from, to, amount)
             \/ BurnTokens(signer, from, amount)
      PROVE  ledger'.supply <= ledger.supply /\ UNCHANGED maxSupply
  BY <1>3, <1>4 DEF ControllerTransfer, BurnTokens
<1>5. ASSUME NEW from \in Account, NEW n \in 1..MaxBatch,
             NEW legs \in [1..n -> TransferLeg], BatchTransfer(from, n, legs)
      PROVE  ledger'.supply <= ledger.supply /\ UNCHANGED maxSupply
  <2> DEFINE moves == [i \in 1..n |->
                         Transfer(from, legs[i].to, legs[i].amount)]
  <2>1. n \in Nat /\ moves \in [1..n -> Move]
        /\ \A i \in 1..n : moves[i].from # NoPda
    BY ConstantsAssumption DEF TransferLeg, Transfer, Move
  <2>2. ledger' = LedgerTrace(n, moves)[n] /\ UNCHANGED maxSupply
    BY <1>5 DEF BatchTransfer, LegsAccepted, TransferMoves
  <2> HIDE DEF moves
  <2> QED
    BY <1>1, <2>1, <2>2, BatchDown
<1>6. ASSUME NEW signer \in Actor, NEW n \in 1..MaxBatch,
             NEW legs \in [1..n -> BurnLeg], BatchBurn(signer, n, legs)
      PROVE  ledger'.supply <= ledger.supply /\ UNCHANGED maxSupply
  <2> DEFINE moves == [i \in 1..n |-> Burn(legs[i].from, legs[i].amount)]
  <2>1. n \in Nat /\ moves \in [1..n -> Move]
        /\ \A i \in 1..n : moves[i].from # NoPda
    BY ConstantsAssumption DEF BurnLeg, Burn, Move
  <2>2. ledger' = LedgerTrace(n, moves)[n] /\ UNCHANGED maxSupply
    BY <1>6 DEF BatchBurn
  <2> HIDE DEF moves
  <2> QED
    BY <1>1, <2>1, <2>2, BatchDown
<1>7. CASE TransferNext
  <2>1. ASSUME NEW from \in Account, NEW to \in Account, NEW amount \in Amount,
               WalletTransfer(from, to, amount)
        PROVE  ledger'.supply <= ledger.supply /\ UNCHANGED maxSupply
    BY <1>3, <2>1 DEF WalletTransfer
  <2> QED
    BY <1>5, <1>7, <2>1 DEF TransferNext
<1>8. CASE OperationsNext
  BY <1>4, <1>6, <1>8 DEF OperationsNext
<1> QED
  BY <1>7, <1>8

\* An execution moves tokens between accounts; the other hold instructions
\* move none.
LEMMA HoldsKeepSupply ==
  ASSUME TypeOK, HoldNext
  PROVE  ledger'.supply <= ledger.supply /\ UNCHANGED maxSupply
<1>1. ledger \in LooseLedger /\ ledger.supply \in Int
  BY ConstantsAssumption DEF TypeOK, Ledger, Amount, LooseLedger
<1>2. ASSUME NEW signer \in Actor, NEW a \in Account, NEW id \in HoldId,
             NEW to \in Account, NEW amount \in Amount,
             ExecuteHold(signer, a, id, to, amount)
      PROVE  ledger'.supply <= ledger.supply /\ UNCHANGED maxSupply
  <2>1. Transfer(a, to, amount) \in Move /\ Transfer(a, to, amount).from # NoPda
    BY ConstantsAssumption DEF Transfer, Move
  <2>2. ledger' = Moved(ledger, Transfer(a, to, amount)) /\ UNCHANGED maxSupply
    BY <1>2 DEF ExecuteHold, HoldTransfer
  <2> QED
    BY <1>1, <2>1, <2>2, MovedSupply
<1>3. \A a, id, amount, expiration, escrow, destination :
        CreateHold(a, id, amount, expiration, escrow, destination)
          => UNCHANGED <<ledger, maxSupply>>
  BY DEF CreateHold
<1>4. \A signer, a, id, amount, expiration, escrow, destination :
        ControllerCreateHold(signer, a, id, amount, expiration, escrow,
                             destination)
          => UNCHANGED <<ledger, maxSupply>>
  BY DEF ControllerCreateHold
<1>5. \A signer, a, id, amount :
        ReleaseHold(signer, a, id, amount) \/ ReclaimHold(a, id)
          => UNCHANGED <<ledger, maxSupply>>
  BY DEF ReleaseHold, ReclaimHold
<1>6. UNCHANGED <<ledger, maxSupply>>
        => ledger'.supply <= ledger.supply /\ UNCHANGED maxSupply
  BY <1>1
<1> QED
  BY <1>2, <1>3, <1>4, <1>5, <1>6 DEF HoldNext

\* The other programs touch neither supply nor cap.
LEMMA OthersKeepSupply ==
  ASSUME Tick \/ TransferControlNext \/ FreezeNext \/ LifecycleNext
  PROVE  UNCHANGED <<ledger, maxSupply>>
<1>1. CASE Tick
  BY <1>1 DEF Tick
<1>2. CASE TransferControlNext
  BY <1>2 DEF TransferControlNext, InitializeMode, AddToControlList,
              RemoveFromControlList
<1>3. CASE FreezeNext
  <2>1. \A kind, signer, leg : FreezeOne(kind, signer, leg)
                                 => UNCHANGED <<ledger, maxSupply>>
    BY DEF FreezeOne
  <2>2. \A kind, signer, n, legs : FreezeBatch(kind, signer, n, legs)
                                     => UNCHANGED <<ledger, maxSupply>>
    BY DEF FreezeBatch
  <2> QED
    BY <1>3, <2>1, <2>2
       DEF FreezeNext, FreezeAccount, UnfreezeAccount, FreezeAccountPartial,
           UnfreezeAccountPartial, BatchFreezeAccount, BatchUnfreezeAccount,
           BatchFreezeAccountPartial, BatchUnfreezeAccountPartial
<1>4. CASE LifecycleNext
  BY <1>4 DEF LifecycleNext, GrantRoles, RevokeRoles, PauseMint, UnpauseMint,
              Deactivate
<1> QED
  BY <1>1, <1>2, <1>3, <1>4

\* Every step keeps the supply capped.
LEMMA CappedStep ==
  ASSUME TypeOK, TypeOK', Capped, [Next]_vars
  PROVE  Capped'
<1>1. ASSUME UNCHANGED <<ledger, maxSupply>> PROVE Capped'
  BY <1>1 DEF Capped, CapRespected, NoUncappedSupply
<1>2. CASE UNCHANGED vars
  BY <1>1, <1>2 DEF vars
<1>3. CASE Tick \/ TransferControlNext \/ FreezeNext \/ LifecycleNext
  BY <1>1, <1>3, OthersKeepSupply
<1>4. CASE TransferNext \/ OperationsNext
  BY <1>4, MovesLowerSupply, CappedDown
<1>5. CASE HoldNext
  BY <1>5, HoldsKeepSupply, CappedDown
<1>6. CASE MintNext
  BY <1>6, MintCapped
<1> QED
  BY <1>2, <1>3, <1>4, <1>5, <1>6 DEF Next

\* A mint is deployed with a supply of zero.
LEMMA CappedInit ==
  ASSUME Init
  PROVE  Capped
BY DEF Init, Capped, CapRespected, NoUncappedSupply

\* Once there is a cap the supply is within it, in whatever order the cap is
\* moved and tokens are minted, one by one or in batches, and burned.
THEOREM CapHolds == Spec => []CapRespected
<1>1. Init => Capped
  BY CappedInit
<1>2. TypeOK /\ TypeOK' /\ Capped /\ [Next]_vars => Capped'
  BY CappedStep
<1>3. Capped => CapRespected
  BY DEF Capped
<1> QED
  BY <1>1, <1>2, <1>3, TypeCorrect, PTL DEF Spec

\* An asset class with the cap functionality issues nothing before its cap is
\* set.
THEOREM NothingUncapped == Spec => []NoUncappedSupply
<1>1. Init => Capped
  BY CappedInit
<1>2. TypeOK /\ TypeOK' /\ Capped /\ [Next]_vars => Capped'
  BY CappedStep
<1>3. Capped => NoUncappedSupply
  BY DEF Capped
<1> QED
  BY <1>1, <1>2, <1>3, TypeCorrect, PTL DEF Spec

-----------------------------------------------------------------------------
(***************************************************************************)
(* What a holder may spend.                                                *)
(***************************************************************************)

\* A property of ledgers, as the set of those that have it, which every leg
\* of a batch keeps, is a property of the ledger the batch leaves.
LEMMA BatchKeeps ==
  ASSUME ledger \in LooseLedger, NEW n \in Nat, NEW moves \in [1..n -> Move],
         NEW G \in SUBSET LooseLedger, ledger \in G,
         \A i \in 1..n : LedgerTrace(n, moves)[i-1] \in G =>
                           Moved(LedgerTrace(n, moves)[i-1], moves[i]) \in G
  PROVE  LedgerTrace(n, moves)[n] \in G
<1> DEFINE trace == LedgerTrace(n, moves)
           S == {i \in 0..n : trace[i] \in G}
<1>1. /\ trace[0] = ledger
      /\ \A i \in 1..n : trace[i] = Moved(trace[i-1], moves[i])
  BY LedgerTraceSteps
<1>2. \A i \in 1..n : trace[i-1] \in G => Moved(trace[i-1], moves[i]) \in G
  OBVIOUS
<1> HIDE DEF trace
<1>3. 0 \in S
  BY <1>1
<1>4. \A i \in 1..n : i - 1 \in S => i \in S
  BY <1>1, <1>2
<1>5. n \in S
  <2> HIDE DEF S
  <2>1. n \in 0..n
    OBVIOUS
  <2> QED
    BY <1>3, <1>4, <2>1, PrefixInduction
<1> QED
  BY <1>5 DEF trace

\* Ledgers whose balances add up to the supply.
Balanced == {l \in LooseLedger : l.supply = SumFunctionOnSet(l.balance, Account)}

\* Changing one balance changes the sum by as much.
LEMMA BalanceChanges ==
  ASSUME NEW f \in [Account -> Int], NEW a \in Account, NEW delta \in Int
  PROVE  LET g == [f EXCEPT ![a] = @ + delta]
         IN  /\ g \in [Account -> Int]
             /\ SumFunctionOnSet(f, Account) \in Int
             /\ SumFunctionOnSet(g, Account)
                  = SumFunctionOnSet(f, Account) + delta
<1> DEFINE g == [f EXCEPT ![a] = @ + delta]
<1>1. /\ g \in [Account -> Int]
      /\ g[a] = f[a] + delta
      /\ \A b \in Account \ {a} : g[b] = f[b]
  OBVIOUS
<1>2. \A b \in Account : f[b] \in Int /\ g[b] \in Int
  BY <1>1
<1> HIDE DEF g
<1>3. SumFunctionOnSet(g, Account) = SumFunctionOnSet(f, Account) - f[a] + g[a]
  BY <1>1, <1>2, FiniteAccounts, SumUpdate
<1>4. SumFunctionOnSet(f, Account) \in Int
  BY <1>2, FiniteAccounts, SumInt
<1>5. SumFunctionOnSet(g, Account) = SumFunctionOnSet(f, Account) + delta
  BY <1>1, <1>2, <1>3, <1>4
<1> QED
  BY <1>1, <1>4, <1>5 DEF g

\* A move keeps the balances and the supply in step: a transfer debits what
\* it credits, and only mint_to and the burn change the supply.
LEMMA MovedBalanced ==
  ASSUME NEW l \in Balanced, NEW m \in Move
  PROVE  Moved(l, m) \in Balanced
<1>1. /\ m.amount \in Int /\ -m.amount \in Int
      /\ m.from \in Account \cup {NoPda}
      /\ m.to \in Account \cup {NoPda}
      /\ NoPda \notin Account
  BY ConstantsAssumption DEF Move, Amount
<1>2. /\ l \in LooseLedger
      /\ l.balance \in [Account -> Int]
      /\ l.supply \in Int
      /\ l.supply = SumFunctionOnSet(l.balance, Account)
  BY DEF Balanced, LooseLedger
<1>3. Moved(l, m) \in LooseLedger
  BY <1>2, MovedLoose
<1> DEFINE debit == [l.balance EXCEPT ![m.from] = @ + (-m.amount)]
           credit == [l.balance EXCEPT ![m.to] = @ + m.amount]
           both == [debit EXCEPT ![m.to] = @ + m.amount]
<1>4. CASE m.from = m.to
  BY <1>4 DEF Moved
<1>5. CASE m.from = NoPda /\ m.to # NoPda
  <2>1. /\ Moved(l, m).balance = credit
        /\ Moved(l, m).supply = l.supply + m.amount
    BY <1>1, <1>2, <1>5 DEF Moved
  <2>2. SumFunctionOnSet(credit, Account)
          = SumFunctionOnSet(l.balance, Account) + m.amount
    BY <1>1, <1>2, <1>5, BalanceChanges
  <2> QED
    BY <1>2, <1>3, <2>1, <2>2 DEF Balanced
<1>6. CASE m.from # NoPda /\ m.to = NoPda
  <2>1. /\ Moved(l, m).balance = debit
        /\ Moved(l, m).supply = l.supply - m.amount
    BY <1>1, <1>2, <1>6 DEF Moved
  <2>2. SumFunctionOnSet(debit, Account)
          = SumFunctionOnSet(l.balance, Account) + (-m.amount)
    BY <1>1, <1>2, <1>6, BalanceChanges
  <2>3. l.supply - m.amount = l.supply + (-m.amount)
    BY <1>1, <1>2
  <2> QED
    BY <1>2, <1>3, <2>1, <2>2, <2>3 DEF Balanced
<1>7. CASE m.from # NoPda /\ m.to # NoPda /\ m.from # m.to
  <2>1. /\ Moved(l, m).balance = both
        /\ Moved(l, m).supply = l.supply
    BY <1>1, <1>2, <1>7 DEF Moved
  <2>2. /\ debit \in [Account -> Int]
        /\ SumFunctionOnSet(debit, Account)
             = SumFunctionOnSet(l.balance, Account) + (-m.amount)
        /\ SumFunctionOnSet(l.balance, Account) \in Int
    BY <1>1, <1>2, <1>7, BalanceChanges
  <2> HIDE DEF debit
  <2>3. SumFunctionOnSet(both, Account)
          = SumFunctionOnSet(debit, Account) + m.amount
    BY <1>1, <1>7, <2>2, BalanceChanges, ZenonT(60)
  <2>4. SumFunctionOnSet(both, Account) = SumFunctionOnSet(l.balance, Account)
    BY <1>1, <2>2, <2>3
  <2> QED
    BY <1>2, <1>3, <2>1, <2>4 DEF Balanced
<1> QED
  BY <1>4, <1>5, <1>6, <1>7

\* Every step leaves the ledger alone, moves once, or moves a batch.
LEMMA LedgerMoves ==
  ASSUME [Next]_vars
  PROVE  \/ ledger' = ledger
         \/ \E m \in Move : ledger' = Moved(ledger, m)
         \/ \E n \in Nat : \E moves \in [1..n -> Move] :
               ledger' = LedgerTrace(n, moves)[n]
<1> DEFINE Once == \E m \in Move : ledger' = Moved(ledger, m)
           Batch == \E n \in Nat : \E moves \in [1..n -> Move] :
                       ledger' = LedgerTrace(n, moves)[n]
<1>1. CASE UNCHANGED vars
  BY <1>1 DEF vars
<1>2. CASE Tick \/ TransferControlNext \/ FreezeNext \/ LifecycleNext
  BY <1>2, OthersKeepSupply
<1>3. ASSUME NEW from \in Account, NEW to \in Account, NEW amount \in Amount
      PROVE  /\ Transfer(from, to, amount) \in Move
             /\ MintTo(to, amount) \in Move
             /\ Burn(from, amount) \in Move
  BY DEF Transfer, MintTo, Burn, Move
<1>4. \A n \in 1..MaxBatch : n \in Nat
  BY ConstantsAssumption
<1>5. CASE TransferNext
  <2>1. ASSUME NEW from \in Account, NEW n \in 1..MaxBatch,
               NEW legs \in [1..n -> TransferLeg], BatchTransfer(from, n, legs)
        PROVE  Batch
    <3> DEFINE moves == [i \in 1..n |->
                           Transfer(from, legs[i].to, legs[i].amount)]
    <3>1. moves \in [1..n -> Move]
      BY <1>3 DEF TransferLeg
    <3>2. ledger' = LedgerTrace(n, moves)[n]
      BY <2>1 DEF BatchTransfer, TransferMoves
    <3> HIDE DEF moves
    <3> QED
      BY <1>4, <3>1, <3>2
  <2>2. ASSUME NEW from \in Account, NEW to \in Account, NEW amount \in Amount,
               WalletTransfer(from, to, amount)
        PROVE  Once
    BY <1>3, <2>2 DEF WalletTransfer
  <2> QED
    BY <1>5, <2>1, <2>2 DEF TransferNext
<1>6. CASE OperationsNext
  <2>1. ASSUME NEW signer \in Actor, NEW n \in 1..MaxBatch,
               NEW legs \in [1..n -> BurnLeg], BatchBurn(signer, n, legs)
        PROVE  Batch
    <3> DEFINE moves == [i \in 1..n |-> Burn(legs[i].from, legs[i].amount)]
    <3>1. moves \in [1..n -> Move]
      BY <1>3 DEF BurnLeg
    <3>2. ledger' = LedgerTrace(n, moves)[n]
      BY <2>1 DEF BatchBurn
    <3> HIDE DEF moves
    <3> QED
      BY <1>4, <3>1, <3>2
  <2>2. ASSUME NEW signer \in Actor, NEW from \in Account, NEW to \in Account,
               NEW amount \in Amount,
               \/ ControllerTransfer(signer, from, to, amount)
               \/ BurnTokens(signer, from, amount)
        PROVE  Once
    BY <1>3, <2>2 DEF ControllerTransfer, BurnTokens
  <2> QED
    BY <1>6, <2>1, <2>2 DEF OperationsNext
<1>7. CASE MintNext
  <2>1. ASSUME NEW signer \in Actor, NEW n \in 1..MaxBatch,
               NEW legs \in [1..n -> MintLeg], BatchMint(signer, n, legs)
        PROVE  Batch
    <3> DEFINE moves == [i \in 1..n |-> MintTo(legs[i].to, legs[i].amount)]
    <3>1. moves \in [1..n -> Move]
      BY <1>3 DEF MintLeg
    <3>2. ledger' = LedgerTrace(n, moves)[n]
      BY <2>1 DEF BatchMint
    <3> HIDE DEF moves
    <3> QED
      BY <1>4, <3>1, <3>2
  <2>2. ASSUME NEW signer \in Actor, NEW to \in Account, NEW amount \in Amount,
               MintTokens(signer, to, amount)
        PROVE  Once
    BY <1>3, <2>2 DEF MintTokens
  <2>3. ASSUME NEW signer \in Actor, NEW cap, SetMaxSupply(signer, cap)
        PROVE  ledger' = ledger
    BY <2>3 DEF SetMaxSupply
  <2> QED
    BY <1>7, <2>1, <2>2, <2>3 DEF MintNext
<1>8. CASE HoldNext
  <2>1. ASSUME NEW signer \in Actor, NEW a \in Account, NEW id \in HoldId,
               NEW to \in Account, NEW amount \in Amount,
               ExecuteHold(signer, a, id, to, amount)
        PROVE  Once
    BY <1>3, <2>1 DEF ExecuteHold, HoldTransfer
  <2> QED
    BY <1>8, <2>1 DEF HoldNext, CreateHold, ControllerCreateHold, ReleaseHold,
                      ReclaimHold
<1> QED
  BY <1>1, <1>2, <1>5, <1>6, <1>7, <1>8 DEF Next

\* The inductive invariant of the ledger.
InStep == ledger \in Balanced

\* Tokens are created by mint_to and destroyed by the burn, and by nothing
\* else.
LEMMA LedgerInStep == Spec => []InStep
<1>1. Init => InStep
  <2> SUFFICES ASSUME Init PROVE ledger \in Balanced
    BY DEF InStep
  <2>1. /\ ledger.balance = [a \in Account |-> 0]
        /\ ledger.supply = 0
        /\ ledger \in LooseLedger
    BY DEF Init, LooseLedger
  <2>2. SumFunctionOnSet(ledger.balance, Account) = 0
    BY <2>1, FiniteAccounts, SumZero
  <2> QED
    BY <2>1, <2>2 DEF Balanced
<1>2. InStep /\ [Next]_vars => InStep'
  <2> SUFFICES ASSUME ledger \in Balanced, [Next]_vars
               PROVE  ledger' \in Balanced
    BY DEF InStep
  <2>1. ASSUME NEW n \in Nat, NEW moves \in [1..n -> Move],
               ledger' = LedgerTrace(n, moves)[n]
        PROVE  ledger' \in Balanced
    <3>1. Balanced \in SUBSET LooseLedger /\ ledger \in LooseLedger
      BY DEF Balanced
    <3>2. \A i \in 1..n : LedgerTrace(n, moves)[i-1] \in Balanced =>
                             Moved(LedgerTrace(n, moves)[i-1], moves[i]) \in Balanced
      BY MovedBalanced
    <3> QED
      BY <2>1, <3>1, <3>2, BatchKeeps
  <2> QED
    BY <2>1, LedgerMoves, MovedBalanced
<1> QED
  BY <1>1, <1>2, PTL DEF Spec

\* No two accounts own more than there is.
LEMMA TwoBalances ==
  ASSUME NEW l \in Balanced, \A c \in Account : l.balance[c] >= 0,
         NEW a \in Account, NEW b \in Account, a # b
  PROVE  l.balance[a] + l.balance[b] <= l.supply
<1> DEFINE f == l.balance
           rest == SumFunctionOnSet(f, Account \ {a})
<1>1. /\ f \in [Account -> Int]
      /\ l.supply = SumFunctionOnSet(f, Account)
  BY DEF Balanced, LooseLedger
<1>2. \A c \in Account : f[c] \in Nat
  BY <1>1
<1> HIDE DEF f
<1>3. /\ IsFiniteSet(Account \ {a})
      /\ b \in Account \ {a}
      /\ \A c \in Account \ {a} : f[c] \in Nat /\ f[c] \in Int
  BY <1>2, FiniteAccounts, FS_RemoveElement
<1>4. SumFunctionOnSet(f, Account) = f[a] + rest
  BY <1>2, FiniteAccounts, SumRemove
<1>5. f[b] <= rest
  BY <1>3, SumMember
<1>6. rest \in Int
  BY <1>3, SumInt
<1> HIDE DEF rest
<1>7. f[a] + f[b] <= l.supply
  BY <1>1, <1>2, <1>4, <1>5, <1>6
<1> QED
  BY <1>7 DEF f

\* Ledgers an honest batch passes through: balances that are natural numbers
\* and add up to the supply, which stays what it was.
Sound == {l \in Balanced : /\ l.supply = ledger.supply
                           /\ \A a \in Account : l.balance[a] >= 0}

\* One leg to another account, admitted by the list, of what is there.
LEMMA SoundLeg ==
  ASSUME TypeOK, NEW l \in Sound, NEW from \in Account, NEW to \in Account,
         NEW amount \in Amount, from # to, ~paused,
         amount <= l.balance[from]
  PROVE  LET m == Transfer(from, to, amount)
         IN  /\ MoveAccepted(l, m)
             /\ Moved(l, m) \in Sound
<1> DEFINE m == Transfer(from, to, amount)
<1>1. /\ m \in Move /\ m.from = from /\ m.to = to /\ m.amount = amount
      /\ from # NoPda /\ to # NoPda /\ amount \in Nat
  BY ConstantsAssumption DEF Transfer, Move, Amount
<1>2. /\ l \in Balanced /\ l \in LooseLedger
      /\ l.supply = ledger.supply
      /\ l.balance \in [Account -> Int]
      /\ \A a \in Account : l.balance[a] >= 0
      /\ ledger.supply \in Nat /\ ledger.supply <= MaxAmount
  BY ConstantsAssumption DEF Sound, Balanced, LooseLedger, TypeOK, Ledger, Amount
<1> HIDE DEF m
<1>3. MoveAccepted(l, m)
  <2>1. l.balance[from] + l.balance[to] <= l.supply
    BY <1>2, TwoBalances
  <2>2. l.balance[from] \in Int /\ l.balance[to] \in Int /\ MaxAmount \in Int
    BY <1>2, ConstantsAssumption
  <2>3. l.balance[to] + amount <= MaxAmount
    BY <1>1, <1>2, <2>1, <2>2
  <2> QED
    BY <1>1, <2>3 DEF MoveAccepted
<1>4. /\ Moved(l, m).supply = l.supply
      /\ \A a \in Account : Moved(l, m).balance[a] >= 0
  BY <1>1, <1>2 DEF Moved
<1> QED
  BY <1>1, <1>2, <1>3, <1>4, MovedBalanced DEF Sound, m

\* The source of a batch to other accounts loses the running totals.
LEMMA SourceRuns ==
  ASSUME ledger \in LooseLedger, NEW from \in Account, NEW n \in Nat,
         NEW legs \in [1..n -> TransferLeg],
         \A i \in 1..n : legs[i].to # from,
         NEW t, t[0] = 0, \A i \in 0..n : t[i] \in Int,
         \A i \in 1..n : t[i] = t[i-1] + legs[i].amount
  PROVE  \A i \in 0..n :
           /\ LedgerTrace(n, TransferMoves(from, n, legs))[i] \in LooseLedger
           /\ LedgerTrace(n, TransferMoves(from, n, legs))[i].balance[from]
                = ledger.balance[from] - t[i]
<1> DEFINE moves == TransferMoves(from, n, legs)
           trace == LedgerTrace(n, moves)
           S == {i \in 0..n : /\ trace[i] \in LooseLedger
                              /\ trace[i].balance[from]
                                   = ledger.balance[from] - t[i]}
<1>1. \A i \in 1..n : /\ moves[i] \in Move
                      /\ moves[i].from = from /\ moves[i].to # from
                      /\ moves[i].amount = legs[i].amount
                      /\ legs[i].amount \in Int
  BY ConstantsAssumption DEF TransferMoves, TransferLeg, Transfer, Move, Amount
<1>2. moves \in [1..n -> Move]
  BY <1>1 DEF TransferMoves
<1> HIDE DEF moves
<1>3. /\ trace[0] = ledger
      /\ \A i \in 1..n : trace[i] = Moved(trace[i-1], moves[i])
  BY <1>2, LedgerTraceSteps
<1> HIDE DEF trace
<1>4. ledger.balance[from] \in Int
  BY DEF LooseLedger
<1>5. 0 \in S
  BY <1>3, <1>4
<1>6. ASSUME NEW i \in 1..n, i - 1 \in S PROVE i \in S
  <2>1. /\ trace[i-1] \in LooseLedger
        /\ trace[i-1].balance[from] = ledger.balance[from] - t[i-1]
        /\ trace[i-1].balance[from] \in Int
    BY <1>6 DEF LooseLedger
  <2>2. trace[i] \in LooseLedger
    BY <1>1, <1>3, <2>1, MovedLoose
  <2>3. trace[i].balance[from] = trace[i-1].balance[from] - legs[i].amount
    <3>1. \A l, m : m.from # m.to /\ m.from = from
             => Moved(l, m).balance[from] = l.balance[from] - m.amount
      BY DEF Moved
    <3> QED
      BY <1>1, <1>3, <3>1
  <2>4. t[i-1] \in Int /\ t[i] = t[i-1] + legs[i].amount
    OBVIOUS
  <2> QED
    BY <1>1, <1>4, <2>1, <2>2, <2>3, <2>4
<1>7. \A i \in 0..n : i \in S
  <2> HIDE DEF S
  <2> QED
    BY <1>5, <1>6, PrefixInduction
<1> QED
  BY <1>7 DEF trace, moves

\* Running totals of amounts only grow.
LEMMA RunningTotals ==
  ASSUME NEW n \in Nat, NEW t, NEW legs, t[0] = 0,
         \A i \in 0..n : t[i] \in Int,
         \A i \in 1..n : legs[i].amount \in Nat /\ t[i] = t[i-1] + legs[i].amount
  PROVE  \A i \in 0..n : 0 <= t[i] /\ t[i] <= t[n]
<1> DEFINE S == {i \in 0..n : \A j \in 0..i : 0 <= t[j] /\ t[j] <= t[i]}
<1>1. 0 \in S
  OBVIOUS
<1>2. ASSUME NEW i \in 1..n, i - 1 \in S PROVE i \in S
  <2>1. t[i] = t[i-1] + legs[i].amount /\ legs[i].amount \in Nat
        /\ t[i] \in Int /\ t[i-1] \in Int
    OBVIOUS
  <2>2. \A j \in 0..(i-1) : t[j] \in Int /\ 0 <= t[j] /\ t[j] <= t[i-1]
    BY <1>2
  <2>3. ASSUME NEW j \in 0..i PROVE 0 <= t[j] /\ t[j] <= t[i]
    <3>1. CASE j \in 0..(i-1)
      BY <2>1, <2>2, <3>1
    <3>2. CASE j = i
      <4>1. i - 1 \in 0..(i-1)
        OBVIOUS
      <4> QED
        BY <2>1, <2>2, <3>2, <4>1
    <3> QED
      BY <3>1, <3>2
  <2> QED
    BY <2>3
<1>3. n \in S
  <2> HIDE DEF S
  <2>1. n \in 0..n
    OBVIOUS
  <2> QED
    BY <1>1, <1>2, <2>1, PrefixInduction
<1> QED
  BY <1>3

\* A batch to other accounts that the list admits, from an account that is
\* not frozen in full, of a mint that is not switched off.
LEMMA FreeBatch ==
  ASSUME TypeOK, InStep, ~paused, RequireActive,
         RequireFunctionality("TRANSFER_HOOK_EXECUTE"),
         NEW from \in Account, NEW n \in 1..MaxBatch,
         NEW legs \in [1..n -> TransferLeg], ~freezeState[from].fully,
         \A i \in 1..n : /\ legs[i].to # from
                         /\ VerifyTransferControlMode({from, legs[i].to})
  PROVE  LegsAccepted(from, n, legs) <=> BatchTotal(n, legs) <= Spendable(from)
<1> DEFINE moves == TransferMoves(from, n, legs)
           trace == LedgerTrace(n, moves)
           locked == freezeState[from].frozen + HeldAmount(from)
<1>1. /\ n \in Nat /\ n \in 1..n /\ n \in 0..n
      /\ legs \in [1..n -> MintLeg]
      /\ ledger \in LooseLedger /\ ledger \in Balanced
      /\ MaxAmount \in Nat
  BY ConstantsAssumption DEF TransferLeg, MintLeg, InStep, Balanced
<1>2. PICK t : /\ t[0] = 0
               /\ \A i \in 1..n : t[i] = t[i-1] + legs[i].amount
               /\ \A i \in 0..n : t[i] \in Int
               /\ BatchTotal(n, legs) = t[n]
  BY <1>1, BatchTotalRuns
<1>3. \A i \in 1..n : /\ legs[i].to \in Account /\ legs[i].amount \in Amount
                      /\ legs[i].amount \in Nat
                      /\ moves[i] = Transfer(from, legs[i].to, legs[i].amount)
                      /\ moves[i] \in Move
  BY ConstantsAssumption DEF TransferLeg, TransferMoves, Transfer, Move, Amount
<1>4. moves \in [1..n -> Move]
  BY <1>3 DEF TransferMoves
<1>5. \A i \in 0..n : /\ trace[i] \in LooseLedger
                      /\ trace[i].balance[from] = ledger.balance[from] - t[i]
  BY <1>1, <1>2, SourceRuns, ZenonT(60)
<1> HIDE DEF moves
<1>6. /\ trace[0] = ledger
      /\ \A i \in 1..n : trace[i] = Moved(trace[i-1], moves[i])
  BY <1>1, <1>4, LedgerTraceSteps
<1>7. /\ ledger.balance \in [Account -> Amount]
      /\ ledger.balance[from] \in Nat /\ ledger.balance[from] <= MaxAmount
      /\ locked \in Nat
      /\ Spendable(from) = ledger.balance[from] - locked
  BY ConstantsAssumption DEF TypeOK, Ledger, FreezeState, HoldPosition, Amount,
                             HeldAmount, Spendable
<1>8. LegsAccepted(from, n, legs) <=>
        \A i \in 1..n : /\ MoveAccepted(trace[i-1], moves[i])
                        /\ locked <= MaxAmount
                        /\ trace[i].balance[from] >= locked
  <2>1. ASSUME NEW i \in 1..n
        PROVE  TransferChecked(trace[i-1], from, legs[i].to, legs[i].amount)
                 <=> /\ MoveAccepted(trace[i-1], moves[i])
                     /\ locked <= MaxAmount
                     /\ trace[i].balance[from] >= locked
    <3>1. trace[i] = Moved(trace[i-1], moves[i])
      BY <1>6
    <3> HIDE DEF trace
    <3> QED
      BY <1>3, <3>1 DEF TransferChecked, Execute, RequireLockedBalanceCovered
  <2> QED
    BY <2>1 DEF LegsAccepted, moves
<1> HIDE DEF trace, locked
<1>9. ASSUME LegsAccepted(from, n, legs)
      PROVE  t[n] <= Spendable(from)
  <2>1. trace[n].balance[from] >= locked
    BY <1>1, <1>8, <1>9
  <2>2. trace[n].balance[from] = ledger.balance[from] - t[n] /\ t[n] \in Int
    BY <1>1, <1>2, <1>5
  <2> QED
    BY <1>7, <2>1, <2>2
<1>10. ASSUME t[n] <= Spendable(from)
       PROVE  LegsAccepted(from, n, legs)
  <2>1. \A i \in 0..n : t[i] <= t[n]
    BY <1>1, <1>2, <1>3, RunningTotals
  <2>2. /\ locked <= MaxAmount
        /\ \A i \in 0..n : trace[i].balance[from] >= locked
    <3>1. t[n] <= ledger.balance[from] - locked /\ t[n] \in Int /\ 0 <= t[n]
      BY <1>1, <1>2, <1>7, <1>10, <2>1
    <3>2. ASSUME NEW i \in 0..n PROVE trace[i].balance[from] >= locked
      <4>1. /\ t[i] \in Int /\ t[i] <= t[n]
            /\ trace[i].balance[from] = ledger.balance[from] - t[i]
        BY <1>2, <1>5, <2>1
      <4> QED
        BY <1>7, <3>1, <4>1
    <3> QED
      BY <1>1, <1>7, <3>1, <3>2
  <2>3. \A i \in 1..n : legs[i].amount <= trace[i-1].balance[from]
    <3>1. ASSUME NEW i \in 1..n
          PROVE  legs[i].amount <= trace[i-1].balance[from]
      <4>1. i - 1 \in 0..n /\ i \in 0..n
        BY <1>1
      <4>2. /\ trace[i-1].balance[from] = ledger.balance[from] - t[i-1]
            /\ trace[i].balance[from] = ledger.balance[from] - t[i]
            /\ trace[i].balance[from] >= locked
            /\ t[i] = t[i-1] + legs[i].amount
            /\ t[i] \in Int /\ t[i-1] \in Int /\ legs[i].amount \in Nat
        BY <1>2, <1>3, <1>5, <2>2, <4>1
      <4> QED
        BY <1>7, <4>2
    <3> QED
      BY <3>1
  <2> DEFINE S == {i \in 0..n : trace[i] \in Sound}
  <2>4. 0 \in S
    <3>1. \A a \in Account : ledger.balance[a] >= 0
      BY <1>1, <1>7 DEF Amount
    <3> QED
      BY <1>1, <1>6, <3>1 DEF Sound
  <2>5. ASSUME NEW i \in 1..n, trace[i-1] \in Sound
        PROVE  MoveAccepted(trace[i-1], moves[i]) /\ trace[i] \in Sound
    <3>1. /\ legs[i].to \in Account /\ legs[i].amount \in Amount
          /\ from # legs[i].to
          /\ legs[i].amount <= trace[i-1].balance[from]
          /\ moves[i] = Transfer(from, legs[i].to, legs[i].amount)
          /\ trace[i] = Moved(trace[i-1], moves[i])
      BY <1>3, <1>6, <2>3
    <3>2. LET m == Transfer(from, legs[i].to, legs[i].amount)
          IN  MoveAccepted(trace[i-1], m) /\ Moved(trace[i-1], m) \in Sound
      BY <2>5, <3>1, SoundLeg
    <3> QED
      BY <3>1, <3>2
  <2>6. \A i \in 0..n : i \in S
    <3>1. \A i \in 1..n : i - 1 \in S => i \in S
      BY <1>1, <2>5
    <3> HIDE DEF S
    <3> QED
      BY <1>1, <2>4, <3>1, PrefixInduction
  <2>7. \A i \in 1..n : trace[i-1] \in Sound
    BY <1>1, <2>6
  <2>8. \A i \in 1..n : i \in 0..n
    BY <1>1
  <2> QED
    BY <1>8, <2>2, <2>5, <2>7, <2>8
<1> QED
  BY <1>2, <1>9, <1>10

\* The hook, which runs after every debit on the balance it finds then, lets a
\* holder spend all it may and no more, in batches of any length to any
\* number of accounts.
THEOREM FreeTokensMove == Spec => []BatchesSpendWhatIsFree
<1>1. TypeOK /\ InStep => BatchesSpendWhatIsFree
  BY FreeBatch DEF BatchesSpendWhatIsFree
<1> QED
  BY <1>1, TypeCorrect, LedgerInStep, PTL

-----------------------------------------------------------------------------
(***************************************************************************)
(* What binds a move when nobody is a controller.                          *)
(***************************************************************************)

\* Ledgers in which whoever has less than now is not frozen in full and
\* still has what is frozen and held.
DebitsAllowed ==
    {l \in LooseLedger : \A a \in Account :
        l.balance[a] < ledger.balance[a] =>
            /\ ~freezeState[a].fully
            /\ l.balance[a] >= freezeState[a].frozen + position[a].held}

\* Ledgers in which whoever has more or less than now satisfies the control
\* list.
MovesListed ==
    {l \in LooseLedger : \A a \in Account :
        l.balance[a] # ledger.balance[a] => VerifyTransferControlMode({a})}

\* The control list is satisfied account by account.
LEMMA ListedEach ==
  ASSUME NEW accounts, VerifyTransferControlMode(accounts), NEW a \in accounts
  PROVE  VerifyTransferControlMode({a})
BY DEF VerifyTransferControlMode

\* A move changes the balances of its two ends only.
LEMMA MovedEnds ==
  ASSUME NEW l \in LooseLedger, NEW m \in Move, NEW a \in Account
  PROVE  /\ l.balance[a] \in Int
         /\ m.from = m.to => Moved(l, m).balance[a] = l.balance[a]
         /\ a # m.from /\ a # m.to => Moved(l, m).balance[a] = l.balance[a]
         /\ a # m.from => Moved(l, m).balance[a] >= l.balance[a]
         /\ Moved(l, m).balance[a] \in Int
<1>1. l.balance[a] \in Int /\ m.amount \in Nat
  BY ConstantsAssumption DEF LooseLedger, Move, Amount
<1> QED
  BY <1>1 DEF Moved

\* A transfer the hook has seen debits and moves only what it may.
LEMMA TransferAllowed ==
  ASSUME TypeOK, NEW l \in LooseLedger, NEW from \in Account,
         NEW to \in Account, NEW amount \in Amount,
         TransferChecked(l, from, to, amount)
  PROVE  /\ l \in DebitsAllowed =>
              Moved(l, Transfer(from, to, amount)) \in DebitsAllowed
         /\ l \in MovesListed =>
              Moved(l, Transfer(from, to, amount)) \in MovesListed
<1> DEFINE m == Transfer(from, to, amount)
           k == Moved(l, m)
<1>1. m \in Move /\ m.from = from /\ m.to = to
  BY DEF Transfer, Move
<1>2. CASE from = to
  BY <1>1, <1>2 DEF Moved
<1>3. CASE from # to
  <2>1. /\ ~freezeState[from].fully
        /\ k.balance[from] >= freezeState[from].frozen + position[from].held
        /\ VerifyTransferControlMode({from, to})
    BY <1>3 DEF TransferChecked, Execute, RequireLockedBalanceCovered,
                HeldAmount
  <2> HIDE DEF m
  <2>2. k \in LooseLedger
    BY <1>1, MovedLoose
  <2>3. ASSUME NEW a \in Account
        PROVE  /\ l.balance[a] \in Int /\ k.balance[a] \in Int
               /\ a # from => k.balance[a] >= l.balance[a]
               /\ a # from /\ a # to => k.balance[a] = l.balance[a]
    BY <1>1, MovedEnds
  <2>4. \A a \in Account : /\ ledger.balance[a] \in Int
                          /\ freezeState[a].frozen \in Int
                          /\ position[a].held \in Int
    BY ConstantsAssumption
       DEF TypeOK, Ledger, FreezeState, HoldPosition, Amount
  <2> HIDE DEF k
  <2>5. ASSUME l \in DebitsAllowed PROVE k \in DebitsAllowed
    <3>1. ASSUME NEW a \in Account, k.balance[a] < ledger.balance[a]
          PROVE  /\ ~freezeState[a].fully
                 /\ k.balance[a] >= freezeState[a].frozen + position[a].held
      <4>1. CASE a = from
        BY <2>1, <4>1
      <4>2. CASE a # from
        <5>1. l.balance[a] < ledger.balance[a]
          BY <2>3, <2>4, <3>1, <4>2
        <5>2. /\ ~freezeState[a].fully
              /\ l.balance[a] >= freezeState[a].frozen + position[a].held
          BY <2>5, <5>1 DEF DebitsAllowed
        <5> QED
          BY <2>3, <2>4, <4>2, <5>2
      <4> QED
        BY <4>1, <4>2
    <3> QED
      BY <2>2, <3>1 DEF DebitsAllowed
  <2>6. ASSUME l \in MovesListed PROVE k \in MovesListed
    <3>1. ASSUME NEW a \in Account, k.balance[a] # ledger.balance[a]
          PROVE  VerifyTransferControlMode({a})
      <4>1. CASE a \in {from, to}
        BY <2>1, <4>1, ListedEach
      <4>2. CASE a \notin {from, to}
        BY <2>3, <2>6, <3>1, <4>2 DEF MovesListed
      <4> QED
        BY <4>1, <4>2
    <3> QED
      BY <2>2, <3>1 DEF MovesListed
  <2> QED
    BY <2>5, <2>6 DEF k, m
<1> QED
  BY <1>2, <1>3

\* mint_to debits nobody, and credits an account the list admits.
LEMMA MintAllowed ==
  ASSUME TypeOK, NEW l \in LooseLedger, NEW to \in Account,
         NEW amount \in Amount, VerifyTransferControlMode({to})
  PROVE  /\ l \in DebitsAllowed => Moved(l, MintTo(to, amount)) \in DebitsAllowed
         /\ l \in MovesListed => Moved(l, MintTo(to, amount)) \in MovesListed
<1> DEFINE m == MintTo(to, amount)
           k == Moved(l, m)
<1>1. m \in Move /\ m.from = NoPda /\ m.to = to
  BY DEF MintTo, Move
<1> HIDE DEF m
<1>2. k \in LooseLedger
  BY <1>1, MovedLoose
<1>3. ASSUME NEW a \in Account
      PROVE  /\ l.balance[a] \in Int /\ k.balance[a] \in Int
             /\ k.balance[a] >= l.balance[a]
             /\ a # to => k.balance[a] = l.balance[a]
  BY <1>1, MovedEnds, ConstantsAssumption
<1>4. \A a \in Account : /\ ledger.balance[a] \in Int
                        /\ freezeState[a].frozen \in Int
                        /\ position[a].held \in Int
  BY ConstantsAssumption DEF TypeOK, Ledger, FreezeState, HoldPosition, Amount
<1> HIDE DEF k
<1>5. ASSUME l \in DebitsAllowed PROVE k \in DebitsAllowed
  <2>1. ASSUME NEW a \in Account, k.balance[a] < ledger.balance[a]
        PROVE  /\ ~freezeState[a].fully
               /\ k.balance[a] >= freezeState[a].frozen + position[a].held
    <3>1. l.balance[a] < ledger.balance[a]
      BY <1>3, <1>4, <2>1
    <3>2. /\ ~freezeState[a].fully
          /\ l.balance[a] >= freezeState[a].frozen + position[a].held
      BY <1>5, <3>1 DEF DebitsAllowed
    <3> QED
      BY <1>3, <1>4, <3>2
  <2> QED
    BY <1>2, <2>1 DEF DebitsAllowed
<1>6. ASSUME l \in MovesListed PROVE k \in MovesListed
  BY <1>2, <1>3, <1>6 DEF MovesListed
<1> QED
  BY <1>5, <1>6 DEF k, m

\* The ledger before a step is one of them.
LEMMA NowAllowed ==
  ASSUME TypeOK
  PROVE  /\ ledger \in LooseLedger
         /\ ledger \in DebitsAllowed
         /\ ledger \in MovesListed
         /\ DebitsAllowed \in SUBSET LooseLedger
         /\ MovesListed \in SUBSET LooseLedger
<1>1. ledger \in LooseLedger
  BY ConstantsAssumption DEF TypeOK, Ledger, Amount, LooseLedger
<1>2. \A a \in Account : ledger.balance[a] \in Int
  BY <1>1 DEF LooseLedger
<1>3. ledger \in DebitsAllowed /\ ledger \in MovesListed
  BY <1>1, <1>2 DEF DebitsAllowed, MovesListed
<1> QED
  BY <1>1, <1>3 DEF DebitsAllowed, MovesListed

\* Wallet transfers and batches of them: the hook runs on every leg.
LEMMA TransfersAllowed ==
  ASSUME TypeOK, TransferNext
  PROVE  ledger' \in DebitsAllowed /\ ledger' \in MovesListed
<1>1. ASSUME NEW from \in Account, NEW to \in Account, NEW amount \in Amount,
             WalletTransfer(from, to, amount)
      PROVE  ledger' \in DebitsAllowed /\ ledger' \in MovesListed
  BY <1>1, NowAllowed, TransferAllowed DEF WalletTransfer
<1>2. ASSUME NEW from \in Account, NEW n \in 1..MaxBatch,
             NEW legs \in [1..n -> TransferLeg], BatchTransfer(from, n, legs)
      PROVE  ledger' \in DebitsAllowed /\ ledger' \in MovesListed
  <2> DEFINE moves == [i \in 1..n |->
                         Transfer(from, legs[i].to, legs[i].amount)]
             trace == LedgerTrace(n, moves)
  <2>1. n \in Nat /\ moves \in [1..n -> Move]
    BY ConstantsAssumption DEF TransferLeg, Transfer, Move
  <2>2. /\ \A i \in 1..n :
              TransferChecked(trace[i-1], from, legs[i].to, legs[i].amount)
        /\ ledger' = trace[n]
    BY <1>2 DEF BatchTransfer, LegsAccepted, TransferMoves
  <2>3. ASSUME NEW i \in 1..n, trace[i-1] \in LooseLedger
        PROVE  /\ trace[i-1] \in DebitsAllowed =>
                    Moved(trace[i-1], moves[i]) \in DebitsAllowed
               /\ trace[i-1] \in MovesListed =>
                    Moved(trace[i-1], moves[i]) \in MovesListed
    <3>1. legs[i].to \in Account /\ legs[i].amount \in Amount
      BY DEF TransferLeg
    <3>2. moves[i] = Transfer(from, legs[i].to, legs[i].amount)
      OBVIOUS
    <3>3. TransferChecked(trace[i-1], from, legs[i].to, legs[i].amount)
      BY <2>2
    <3> HIDE DEF trace, moves
    <3> QED
      BY <2>3, <3>1, <3>2, <3>3, TransferAllowed
  <2> HIDE DEF moves
  <2>4. trace[n] \in DebitsAllowed
    BY <2>1, <2>3, NowAllowed, BatchKeeps
  <2>5. trace[n] \in MovesListed
    BY <2>1, <2>3, NowAllowed, BatchKeeps
  <2> QED
    BY <2>2, <2>4, <2>5
<1> QED
  BY <1>1, <1>2 DEF TransferNext

\* Issuance, leg by leg, to accounts checked before the first leg.
LEMMA MintsAllowed ==
  ASSUME TypeOK, MintNext
  PROVE  ledger' \in DebitsAllowed /\ ledger' \in MovesListed
<1>1. ASSUME NEW signer \in Actor, NEW to \in Account, NEW amount \in Amount,
             MintTokens(signer, to, amount)
      PROVE  ledger' \in DebitsAllowed /\ ledger' \in MovesListed
  BY <1>1, NowAllowed, MintAllowed DEF MintTokens
<1>2. ASSUME NEW signer \in Actor, NEW n \in 1..MaxBatch,
             NEW legs \in [1..n -> MintLeg], BatchMint(signer, n, legs)
      PROVE  ledger' \in DebitsAllowed /\ ledger' \in MovesListed
  <2> DEFINE moves == [i \in 1..n |-> MintTo(legs[i].to, legs[i].amount)]
             trace == LedgerTrace(n, moves)
  <2>1. n \in Nat /\ moves \in [1..n -> Move]
    BY ConstantsAssumption DEF MintLeg, MintTo, Move
  <2>2. /\ VerifyTransferControlMode({legs[i].to : i \in 1..n})
        /\ ledger' = trace[n]
    BY <1>2 DEF BatchMint
  <2>3. ASSUME NEW i \in 1..n, trace[i-1] \in LooseLedger
        PROVE  /\ trace[i-1] \in DebitsAllowed =>
                    Moved(trace[i-1], moves[i]) \in DebitsAllowed
               /\ trace[i-1] \in MovesListed =>
                    Moved(trace[i-1], moves[i]) \in MovesListed
    <3>1. legs[i].to \in Account /\ legs[i].amount \in Amount
      BY DEF MintLeg
    <3>2. moves[i] = MintTo(legs[i].to, legs[i].amount)
      OBVIOUS
    <3>3. VerifyTransferControlMode({legs[i].to})
      BY <2>2, ListedEach
    <3> HIDE DEF trace, moves
    <3> QED
      BY <2>3, <3>1, <3>2, <3>3, MintAllowed
  <2> HIDE DEF moves
  <2>4. trace[n] \in DebitsAllowed
    BY <2>1, <2>3, NowAllowed, BatchKeeps
  <2>5. trace[n] \in MovesListed
    BY <2>1, <2>3, NowAllowed, BatchKeeps
  <2> QED
    BY <2>2, <2>4, <2>5
<1>3. ASSUME NEW signer, NEW cap, SetMaxSupply(signer, cap)
      PROVE  ledger' \in DebitsAllowed /\ ledger' \in MovesListed
  BY <1>3, NowAllowed DEF SetMaxSupply
<1> QED
  BY <1>1, <1>2, <1>3 DEF MintNext

\* What a step may debit and move.
MayDebit ==
    \A a \in Account :
        ledger'.balance[a] < ledger.balance[a] =>
            /\ ~freezeState[a].fully
            /\ ledger'.balance[a] >= freezeState[a].frozen + position'[a].held

MayMove ==
    \A a \in Account :
        ledger'.balance[a] # ledger.balance[a] => VerifyTransferControlMode({a})

\* An execution, which no hook sees, makes the hook's checks itself.
LEMMA ExecutionAllowed ==
  ASSUME TypeOK, NEW signer \in Actor, NEW a \in Account, NEW id \in HoldId,
         NEW to \in Account, NEW amount \in Amount,
         ExecuteHold(signer, a, id, to, amount)
  PROVE  MayDebit /\ MayMove
<1> DEFINE m == Transfer(a, to, amount)
<1>1. m \in Move /\ m.from = a /\ m.to = to /\ m.amount = amount
  BY DEF Transfer, Move
<1>2. /\ ledger' = Moved(ledger, m)
      /\ VerifyTransferControlMode({a, to})
      /\ SourceCovers(a, amount)
  BY DEF ExecuteHold, HoldTransfer
<1>3. position'[a].held = position[a].held - amount
  BY ReduceLienEffect DEF ExecuteHold, HoldStatus
<1> HIDE DEF m
<1>4. /\ ledger.balance[a] \in Int /\ freezeState[a].frozen \in Int
      /\ position[a].held \in Int /\ amount \in Int
  BY ConstantsAssumption DEF TypeOK, Ledger, FreezeState, HoldPosition, Amount
<1>5. ASSUME NEW b \in Account
      PROVE  /\ ledger.balance[b] \in Int /\ ledger'.balance[b] \in Int
             /\ a = to => ledger'.balance[b] = ledger.balance[b]
             /\ b # a => ledger'.balance[b] >= ledger.balance[b]
             /\ b # a /\ b # to => ledger'.balance[b] = ledger.balance[b]
  BY <1>1, <1>2, NowAllowed, MovedEnds
<1>6. MayDebit
  <2> SUFFICES ASSUME NEW b \in Account,
                      ledger'.balance[b] < ledger.balance[b]
               PROVE  /\ ~freezeState[b].fully
                      /\ ledger'.balance[b]
                            >= freezeState[b].frozen + position'[b].held
    BY DEF MayDebit
  <2>1. b = a /\ a # to
    BY <1>5
  <2>2. ledger'.balance[a] = ledger.balance[a] - amount
    BY <1>1, <1>2, <2>1 DEF Moved
  <2>3. /\ ~freezeState[a].fully
        /\ ledger.balance[a] >= freezeState[a].frozen
                                  + (position[a].held - amount) + amount
    BY <1>2 DEF SourceCovers, RequireLockedBalanceCovered
  <2> QED
    BY <1>3, <1>4, <2>1, <2>2, <2>3
<1>7. MayMove
  <2> SUFFICES ASSUME NEW b \in Account,
                      ledger'.balance[b] # ledger.balance[b]
               PROVE  VerifyTransferControlMode({b})
    BY DEF MayMove
  <2>1. b \in {a, to}
    BY <1>5
  <2> QED
    BY <1>2, <2>1, ListedEach
<1> QED
  BY <1>6, <1>7

\* Without a controller, every step debits and moves only what it may.
LEMMA UncontrolledStep ==
  ASSUME TypeOK, [Next]_vars, NoController
  PROVE  MayDebit /\ MayMove
<1>1. ASSUME ledger' = ledger PROVE MayDebit /\ MayMove
  <2>1. \A a \in Account : ledger.balance[a] \in Int
    BY NowAllowed DEF LooseLedger
  <2> QED
    BY <1>1, <2>1 DEF MayDebit, MayMove
<1>2. ASSUME ledger' \in DebitsAllowed, ledger' \in MovesListed,
             position' = position
      PROVE  MayDebit /\ MayMove
  BY <1>2 DEF DebitsAllowed, MovesListed, MayDebit, MayMove
<1>3. CASE UNCHANGED vars
  BY <1>1, <1>3 DEF vars
<1>4. CASE Tick \/ TransferControlNext \/ FreezeNext \/ LifecycleNext
  BY <1>1, <1>4, OthersKeepSupply
<1>5. CASE TransferNext
  <2>1. position' = position
    BY <1>5 DEF TransferNext, WalletTransfer, BatchTransfer
  <2> QED
    BY <1>2, <1>5, <2>1, TransfersAllowed
<1>6. CASE MintNext
  <2>1. position' = position
    BY <1>6 DEF MintNext, MintTokens, BatchMint, SetMaxSupply
  <2> QED
    BY <1>2, <1>6, <2>1, MintsAllowed
<1>7. CASE OperationsNext
  BY <1>7 DEF OperationsNext, ControllerTransfer, BurnTokens, BatchBurn,
              ControllerGate, RequireRole, NoController
<1>8. CASE HoldNext
  <2>1. ASSUME NEW a \in Account, NEW id \in HoldId, NEW amount \in Amount,
               NEW expiration, NEW escrow, NEW destination, NEW signer,
               \/ CreateHold(a, id, amount, expiration, escrow, destination)
               \/ ControllerCreateHold(signer, a, id, amount, expiration,
                                       escrow, destination)
               \/ ReleaseHold(signer, a, id, amount)
        PROVE  ledger' = ledger
    BY <2>1 DEF CreateHold, ControllerCreateHold, ReleaseHold
  <2>2. ASSUME NEW a \in Account, NEW id \in HoldId, ReclaimHold(a, id)
        PROVE  ledger' = ledger
    BY <2>2 DEF ReclaimHold
  <2> QED
    BY <1>1, <1>8, <2>1, <2>2, ExecutionAllowed DEF HoldNext
<1> QED
  BY <1>3, <1>4, <1>5, <1>6, <1>7, <1>8 DEF Next

\* Unless someone is a controller, no order of instructions takes frozen or
\* held tokens out of an account, on the hook's paths or beside them.
THEOREM FreezesBindDebits == Spec => DebitsRespectFreezes
<1>1. TypeOK /\ [Next]_vars =>
        [NoController => \A a \in Account :
           ledger'.balance[a] < ledger.balance[a] =>
              /\ ~freezeState[a].fully
              /\ ledger'.balance[a] >= freezeState[a].frozen + position'[a].held
        ]_vars
  BY UncontrolledStep DEF MayDebit
<1> QED
  BY <1>1, TypeCorrect, PTL DEF Spec, DebitsRespectFreezes

\* Unless someone is a controller, no balance changes on an account that the
\* control list in force excludes, in any leg of any batch.
THEOREM ControlListBindsMoves == Spec => MovesRespectControlList
<1>1. TypeOK /\ [Next]_vars =>
        [NoController => \A a \in Account :
           ledger'.balance[a] # ledger.balance[a] =>
              VerifyTransferControlMode({a})
        ]_vars
  BY UncontrolledStep DEF MayMove
<1> QED
  BY <1>1, TypeCorrect, PTL DEF Spec, MovesRespectControlList

-----------------------------------------------------------------------------
(***************************************************************************)
(* What no instruction can do to a mint that is paused, deactivated or     *)
(* without an administrator.  Each proof visits every handler of every     *)
(* program: one that forgets its gate would show here.                     *)
(***************************************************************************)

\* The flags that the lifecycle programs alone may write.
GovernanceUnchanged == UNCHANGED <<paused, deactivated, roles>>

\* Control lists, freezes and liens do not touch them.
LEMMA AccountProgramsKeepGovernance ==
  ASSUME Tick \/ TransferControlNext \/ FreezeNext \/ HoldNext
  PROVE  GovernanceUnchanged
<1>1. CASE Tick
  BY <1>1 DEF Tick, GovernanceUnchanged
<1>2. CASE TransferControlNext
  BY <1>2 DEF TransferControlNext, InitializeMode, AddToControlList,
              RemoveFromControlList, GovernanceUnchanged
<1>3. CASE FreezeNext
  <2>1. \A kind, signer, leg : FreezeOne(kind, signer, leg)
                                 => GovernanceUnchanged
    BY DEF FreezeOne, GovernanceUnchanged
  <2>2. \A kind, signer, n, legs : FreezeBatch(kind, signer, n, legs)
                                     => GovernanceUnchanged
    BY DEF FreezeBatch, GovernanceUnchanged
  <2> QED
    BY <1>3, <2>1, <2>2
       DEF FreezeNext, FreezeAccount, UnfreezeAccount, FreezeAccountPartial,
           UnfreezeAccountPartial, BatchFreezeAccount, BatchUnfreezeAccount,
           BatchFreezeAccountPartial, BatchUnfreezeAccountPartial
<1>4. CASE HoldNext
  <2>1. \A a, id, amount, expiration, escrow, destination :
          CreateHold(a, id, amount, expiration, escrow, destination)
            => GovernanceUnchanged
    BY DEF CreateHold, GovernanceUnchanged
  <2>2. \A signer, a, id, amount, expiration, escrow, destination :
          ControllerCreateHold(signer, a, id, amount, expiration, escrow,
                               destination)
            => GovernanceUnchanged
    BY DEF ControllerCreateHold, GovernanceUnchanged
  <2>3. \A signer, a, id, to, amount : ExecuteHold(signer, a, id, to, amount)
                                         => GovernanceUnchanged
    BY DEF ExecuteHold, GovernanceUnchanged
  <2>4. \A signer, a, id, amount :
          ReleaseHold(signer, a, id, amount) \/ ReclaimHold(a, id)
            => GovernanceUnchanged
    BY DEF ReleaseHold, ReclaimHold, GovernanceUnchanged
  <2> QED
    BY <1>4, <2>1, <2>2, <2>3, <2>4 DEF HoldNext
<1> QED
  BY <1>1, <1>2, <1>3, <1>4

\* Nor do the programs that move tokens.
LEMMA TokenProgramsKeepGovernance ==
  ASSUME TransferNext \/ OperationsNext \/ MintNext
  PROVE  GovernanceUnchanged
<1>1. CASE TransferNext
  BY <1>1 DEF TransferNext, WalletTransfer, BatchTransfer, GovernanceUnchanged
<1>2. CASE OperationsNext
  BY <1>2 DEF OperationsNext, ControllerTransfer, BurnTokens, BatchBurn,
              GovernanceUnchanged
<1>3. CASE MintNext
  BY <1>3 DEF MintNext, MintTokens, BatchMint, SetMaxSupply,
              GovernanceUnchanged
<1> QED
  BY <1>1, <1>2, <1>3

\* So a step writes a flag through a lifecycle program or not at all.
LEMMA GovernanceStep ==
  ASSUME [Next]_vars
  PROVE  LifecycleNext \/ GovernanceUnchanged
<1>1. CASE UNCHANGED vars
  BY <1>1 DEF vars, GovernanceUnchanged
<1> QED
  BY <1>1, AccountProgramsKeepGovernance, TokenProgramsKeepGovernance DEF Next

\* No order of pausing, unpausing and deactivating leaves the mint paused for
\* ever: deactivate refuses a paused mint, pause a deactivated one.
THEOREM PauseExcludesDeactivation == Spec => []NeverPausedAndDeactivated
<1>1. Init => NeverPausedAndDeactivated
  BY DEF Init, NeverPausedAndDeactivated
<1>2. ASSUME NeverPausedAndDeactivated, [Next]_vars
      PROVE  NeverPausedAndDeactivated'
  <2>1. CASE GovernanceUnchanged
    BY <1>2, <2>1 DEF GovernanceUnchanged, NeverPausedAndDeactivated
  <2>2. CASE LifecycleNext
    BY <1>2, <2>2 DEF LifecycleNext, GrantRoles, RevokeRoles, PauseMint,
                      UnpauseMint, Deactivate, PauseGate, RequireActive,
                      RequireNotPaused, NeverPausedAndDeactivated
  <2> QED
    BY <1>2, <2>1, <2>2, GovernanceStep
<1> QED
  BY <1>1, <1>2, PTL DEF Spec

\* An asset that has lost its last administrator never has one again, nor
\* does any role change hands: only an administrator grants or revokes.
THEOREM AdminGoneForEver == Spec => AdminLossIsPermanent
<1>1. ASSUME [Next]_vars, \A s \in Actor : "ADMIN" \notin roles[s]
      PROVE  UNCHANGED roles
  <2>1. CASE GovernanceUnchanged
    BY <2>1 DEF GovernanceUnchanged
  <2>2. CASE LifecycleNext
    BY <1>1, <2>2 DEF LifecycleNext, GrantRoles, RevokeRoles, PauseMint,
                      UnpauseMint, Deactivate, AdminGate, RequireRole
  <2> QED
    BY <1>1, <2>1, <2>2, GovernanceStep
<1>2. [Next]_vars =>
        [(\A s \in Actor : "ADMIN" \notin roles[s]) => UNCHANGED roles]_vars
  BY <1>1
<1> QED
  BY <1>2, PTL DEF Spec, AdminLossIsPermanent

-----------------------------------------------------------------------------
(***************************************************************************)
(* Mints that are switched off, for a while or for ever.                   *)
(***************************************************************************)
SwitchedOff == paused \/ deactivated

\* Liens go down or stay; no hold is added.
LiensDissolve ==
    \A a \in Account : /\ position'[a].held <= position[a].held
                       /\ position'[a].count = position[a].count

\* Nothing that a token holder, an issuer or a compliance officer writes.
AssetUnchanged == UNCHANGED <<ledger, mode, controlList, freezeState, maxSupply>>

\* An instruction that leaves the positions alone leaves the liens.
LEMMA SamePositions ==
  ASSUME TypeOK, UNCHANGED position
  PROVE  LiensDissolve
BY ConstantsAssumption DEF TypeOK, HoldPosition, Amount, LiensDissolve

\* The transfer-control and freeze programs refuse such a mint.
LEMMA CompliancePause ==
  ASSUME SwitchedOff
  PROVE  ~(TransferControlNext \/ FreezeNext)
<1>1. \A signer, f : ~ControlListGate(signer, f)
  BY DEF ControlListGate, RequireNotPaused, RequireActive, SwitchedOff
<1>2. \A signer, kind : ~FreezeGate(signer, kind)
  BY DEF FreezeGate, RequireNotPaused, RequireActive, SwitchedOff
<1>3. ~TransferControlNext
  BY <1>1 DEF TransferControlNext, InitializeMode, AddToControlList,
              RemoveFromControlList
<1>4. \A kind, signer, leg : ~FreezeOne(kind, signer, leg)
  BY <1>2 DEF FreezeOne
<1>5. \A kind, signer, n, legs : ~FreezeBatch(kind, signer, n, legs)
  BY <1>2 DEF FreezeBatch
<1>6. ~FreezeNext
  BY <1>4, <1>5
     DEF FreezeNext, FreezeAccount, UnfreezeAccount, FreezeAccountPartial,
         UnfreezeAccountPartial, BatchFreezeAccount, BatchUnfreezeAccount,
         BatchFreezeAccountPartial, BatchUnfreezeAccountPartial
<1> QED
  BY <1>3, <1>6

\* Resolving part of a hold lowers its account's lien and no other.
LEMMA ReduceLienDissolves ==
  ASSUME TypeOK, NEW a \in Account, NEW id \in HoldId, NEW amount \in Nat,
         NEW status, ReduceLien(a, id, amount, status)
  PROVE  LiensDissolve
<1> DEFINE pos == [position[a] EXCEPT !.held = @ - amount]
<1>1. position \in [Account -> HoldPosition] /\ position[a] \in HoldPosition
  BY DEF TypeOK
<1>2. position' = [position EXCEPT ![a] = pos]
  BY <1>1 DEF ReduceLien
<1>3. pos.held <= position[a].held /\ pos.count = position[a].count
  BY <1>1, ConstantsAssumption DEF HoldPosition, Amount
<1>4. \A b \in Account : position[b].held <= position[b].held
  BY <1>1, ConstantsAssumption DEF HoldPosition, Amount
<1> HIDE DEF pos
<1> QED
  BY <1>1, <1>2, <1>3, <1>4 DEF LiensDissolve

\* Of the hold program only release_hold and reclaim_hold accept it.
LEMMA HoldsDissolve ==
  ASSUME TypeOK, SwitchedOff, HoldNext
  PROVE  AssetUnchanged /\ LiensDissolve
<1>1. ~HoldGate
  BY DEF HoldGate, RequireNotPaused, RequireActive, SwitchedOff
<1>2. PICK a \in Account, id \in HoldId :
        \/ ReclaimHold(a, id)
        \/ \E signer \in Actor, amount \in Amount :
              ReleaseHold(signer, a, id, amount)
  <2>1. \A a, id, amount, expiration, escrow, destination :
          ~CreateHold(a, id, amount, expiration, escrow, destination)
    BY <1>1 DEF CreateHold
  <2>2. \A signer, a, id, amount, expiration, escrow, destination :
          ~ControllerCreateHold(signer, a, id, amount, expiration, escrow,
                                destination)
    BY <1>1 DEF ControllerCreateHold
  <2>3. \A signer, a, id, to, amount : ~ExecuteHold(signer, a, id, to, amount)
    BY <1>1 DEF ExecuteHold
  <2> QED
    BY <2>1, <2>2, <2>3 DEF HoldNext
<1>3. CASE ReclaimHold(a, id)
  <2>1. holds[a][id] \in Hold
    BY <1>3 DEF ReclaimHold, ActiveHold, TypeOK
  <2>2. holds[a][id].current \in Nat
    BY <2>1, ConstantsAssumption DEF Hold, Amount
  <2> QED
    BY <1>3, <2>2, ReduceLienDissolves DEF ReclaimHold, AssetUnchanged
<1>4. ASSUME NEW signer \in Actor, NEW amount \in Amount,
             ReleaseHold(signer, a, id, amount)
      PROVE  AssetUnchanged /\ LiensDissolve
  <2>1. amount \in Nat
    BY ConstantsAssumption DEF Amount
  <2> QED
    BY <1>4, <2>1, ReduceLienDissolves DEF ReleaseHold, AssetUnchanged
<1> QED
  BY <1>2, <1>3, <1>4

\* Seizures and burns: the marker is consulted by the handlers, the pause flag
\* by Token-2022, in the first leg of a batch.
LEMMA OperationsStop ==
  ASSUME SwitchedOff
  PROVE  ~OperationsNext
<1>1. CASE deactivated
  BY <1>1 DEF OperationsNext, ControllerTransfer, BurnTokens, BatchBurn,
              ControllerGate, RequireActive
<1>2. CASE paused
  <2>1. \A l, m : ~MoveAccepted(l, m)
    BY <1>2 DEF MoveAccepted
  <2>2. \A n \in 1..MaxBatch : 1 \in 1..n
    BY ConstantsAssumption
  <2> QED
    BY <2>1, <2>2 DEF OperationsNext, ControllerTransfer, BurnTokens, BatchBurn
<1> QED
  BY <1>1, <1>2 DEF SwitchedOff

\* Issuance stops likewise, and the cap cannot be moved.
LEMMA MintStops ==
  ASSUME SwitchedOff
  PROVE  ~MintNext
<1>1. CASE deactivated
  BY <1>1 DEF MintNext, MintTokens, BatchMint, SetMaxSupply, MintGate,
              RequireActive
<1>2. CASE paused
  <2>1. \A l, m : ~MoveAccepted(l, m)
    BY <1>2 DEF MoveAccepted
  <2>2. \A n \in 1..MaxBatch : 1 \in 1..n
    BY ConstantsAssumption
  <2> QED
    BY <1>2, <2>1, <2>2 DEF MintNext, MintTokens, BatchMint, SetMaxSupply,
                            RequireNotPaused
<1> QED
  BY <1>1, <1>2 DEF SwitchedOff

\* Transfers on a deactivated mint get past the hook only from an account to
\* itself, where it is not called; those move nothing, however many a batch
\* strings together.
LEMMA TransfersStop ==
  ASSUME TypeOK, SwitchedOff, TransferNext
  PROVE  AssetUnchanged /\ UNCHANGED position
<1>1. ~paused
  <2>1. paused => \A l, m : ~MoveAccepted(l, m)
    BY DEF MoveAccepted
  <2>2. \A n \in 1..MaxBatch : 1 \in 1..n
    BY ConstantsAssumption
  <2> QED
    BY <2>1, <2>2, ZenonT(60) DEF TransferNext, WalletTransfer, BatchTransfer,
                      LegsAccepted, TransferChecked
<1>2. ASSUME NEW l, NEW from, NEW to, NEW amount,
             TransferChecked(l, from, to, amount)
      PROVE  to = from
  BY <1>1, <1>2 DEF TransferChecked, Execute, RequireActive, SwitchedOff
<1>3. \A l, from, amount : Moved(l, Transfer(from, from, amount)) = l
  BY DEF Moved, Transfer
<1>4. ASSUME NEW from \in Account, NEW to \in Account, NEW amount \in Amount,
             WalletTransfer(from, to, amount)
      PROVE  AssetUnchanged /\ UNCHANGED position
  BY <1>2, <1>3, <1>4 DEF WalletTransfer, AssetUnchanged
<1>5. ASSUME NEW from \in Account, NEW n \in 1..MaxBatch,
             NEW legs \in [1..n -> TransferLeg], BatchTransfer(from, n, legs)
      PROVE  AssetUnchanged /\ UNCHANGED position
  <2> DEFINE moves == [i \in 1..n |->
                         Transfer(from, legs[i].to, legs[i].amount)]
             trace == LedgerTrace(n, moves)
             S == {i \in 0..n : trace[i] = ledger}
  <2>1. n \in Nat /\ moves \in [1..n -> Move]
    BY ConstantsAssumption DEF TransferLeg, Transfer, Move
  <2>2. ledger \in LooseLedger
    BY ConstantsAssumption DEF TypeOK, Ledger, Amount, LooseLedger
  <2>3. /\ trace[0] = ledger
        /\ \A i \in 1..n : trace[i] = Moved(trace[i-1], moves[i])
    <3> HIDE DEF moves
    <3> QED
      BY <2>1, <2>2, LedgerTraceSteps
  <2>4. ledger' = trace[n]
    BY <1>5 DEF BatchTransfer, LegsAccepted, TransferMoves
  <2>5. \A i \in 1..n :
          TransferChecked(trace[i-1], from, legs[i].to, legs[i].amount)
    BY <1>5 DEF BatchTransfer, LegsAccepted, TransferMoves
  <2>6. \A i \in 1..n : legs[i].to = from
    BY <1>2, <2>5
  <2>7. \A i \in 1..n : moves[i] = Transfer(from, from, legs[i].amount)
    BY <2>6
  <2> HIDE DEF moves, trace
  <2>8. \A i \in 1..n : trace[i] = trace[i-1]
    BY <1>3, <2>3, <2>7
  <2>9. 0 \in S
    BY <2>1, <2>3
  <2>10. \A i \in 1..n : i - 1 \in S => i \in S
    BY <2>8
  <2>11. n \in S
    <3>1. n \in 0..n
      BY <2>1
    <3> HIDE DEF S
    <3> QED
      BY <2>1, <2>9, <2>10, <3>1, PrefixInduction
  <2> QED
    BY <1>5, <2>4, <2>11 DEF BatchTransfer, AssetUnchanged
<1> QED
  BY <1>4, <1>5 DEF TransferNext

\* Every instruction but those of the lifecycle programs: on a mint that is
\* switched off nothing changes except that liens dissolve.
LEMMA SwitchedOffStep ==
  ASSUME TypeOK, SwitchedOff, [Next]_vars, ~LifecycleNext
  PROVE  AssetUnchanged /\ LiensDissolve
<1>1. CASE UNCHANGED vars
  BY <1>1, SamePositions DEF vars, AssetUnchanged
<1>2. CASE Tick
  BY <1>2, SamePositions DEF Tick, AssetUnchanged
<1>3. CASE TransferNext
  BY <1>3, TransfersStop, SamePositions
<1> QED
  BY <1>1, <1>2, <1>3, CompliancePause, HoldsDissolve, OperationsStop,
     MintStops DEF Next

\* After deactivation nothing changes for ever, except that liens dissolve:
\* no sequence of instructions, no batch and no new role gets round the marker.
THEOREM DeactivationForEver == Spec => DeactivationIsFinal
<1>1. ASSUME deactivated PROVE ~LifecycleNext
  BY <1>1 DEF LifecycleNext, GrantRoles, RevokeRoles, PauseMint, UnpauseMint,
              Deactivate, AdminGate, PauseGate, RequireActive
<1> DEFINE Step == /\ deactivated'
                   /\ UNCHANGED <<ledger, paused, roles, mode, controlList,
                                  freezeState, maxSupply>>
                   /\ \A a \in Account :
                        /\ position'[a].held <= position[a].held
                        /\ position'[a].count = position[a].count
<1>2. ASSUME TypeOK, [Next]_vars, deactivated PROVE Step
  <2>1. GovernanceUnchanged
    BY <1>1, <1>2, GovernanceStep
  <2>2. AssetUnchanged /\ LiensDissolve
    BY <1>1, <1>2, SwitchedOffStep DEF SwitchedOff
  <2> QED
    BY <1>2, <2>1, <2>2 DEF GovernanceUnchanged, AssetUnchanged, LiensDissolve
<1>3. TypeOK /\ [Next]_vars => [deactivated => Step]_vars
  BY <1>2
<1> QED
  BY <1>3, TypeCorrect, PTL DEF Spec, DeactivationIsFinal

\* While the mint is paused only unpausing and the dissolution of liens change
\* anything, although mint, the burns and controller_transfer leave the flag
\* to Token-2022.
THEOREM PauseHalts == Spec => PauseHaltsTheAsset
<1> DEFINE Step == /\ UNCHANGED <<ledger, deactivated, roles, mode,
                                  controlList, freezeState, maxSupply>>
                   /\ \A a \in Account :
                        /\ position'[a].held <= position[a].held
                        /\ position'[a].count = position[a].count
<1>1. ASSUME TypeOK, paused, LifecycleNext PROVE Step
  <2>1. /\ UNCHANGED <<ledger, deactivated, roles, mode, controlList,
                       freezeState, maxSupply>>
        /\ UNCHANGED position
    BY <1>1 DEF LifecycleNext, GrantRoles, RevokeRoles, PauseMint, UnpauseMint,
                Deactivate, AdminGate, RequireNotPaused
  <2> QED
    BY <1>1, <2>1, SamePositions DEF LiensDissolve
<1>2. ASSUME TypeOK, [Next]_vars, paused PROVE Step
  <2>1. CASE LifecycleNext
    BY <1>1, <1>2, <2>1
  <2>2. CASE ~LifecycleNext
    <3>1. GovernanceUnchanged
      BY <1>2, <2>2, GovernanceStep
    <3>2. AssetUnchanged /\ LiensDissolve
      BY <1>2, <2>2, SwitchedOffStep DEF SwitchedOff
    <3> QED
      BY <3>1, <3>2 DEF GovernanceUnchanged, AssetUnchanged, LiensDissolve
  <2> QED
    BY <2>1, <2>2
<1>3. TypeOK /\ [Next]_vars => [paused => Step]_vars
  BY <1>2
<1> QED
  BY <1>3, TypeCorrect, PTL DEF Spec, PauseHaltsTheAsset

=============================================================================
