-------------------------- MODULE ServicingProofs --------------------------
(***************************************************************************)
(* Theorems about Servicing, for every value of its constants: coupons and *)
(* their snapshots, the lock of the payment token, what the treasury pays  *)
(* out, and the arithmetic of a payment.                                   *)
(***************************************************************************)
EXTENDS Distribution, Induction

-----------------------------------------------------------------------------
(***************************************************************************)
(* The arithmetic of a payment.                                            *)
(***************************************************************************)

\* The power of ten a payment is scaled by is positive.
LEMMA PowerPositive ==
  ASSUME NEW n \in Nat
  PROVE  PowerOfTen(n) \in Nat /\ PowerOfTen(n) > 0
<1> DEFINE P == Nat \ {0}
           step == [i \in 1..n |-> [x \in P |-> 10 * x]]
           F(t) == [i \in 0..n |-> IF i = 0 THEN 1 ELSE 10 * t[i-1]]
           power == CHOOSE t : t = F(t)
<1>1. step \in Steps(n, P) /\ 1 \in P
  BY DEF Steps
<1>2. PICK f : IsTrace(n, P, 1, step, f)
  <2> HIDE DEF step, P
  <2> QED
    BY <1>1, PrefixRecursion
<1>3. ASSUME NEW i \in 1..n PROVE f[i] = 10 * f[i-1]
  <2>1. f[i-1] \in P
    BY <1>2 DEF IsTrace
  <2> QED
    BY <1>2, <2>1 DEF IsTrace
<1>4. f = F(f)
  BY <1>2, <1>3 DEF IsTrace
<1>5. PowerOfTen(n) = power[n]
  BY DEF PowerOfTen
<1>6. power = F(power)
  <2> HIDE DEF F
  <2> QED
    BY <1>4
<1>7. power[0] = 1 /\ \A i \in 1..n : power[i] = 10 * power[i-1]
  <2> HIDE DEF power
  <2> QED
    BY <1>6
<1> HIDE DEF power
<1> DEFINE S == {i \in 0..n : power[i] \in P}
<1>8. 0 \in S
  BY <1>7
<1>9. \A i \in 1..n : i - 1 \in S => i \in S
  BY <1>7
<1>10. n \in S
  <2> HIDE DEF S
  <2>1. n \in 0..n
    OBVIOUS
  <2> QED
    BY <1>8, <1>9, <2>1, PrefixInduction
<1> QED
  BY <1>5, <1>10

\* A payout is a multiple of the balance over a positive denominator: neither
\* depends on who is paid.
LEMMA PayoutLinear ==
  ASSUME treasury \in TreasuryConfig, bondTerms \in TermsArg,
         NEW coupon \in Coupon
  PROVE  \E c \in Int, d \in Nat :
            /\ d > 0
            /\ Elapsed(coupon) > 0 => c >= 0
            /\ \A balance \in Nat :
                 Payout(coupon, balance) = (c * balance) \div d
<1> DEFINE r == EffectiveRate(coupon)
           power == PaymentDecimals[treasury.mint]
                      - (r.decimals + MintDecimals + bondTerms.parDecimals)
           scale == PowerOfTen(IF power >= 0 THEN power ELSE -power)
           year == YearSeconds[bondTerms.convention]
           unit == r.rate * bondTerms.par * Elapsed(coupon)
           c == IF power >= 0 THEN unit * scale ELSE unit
           d == IF power >= 0 THEN year ELSE year * scale
<1>1. /\ bondTerms.rate \in Nat /\ bondTerms.rateDecimals \in Nat
      /\ bondTerms.par \in Nat /\ bondTerms.parDecimals \in Nat
      /\ bondTerms.convention \in Convention
  BY ServicingAssumption DEF BondTerms
<1>2. /\ r.rate \in Nat /\ r.decimals \in Nat
  <2>1. /\ coupon.rate \in RateArg \cup {NoPda}
        /\ coupon.rateDecimals \in DecimalsArg \cup {NoPda}
    BY DEF Coupon
  <2> QED
    BY <1>1, <2>1, ServicingAssumption DEF EffectiveRate
<1>3. power \in Int
  <2>1. PaymentDecimals[treasury.mint] \in Nat /\ MintDecimals \in Nat
    BY ServicingAssumption DEF TreasuryConfig
  <2> HIDE DEF r
  <2> QED
    BY <1>1, <1>2, <2>1
<1> HIDE DEF power
<1>4. scale \in Nat /\ scale > 0
  <2>1. (IF power >= 0 THEN power ELSE -power) \in Nat
    BY <1>3
  <2> QED
    BY <2>1, PowerPositive
<1>5. year \in Nat /\ year > 0
  BY <1>1, ServicingAssumption
<1>6. Elapsed(coupon) \in Int
  BY DEF Elapsed, Coupon
<1>7. unit \in Int /\ (Elapsed(coupon) > 0 => unit >= 0)
  <2> HIDE DEF r
  <2>1. r.rate * bondTerms.par \in Nat
    BY <1>1, <1>2
  <2> QED
    BY <1>6, <2>1
<1> HIDE DEF r, scale, year
<1>8. c \in Int /\ (Elapsed(coupon) > 0 => c >= 0) /\ d \in Nat /\ d > 0
  <2> HIDE DEF unit
  <2> QED
    BY <1>4, <1>5, <1>7
<1>9. ASSUME NEW balance \in Nat
      PROVE  Payout(coupon, balance) = (c * balance) \div d
  <2> DEFINE base == r.rate * balance * bondTerms.par * Elapsed(coupon)
  <2>1. Payout(coupon, balance)
          = (IF power >= 0 THEN base * scale ELSE base) \div d
    BY DEF Payout, PayoutFraction, r, power, scale, year
  <2>2. base = unit * balance
    BY <1>1, <1>2, <1>6
  <2>3. base * scale = unit * scale * balance
    <3> HIDE DEF unit, base
    <3> QED
      BY <1>4, <1>7, <2>2
  <2> HIDE DEF base, unit
  <2> QED
    BY <2>1, <2>2, <2>3
<1> HIDE DEF c, d
<1> QED
  BY <1>8, <1>9

\* Division that rounds down pays two parts no more than the whole.
LEMMA FloorsAdd ==
  ASSUME NEW a \in Int, NEW b \in Int, NEW d \in Nat, d > 0
  PROVE  (a \div d) + (b \div d) <= (a + b) \div d
<1> DEFINE p == a \div d
           q == b \div d
           w == (a + b) \div d
<1>1. p \in Int /\ q \in Int /\ w \in Int
  OBVIOUS
<1>2. d * p <= a /\ d * q <= b /\ a + b < d * (w + 1)
  OBVIOUS
<1> HIDE DEF p, q, w
<1>3. d * (p + q) = d * p + d * q
  BY <1>1
<1>4. d * (p + q) < d * (w + 1)
  BY <1>1, <1>2, <1>3
<1>5. p + q < w + 1
  BY <1>1, <1>4
<1>6. p + q <= w
  BY <1>1, <1>5
<1> QED
  BY <1>6 DEF p, q, w

\* What is paid for a positive period is a natural number.
LEMMA PayoutTyped ==
  ASSUME treasury \in TreasuryConfig, bondTerms \in TermsArg,
         NEW coupon \in Coupon, NEW balance \in Nat, Elapsed(coupon) > 0
  PROVE  Payout(coupon, balance) \in Nat
<1>1. PICK c \in Int, d \in Nat :
            /\ d > 0
            /\ c >= 0
            /\ Payout(coupon, balance) = (c * balance) \div d
  BY PayoutLinear
<1>2. c * balance \in Nat
  BY <1>1
<1>3. (c * balance) \div d \in Nat
  BY <1>1, <1>2
<1> QED
  BY <1>1, <1>3

-----------------------------------------------------------------------------
(***************************************************************************)
(* The inductive invariant.                                                *)
(***************************************************************************)

\* What was funded and what was paid out are tokens of one mint.
FundsFit == \A m \in PaymentMint : funds[m] + received[m] <= MaxAmount

\* The coupon that holds the lock has been paid to someone.
LockedByPayment ==
    treasury # NoPda =>
       (treasury.locked # 0 =>
          /\ treasury.locked <= couponCount
          /\ \E a \in Account : paid[treasury.locked][a] # NoPda)

ServicingInv ==
    /\ now \in Int
    /\ CouponsOwnTheirSnapshots
    /\ FundsFit
    /\ LockedByPayment
    /\ PaymentsAccountedFor

\* Coupon and snapshot ids are numbers.
LEMMA IdsTyped ==
  /\ \A i \in CouponId : i \in Nat /\ i - 1 \in SnapshotId
  /\ 0..MaxCount \subseteq Nat
  /\ MaxCount \in Nat
BY ServicingAssumption DEF CouponId, SnapshotId

\* create_coupon keeps it: the coupon and the snapshot it takes are new, and
\* the older ones keep theirs.
LEMMA CreateCouponInv ==
  ASSUME ServicingInv, UNCHANGED vars,
         NEW signer \in Actor, NEW id \in CouponId,
         NEW rate \in RateArg \cup {NoPda},
         NEW decimals \in DecimalsArg \cup {NoPda},
         NEW dates \in CouponDates, NEW root \in Tree,
         CreateCoupon(signer, id, dates, rate, decimals, root)
  PROVE  ServicingInv'
<1> DEFINE coupon == [snapshot |-> snapshotCount, start |-> dates.start,
                      end |-> dates.end, payment |-> dates.payment,
                      rate |-> rate, rateDecimals |-> decimals]
<1>1. /\ ServicingTypeOK
      /\ snapshotCount = couponCount
      /\ snapshotCount \in Nat
  BY IdsTyped DEF ServicingInv, CouponsOwnTheirSnapshots, ServicingTypeOK
<1>2. /\ id = couponCount + 1
      /\ couponCount' = id
      /\ snapshotCount < MaxCount
      /\ roots' = [roots EXCEPT ![snapshotCount] = root]
      /\ snapshotCount' = snapshotCount + 1
      /\ coupons[id] = NoPda
      /\ roots[snapshotCount] = NoPda
      /\ coupons' = [coupons EXCEPT ![id] = coupon]
      /\ UNCHANGED <<bondTerms, treasury, paid, funds, received>>
  BY DEF CreateCoupon, TakeSnapshot, NextSnapshotId
<1>3. coupon \in Coupon /\ coupon.snapshot = id - 1
  <2>1. snapshotCount \in SnapshotId
    BY <1>1, <1>2, IdsTyped DEF SnapshotId
  <2>2. dates.start \in Int /\ dates.end \in Int /\ dates.payment \in Int
    BY ServicingAssumption
  <2>3. (rate = NoPda) <=> (decimals = NoPda)
    BY DEF CreateCoupon, RateConsistent
  <2> QED
    BY <1>1, <1>2, <2>1, <2>2, <2>3 DEF Coupon
<1>4. coupon # NoPda /\ root # NoPda
  BY <1>3, ServicingAssumption
<1> HIDE DEF coupon
<1>5. /\ coupons'[id] = coupon
      /\ \A i \in CouponId \ {id} : coupons'[i] = coupons[i]
      /\ coupons' \in [CouponId -> Coupon \cup {NoPda}]
  BY <1>1, <1>2, <1>3 DEF ServicingTypeOK
<1>6. /\ roots'[id - 1] = root
      /\ \A i \in CouponId \ {id} : roots'[i - 1] = roots[i - 1]
      /\ roots' \in [SnapshotId -> Tree \cup {NoPda}]
  <2>1. id - 1 = snapshotCount /\ id - 1 \in SnapshotId
    BY <1>1, <1>2, IdsTyped
  <2>2. roots \in [SnapshotId -> Tree \cup {NoPda}]
    BY <1>1 DEF ServicingTypeOK
  <2>3. \A i \in CouponId \ {id} : i - 1 \in SnapshotId /\ i - 1 # id - 1
    BY IdsTyped
  <2> QED
    BY <1>2, <2>1, <2>2, <2>3
<1>7. ServicingTypeOK'
  <2>1. snapshotCount' \in 0..MaxCount /\ couponCount' \in 0..MaxCount
    BY <1>1, <1>2, IdsTyped DEF CouponId
  <2> QED
    BY <1>1, <1>2, <1>5, <1>6, <2>1 DEF ServicingTypeOK
<1>8. CouponsOwnTheirSnapshots'
  <2>1. snapshotCount' = couponCount'
    BY <1>1, <1>2
  <2>2. ASSUME NEW i \in CouponId
        PROVE  /\ (coupons'[i] # NoPda) <=> (i <= couponCount')
               /\ (roots'[i - 1] # NoPda) <=> (i <= snapshotCount')
               /\ coupons'[i] # NoPda => coupons'[i].snapshot = i - 1
    <3>1. CASE i = id
      BY <1>1, <1>2, <1>3, <1>4, <1>5, <1>6, <3>1, IdsTyped
    <3>2. CASE i # id
      <4>1. /\ (coupons[i] # NoPda) <=> (i <= couponCount)
            /\ (roots[i - 1] # NoPda) <=> (i <= snapshotCount)
            /\ coupons[i] # NoPda => coupons[i].snapshot = i - 1
        BY DEF ServicingInv, CouponsOwnTheirSnapshots
      <4> QED
        BY <1>1, <1>2, <1>5, <1>6, <3>2, <4>1, IdsTyped
    <3> QED
      BY <3>1, <3>2
  <2> QED
    BY <1>7, <2>1, <2>2 DEF CouponsOwnTheirSnapshots
<1>9. LockedByPayment'
  <2>1. treasury # NoPda => treasury.locked \in Nat
    BY <1>1, IdsTyped DEF ServicingTypeOK, TreasuryConfig
  <2> QED
    BY <1>1, <1>2, <2>1, IdsTyped DEF ServicingInv, LockedByPayment
<1>10. PaymentsAccountedFor'
  <2>1. Marked' = Marked
    BY <1>2 DEF Marked
  <2>2. ASSUME NEW i \in CouponId, NEW a \in Account, paid[i][a] # NoPda
        PROVE  /\ coupons'[i] # NoPda
               /\ now' >= coupons'[i].payment
               /\ a \in DOMAIN roots'[coupons'[i].snapshot]
    <3>1. /\ coupons[i] # NoPda
          /\ now >= coupons[i].payment
          /\ a \in DOMAIN roots[coupons[i].snapshot]
      BY <2>2 DEF ServicingInv, PaymentsAccountedFor
    <3>2. i # id /\ coupons[i].snapshot = i - 1
      BY <1>2, <3>1 DEF ServicingInv, CouponsOwnTheirSnapshots
    <3>3. coupons'[i] = coupons[i] /\ roots'[i - 1] = roots[i - 1]
      BY <1>5, <1>6, <3>2
    <3> QED
      BY <3>1, <3>2, <3>3 DEF vars
  <2> QED
    BY <1>2, <2>1, <2>2 DEF ServicingInv, PaymentsAccountedFor
<1> QED
  BY <1>2, <1>8, <1>9, <1>10 DEF ServicingInv, FundsFit, vars

\* set_coupon_rate keeps it: nothing but the rate is written.
LEMMA SetCouponRateInv ==
  ASSUME ServicingInv, UNCHANGED vars,
         NEW signer \in Actor, NEW id \in CouponId,
         NEW rate \in RateArg \cup {NoPda},
         NEW decimals \in DecimalsArg \cup {NoPda},
         SetCouponRate(signer, id, rate, decimals)
  PROVE  /\ ServicingInv'
         /\ \A i \in CouponId : coupons[i] # NoPda =>
              /\ coupons'[i] # NoPda
              /\ coupons'[i].snapshot = coupons[i].snapshot
              /\ coupons'[i].payment = coupons[i].payment
              /\ coupons'[i].start = coupons[i].start
              /\ coupons'[i].end = coupons[i].end
<1> DEFINE coupon == [coupons[id] EXCEPT !.rate = rate,
                                         !.rateDecimals = decimals]
<1>1. ServicingTypeOK
  BY DEF ServicingInv, CouponsOwnTheirSnapshots
<1>2. coupons[id] # NoPda /\ coupons[id] \in Coupon
  BY <1>1 DEF SetCouponRate, ServicingTypeOK
<1>3. /\ coupons' = [coupons EXCEPT ![id] = coupon]
      /\ (rate = NoPda) <=> (decimals = NoPda)
      /\ UNCHANGED <<bondTerms, snapshotCount, roots, couponCount, treasury,
                     paid, funds, received>>
  BY <1>1, <1>2 DEF SetCouponRate, RateConsistent, ServicingTypeOK
<1>4. /\ coupon \in Coupon
      /\ coupon.snapshot = coupons[id].snapshot
      /\ coupon.payment = coupons[id].payment
      /\ coupon.start = coupons[id].start
      /\ coupon.end = coupons[id].end
  BY <1>2, <1>3 DEF Coupon
<1> HIDE DEF coupon
<1>5. coupon # NoPda
  BY <1>4, ServicingAssumption
<1>6. /\ coupons' \in [CouponId -> Coupon \cup {NoPda}]
      /\ coupons'[id] = coupon
      /\ \A i \in CouponId \ {id} : coupons'[i] = coupons[i]
  BY <1>1, <1>3, <1>4 DEF ServicingTypeOK
<1>7. \A i \in CouponId :
        /\ (coupons'[i] # NoPda) <=> (coupons[i] # NoPda)
        /\ coupons[i] # NoPda =>
             /\ coupons'[i].snapshot = coupons[i].snapshot
             /\ coupons'[i].payment = coupons[i].payment
             /\ coupons'[i].start = coupons[i].start
             /\ coupons'[i].end = coupons[i].end
  BY <1>2, <1>4, <1>5, <1>6
<1>8. CouponsOwnTheirSnapshots'
  <2>1. ServicingTypeOK'
    BY <1>1, <1>3, <1>6 DEF ServicingTypeOK
  <2> QED
    BY <1>3, <1>7, <2>1 DEF ServicingInv, CouponsOwnTheirSnapshots
<1>9. PaymentsAccountedFor'
  <2>1. Marked' = Marked
    BY <1>3 DEF Marked
  <2> QED
    BY <1>3, <1>7, <2>1 DEF ServicingInv, PaymentsAccountedFor, vars
<1>10. FundsFit' /\ LockedByPayment' /\ now' \in Int
  BY <1>3 DEF ServicingInv, FundsFit, LockedByPayment, vars
<1> QED
  BY <1>7, <1>8, <1>9, <1>10 DEF ServicingInv

\* set_payment_token keeps it: the lock survives, and a new configuration has
\* none.
LEMMA SetPaymentTokenInv ==
  ASSUME ServicingInv, UNCHANGED vars,
         NEW signer \in Actor, NEW mint \in PaymentMint,
         SetPaymentToken(signer, mint)
  PROVE  ServicingInv'
<1>1. ServicingTypeOK
  BY DEF ServicingInv, CouponsOwnTheirSnapshots
<1>2. UNCHANGED <<bondTerms, snapshotCount, roots, couponCount, coupons, paid,
                  funds, received>>
  BY DEF SetPaymentToken
<1>3. /\ treasury' \in TreasuryConfig
      /\ treasury'.locked = IF treasury = NoPda THEN 0 ELSE treasury.locked
  <2>1. CASE treasury = NoPda
    BY <2>1, IdsTyped DEF SetPaymentToken, TreasuryConfig
  <2>2. CASE treasury # NoPda
    <3>1. treasury \in TreasuryConfig
      BY <1>1, <2>2 DEF ServicingTypeOK
    <3>2. treasury' = [treasury EXCEPT !.mint = mint]
      BY <2>2 DEF SetPaymentToken
    <3> QED
      BY <2>2, <3>1, <3>2 DEF TreasuryConfig
  <2> QED
    BY <2>1, <2>2
<1>4. CouponsOwnTheirSnapshots'
  BY <1>1, <1>2, <1>3
     DEF ServicingInv, CouponsOwnTheirSnapshots, ServicingTypeOK
<1>5. LockedByPayment'
  BY <1>2, <1>3 DEF ServicingInv, LockedByPayment
<1>6. PaymentsAccountedFor'
  <2>1. Marked' = Marked
    BY <1>2 DEF Marked
  <2> QED
    BY <1>2, <2>1 DEF ServicingInv, PaymentsAccountedFor, vars
<1> QED
  BY <1>2, <1>4, <1>5, <1>6 DEF ServicingInv, FundsFit, vars

\* update_bond_terms and gifts to the treasury keep it.
LEMMA TermsAndFundsInv ==
  ASSUME ServicingInv, UNCHANGED vars,
         \/ \E signer \in Actor, terms \in TermsArg :
               UpdateBondTerms(signer, terms)
         \/ \E mint \in PaymentMint, amount \in Amount : Fund(mint, amount)
  PROVE  ServicingInv'
<1>1. ServicingTypeOK
  BY DEF ServicingInv, CouponsOwnTheirSnapshots
<1>2. /\ bondTerms' \in TermsArg \cup {NoPda}
      /\ UNCHANGED <<snapshotCount, roots, couponCount, coupons, treasury, paid,
                     received>>
  BY <1>1 DEF UpdateBondTerms, Fund, ServicingTypeOK
<1>3. funds' \in [PaymentMint -> Amount] /\ FundsFit'
  <2>1. CASE funds' = funds
    BY <1>1, <1>2, <2>1 DEF ServicingInv, FundsFit, ServicingTypeOK
  <2>2. ASSUME NEW mint \in PaymentMint, NEW amount \in Amount,
               Fund(mint, amount)
        PROVE  funds' \in [PaymentMint -> Amount] /\ FundsFit'
    <3>1. /\ funds \in [PaymentMint -> Amount]
          /\ \A m \in PaymentMint : funds[m] \in Nat /\ received[m] \in Nat
          /\ amount \in Nat
      BY <1>1, ConstantsAssumption DEF ServicingTypeOK, Amount
    <3>2. /\ funds[mint] + received[mint] + amount <= MaxAmount
          /\ funds' = [funds EXCEPT ![mint] = @ + amount]
      BY <2>2 DEF Fund
    <3>3. funds[mint] + amount \in Amount
      BY <3>1, <3>2, ConstantsAssumption DEF Amount
    <3>4. ASSUME NEW m \in PaymentMint
          PROVE  funds'[m] + received'[m] <= MaxAmount
      <4>1. CASE m = mint
        BY <1>2, <3>1, <3>2, <4>1
      <4>2. CASE m # mint
        BY <1>2, <3>1, <3>2, <4>2 DEF ServicingInv, FundsFit
      <4> QED
        BY <4>1, <4>2
    <3> QED
      BY <3>1, <3>2, <3>3, <3>4 DEF FundsFit
  <2> QED
    BY <2>1, <2>2 DEF UpdateBondTerms
<1>4. CouponsOwnTheirSnapshots'
  BY <1>1, <1>2, <1>3
     DEF ServicingInv, CouponsOwnTheirSnapshots, ServicingTypeOK
<1>5. PaymentsAccountedFor'
  <2>1. Marked' = Marked
    BY <1>2 DEF Marked
  <2> QED
    BY <1>2, <2>1 DEF ServicingInv, PaymentsAccountedFor, vars
<1> QED
  BY <1>2, <1>3, <1>4, <1>5 DEF ServicingInv, LockedByPayment, vars

\* The lifecycle programs touch none of it, and time only passes.
LEMMA OthersServicingInv ==
  ASSUME ServicingInv, LifecycleNext \/ Tick, UNCHANGED servicingVars
  PROVE  ServicingInv'
<1>1. UNCHANGED <<bondTerms, snapshotCount, roots, couponCount, coupons,
                  treasury, paid, funds, received>>
  BY DEF servicingVars
<1>2. now' \in Int /\ now' >= now
  BY DEF ServicingInv, LifecycleNext, GrantRoles, RevokeRoles, PauseMint,
         UnpauseMint, Deactivate, Tick
<1>3. ASSUME NEW i \in CouponId, coupons[i] # NoPda
      PROVE  coupons[i].payment \in Int
  BY <1>3 DEF ServicingInv, CouponsOwnTheirSnapshots, ServicingTypeOK, Coupon
<1>4. CouponsOwnTheirSnapshots'
  BY <1>1 DEF ServicingInv, CouponsOwnTheirSnapshots, ServicingTypeOK
<1>5. PaymentsAccountedFor'
  <2>1. Marked' = Marked
    BY <1>1 DEF Marked
  <2>2. now \in Int
    BY DEF ServicingInv
  <2> QED
    BY <1>1, <1>2, <1>3, <2>1, <2>2 DEF ServicingInv, PaymentsAccountedFor
<1> QED
  BY <1>1, <1>2, <1>4, <1>5 DEF ServicingInv, FundsFit, LockedByPayment

\* There are finitely many markers.
LEMMA MarkersFinite == IsFiniteSet(CouponId \X Account)
<1>1. IsFiniteSet(CouponId)
  BY IdsTyped, FS_Interval DEF CouponId
<1> QED
  BY <1>1, FiniteAccounts, FS_Product

\* What a marker says is a number.
LEMMA MarkedTyped ==
  ASSUME ServicingTypeOK
  PROVE  \A p \in CouponId \X Account : Marked[p] \in Nat
<1> TAKE p \in CouponId \X Account
<1>1. p[1] \in CouponId /\ p[2] \in Account
  OBVIOUS
<1>2. paid[p[1]][p[2]] \in Amount \cup {NoPda}
  BY <1>1 DEF ServicingTypeOK
<1>3. Marked[p] = IF paid[p[1]][p[2]] = NoPda THEN 0 ELSE paid[p[1]][p[2]]
  BY DEF Marked
<1> QED
  BY <1>2, <1>3, ConstantsAssumption DEF Amount

\* A payment adds its amount to the markers: there was none before.
LEMMA MarkPayment ==
  ASSUME ServicingTypeOK, ServicingTypeOK',
         NEW id \in CouponId, NEW account \in Account, NEW amount \in Amount,
         paid[id][account] = NoPda,
         paid' = [paid EXCEPT ![id][account] = amount]
  PROVE  SumFunctionOnSet(Marked', CouponId \X Account)
           = SumFunctionOnSet(Marked, CouponId \X Account) + amount
<1> DEFINE S == CouponId \X Account
           x == <<id, account>>
<1>1. \A y \in S : Marked[y] \in Nat
  BY MarkedTyped
<1>2. \A y \in S : Marked'[y] \in Nat
  <2> TAKE y \in S
  <2>1. y[1] \in CouponId /\ y[2] \in Account
    OBVIOUS
  <2>2. paid'[y[1]][y[2]] \in Amount \cup {NoPda}
    BY <2>1 DEF ServicingTypeOK
  <2>3. Marked'[y]
          = IF paid'[y[1]][y[2]] = NoPda THEN 0 ELSE paid'[y[1]][y[2]]
    BY DEF Marked
  <2> QED
    BY <2>2, <2>3, ConstantsAssumption DEF Amount
<1>3. paid \in [CouponId -> [Account -> Amount \cup {NoPda}]]
  BY DEF ServicingTypeOK
<1>4. x \in S /\ Marked[x] = 0
  BY DEF Marked
<1>5. Marked'[x] = amount
  <2>1. paid'[id][account] = amount
    BY <1>3
  <2>2. amount # NoPda
    BY ConstantsAssumption DEF Amount
  <2> QED
    BY <1>4, <2>1, <2>2 DEF Marked
<1>6. ASSUME NEW y \in S \ {x} PROVE Marked'[y] = Marked[y]
  <2>1. y[1] \in CouponId /\ y[2] \in Account /\ (y[1] # id \/ y[2] # account)
    BY <1>6
  <2>2. paid'[y[1]][y[2]] = paid[y[1]][y[2]]
    BY <1>3, <2>1
  <2> QED
    BY <2>2 DEF Marked
<1>7. amount \in Int /\ SumFunctionOnSet(Marked, S) \in Int
  <2>1. amount \in Int
    BY ConstantsAssumption DEF Amount
  <2> QED
    BY <1>1, <2>1, MarkersFinite, SumInt
<1>8. SumFunctionOnSet(Marked', S)
        = SumFunctionOnSet(Marked, S) - Marked[x] + Marked'[x]
  <2>1. IsFiniteSet(S)
    BY MarkersFinite
  <2>2. \A y \in S : Marked[y] \in Int /\ Marked'[y] \in Int
    BY <1>1, <1>2
  <2> DEFINE f == Marked
             g == Marked'
  <2>3. /\ \A y \in S : f[y] \in Int /\ g[y] \in Int
        /\ \A y \in S \ {x} : g[y] = f[y]
        /\ x \in S
    BY <1>4, <1>6, <2>2
  <2> HIDE DEF S, x, f, g
  <2>4. SumFunctionOnSet(g, S) = SumFunctionOnSet(f, S) - f[x] + g[x]
    BY <2>1, <2>3, SumUpdate
  <2> QED
    BY <2>4 DEF f, g
<1> QED
  BY <1>4, <1>5, <1>7, <1>8

\* pay_coupon keeps it: the amount the treasury loses is the one the new
\* marker records, of a coupon that is due and an account its root contains.
LEMMA PayCouponInv ==
  ASSUME ServicingInv, UNCHANGED vars,
         NEW signer \in Actor, NEW id \in CouponId, NEW account \in Account,
         NEW balance \in Amount, NEW own \in BOOLEAN,
         PayCoupon(signer, id, account, balance, own)
  PROVE  ServicingInv'
<1> DEFINE amount == Payout(coupons[id], balance)
           mint == treasury.mint
           spent == IF own THEN 0 ELSE amount
<1>1. ServicingTypeOK
  BY DEF ServicingInv, CouponsOwnTheirSnapshots
<1>2. /\ treasury # NoPda
      /\ bondTerms # NoPda
      /\ coupons[id] # NoPda
      /\ paid[id][account] = NoPda
      /\ now >= coupons[id].payment
      /\ account \in DOMAIN roots[coupons[id].snapshot]
      /\ Elapsed(coupons[id]) \in 1..MaxI64
      /\ amount <= MaxAmount
  BY DEF PayCoupon, Payable, PayoutInRange, RequireBalanceProof
<1>3. /\ treasury \in TreasuryConfig
      /\ bondTerms \in TermsArg
      /\ coupons[id] \in Coupon
      /\ mint \in PaymentMint
  BY <1>1, <1>2 DEF ServicingTypeOK, TreasuryConfig
<1>4. amount \in Amount
  <2>1. balance \in Nat
    BY ConstantsAssumption DEF Amount
  <2>2. Elapsed(coupons[id]) > 0
    BY <1>2, ServicingAssumption
  <2>3. amount \in Nat
    BY <1>3, <2>1, <2>2, PayoutTyped
  <2> QED
    BY <1>2, <2>3, ConstantsAssumption DEF Amount
<1>5. /\ funds[mint] >= amount
      /\ funds' = [funds EXCEPT ![mint] = IF own THEN @ ELSE @ - amount]
      /\ received' = [received EXCEPT ![mint] = IF own THEN @ ELSE @ + amount]
      /\ treasury' = [treasury EXCEPT !.locked = id]
      /\ paid' = [paid EXCEPT ![id][account] = amount]
      /\ UNCHANGED <<bondTerms, snapshotCount, roots, couponCount, coupons>>
  BY DEF PayCoupon, Disburse
<1> HIDE DEF amount
<1>6. /\ amount \in Nat
      /\ spent \in Nat
      /\ spent <= amount
      /\ \A m \in PaymentMint : funds[m] \in Nat /\ received[m] \in Nat
      /\ funds[mint] + received[mint] <= MaxAmount
  BY <1>1, <1>3, <1>4, ConstantsAssumption
     DEF ServicingTypeOK, Amount, ServicingInv, FundsFit
<1>7. /\ funds'[mint] = funds[mint] - spent
      /\ received'[mint] = received[mint] + spent
      /\ \A m \in PaymentMint \ {mint} :
           funds'[m] = funds[m] /\ received'[m] = received[m]
  BY <1>1, <1>3, <1>5, <1>6 DEF ServicingTypeOK
<1>8. /\ funds' \in [PaymentMint -> Amount]
      /\ received' \in [PaymentMint -> Amount]
      /\ FundsFit'
  <2> HIDE DEF spent, mint
  <2>1. funds[mint] - spent \in Amount /\ received[mint] + spent \in Amount
    BY <1>3, <1>5, <1>6, ConstantsAssumption DEF Amount
  <2>2. \A m \in PaymentMint : funds'[m] \in Amount /\ received'[m] \in Amount
    BY <1>1, <1>7, <2>1 DEF ServicingTypeOK
  <2>3. ASSUME NEW m \in PaymentMint
        PROVE  funds'[m] + received'[m] <= MaxAmount
    <3>1. CASE m = mint
      BY <1>3, <1>6, <1>7, <3>1
    <3>2. CASE m # mint
      BY <1>7, <3>2 DEF ServicingInv, FundsFit
    <3> QED
      BY <3>1, <3>2
  <2>4. /\ funds' = [m \in PaymentMint |-> funds'[m]]
        /\ received' = [m \in PaymentMint |-> received'[m]]
    BY <1>1, <1>5 DEF ServicingTypeOK
  <2>5. FundsFit'
    BY <2>3 DEF FundsFit
  <2> QED
    BY <2>2, <2>4, <2>5
<1>9. treasury' \in TreasuryConfig /\ treasury'.locked = id
  BY <1>3, <1>5, IdsTyped DEF TreasuryConfig, CouponId
<1>10. paid' \in [CouponId -> [Account -> Amount \cup {NoPda}]]
  BY <1>1, <1>4, <1>5 DEF ServicingTypeOK
<1>11. /\ paid'[id][account] = amount
       /\ amount # NoPda
       /\ \A i \in CouponId, a \in Account :
            i # id \/ a # account => paid'[i][a] = paid[i][a]
  BY <1>1, <1>5, <1>6, ConstantsAssumption DEF ServicingTypeOK
<1>12. ServicingTypeOK'
  BY <1>1, <1>5, <1>8, <1>9, <1>10 DEF ServicingTypeOK
<1>13. CouponsOwnTheirSnapshots'
  BY <1>5, <1>12 DEF ServicingInv, CouponsOwnTheirSnapshots
<1>14. LockedByPayment'
  <2>1. id <= couponCount
    BY <1>2 DEF ServicingInv, CouponsOwnTheirSnapshots
  <2> QED
    BY <1>5, <1>9, <1>11, <2>1 DEF LockedByPayment
<1>15. SumFunctionOnSet(received', PaymentMint)
         = SumFunctionOnSet(received, PaymentMint) + spent
  <2> HIDE DEF spent, mint
  <2>1. \A m \in PaymentMint : received[m] \in Int /\ received'[m] \in Int
    BY <1>6, <1>8, ConstantsAssumption DEF Amount
  <2>2. SumFunctionOnSet(received', PaymentMint)
          = SumFunctionOnSet(received, PaymentMint) - received[mint]
              + received'[mint]
    BY <1>3, <1>7, <2>1, FinitePaymentMints, SumUpdate
  <2>3. SumFunctionOnSet(received, PaymentMint) \in Int
    BY <2>1, FinitePaymentMints, SumInt
  <2> QED
    BY <1>3, <1>6, <1>7, <2>2, <2>3
<1>16. PaymentsAccountedFor'
  <2> HIDE DEF spent, mint
  <2> DEFINE S == CouponId \X Account
             before == SumFunctionOnSet(received, PaymentMint)
             marked == SumFunctionOnSet(Marked, S)
  <2>1. SumFunctionOnSet(Marked', S) = marked + amount
    BY <1>1, <1>2, <1>4, <1>5, <1>12, MarkPayment
  <2>2. marked \in Int
    <3>1. \A p \in S : Marked[p] \in Int
      BY <1>1, MarkedTyped
    <3> QED
      BY <3>1, MarkersFinite, SumInt
  <2>3. before \in Int
    BY <1>6, FinitePaymentMints, SumInt
  <2>4. before <= marked
    BY DEF ServicingInv, PaymentsAccountedFor
  <2>5. SumFunctionOnSet(received', PaymentMint)
          <= SumFunctionOnSet(Marked', S)
    <3> HIDE DEF before, marked, S
    <3>1. before + spent <= marked + amount
      BY <1>6, <2>2, <2>3, <2>4
    <3> QED
      BY <1>15, <2>1, <3>1 DEF before
  <2>6. ASSUME NEW i \in CouponId, NEW a \in Account, paid'[i][a] # NoPda
        PROVE  /\ coupons[i] # NoPda
               /\ now >= coupons[i].payment
               /\ a \in DOMAIN roots[coupons[i].snapshot]
    <3>1. CASE i = id /\ a = account
      BY <1>2, <3>1
    <3>2. CASE i # id \/ a # account
      BY <1>11, <2>6, <3>2 DEF ServicingInv, PaymentsAccountedFor
    <3> QED
      BY <3>1, <3>2
  <2> QED
    BY <1>5, <2>5, <2>6 DEF PaymentsAccountedFor, vars
<1> QED
  BY <1>8, <1>13, <1>14, <1>16 DEF ServicingInv, vars

\* A servicing step is one of the instructions, in the order of this module.
LEMMA ServicingSteps ==
  ASSUME ServicingNext
  PROVE  \/ /\ UNCHANGED vars
            /\ \/ \E signer \in Actor, terms \in TermsArg :
                     UpdateBondTerms(signer, terms)
               \/ \E mint \in PaymentMint, amount \in Amount :
                     Fund(mint, amount)
         \/ /\ UNCHANGED vars
            /\ \E signer \in Actor, id \in CouponId,
                  rate \in RateArg \cup {NoPda},
                  decimals \in DecimalsArg \cup {NoPda},
                  dates \in CouponDates, root \in Tree :
                  CreateCoupon(signer, id, dates, rate, decimals, root)
         \/ /\ UNCHANGED vars
            /\ \E signer \in Actor, id \in CouponId,
                  rate \in RateArg \cup {NoPda},
                  decimals \in DecimalsArg \cup {NoPda} :
                  SetCouponRate(signer, id, rate, decimals)
         \/ /\ UNCHANGED vars
            /\ \E signer \in Actor, mint \in PaymentMint :
                  SetPaymentToken(signer, mint)
         \/ /\ UNCHANGED vars
            /\ \E signer \in Actor, id \in CouponId, account \in Account,
                  balance \in Amount, own \in BOOLEAN :
                  PayCoupon(signer, id, account, balance, own)
         \/ (LifecycleNext \/ Tick) /\ UNCHANGED servicingVars
BY DEF ServicingNext, ServicingStep

LEMMA ServicingInvInit ==
  ASSUME ServicingInit
  PROVE  ServicingInv
<1>1. now \in Int
  BY DEF ServicingInit, Init
<1>2. 0 \in 0..MaxCount /\ 0 \in Amount
  BY IdsTyped, ConstantsAssumption DEF Amount
<1>3. ServicingTypeOK
  BY <1>2 DEF ServicingInit, ServicingTypeOK
<1>4. CouponsOwnTheirSnapshots
  <2>1. \A i \in CouponId : ~(i <= 0) /\ i - 1 \in SnapshotId
    BY IdsTyped DEF CouponId
  <2> QED
    BY <1>3, <2>1 DEF ServicingInit, CouponsOwnTheirSnapshots
<1>5. FundsFit
  BY ConstantsAssumption DEF ServicingInit, FundsFit
<1>6. PaymentsAccountedFor
  <2>1. SumFunctionOnSet(received, PaymentMint) = 0
    <3>1. \A m \in PaymentMint : received[m] = 0
      BY DEF ServicingInit
    <3> QED
      BY <3>1, FinitePaymentMints, SumZero
  <2>2. SumFunctionOnSet(Marked, CouponId \X Account) \in Nat
    BY <1>3, MarkedTyped, MarkersFinite, SumNat
  <2>3. \A i \in CouponId, a \in Account : paid[i][a] = NoPda
    BY DEF ServicingInit
  <2> QED
    BY <2>1, <2>2, <2>3 DEF PaymentsAccountedFor
<1> QED
  BY <1>1, <1>4, <1>5, <1>6 DEF ServicingInit, ServicingInv, LockedByPayment

LEMMA ServicingInvStep ==
  ASSUME ServicingInv, [ServicingNext]_<<vars, servicingVars>>
  PROVE  ServicingInv'
<1>1. CASE UNCHANGED <<vars, servicingVars>>
  <2>1. Marked' = Marked
    BY <1>1 DEF servicingVars, Marked
  <2> QED
    BY <1>1, <2>1
       DEF vars, servicingVars, ServicingInv, CouponsOwnTheirSnapshots,
           ServicingTypeOK, FundsFit, LockedByPayment, PaymentsAccountedFor
<1>2. CASE ServicingNext
  BY <1>2, ServicingSteps, TermsAndFundsInv, CreateCouponInv,
     SetCouponRateInv, SetPaymentTokenInv, PayCouponInv, OthersServicingInv
<1> QED
  BY <1>1, <1>2

LEMMA ServicingInvariant == ServicingSpec => []ServicingInv
<1>1. ServicingInit => ServicingInv
  BY ServicingInvInit
<1>2. ServicingInv /\ [ServicingNext]_<<vars, servicingVars>> => ServicingInv'
  BY ServicingInvStep
<1> QED
  BY <1>1, <1>2, PTL DEF ServicingSpec

\* Coupons and snapshots advance in lockstep, every coupon is anchored to the
\* snapshot its creation took, and all accounts stay well typed
\* (create_coupon, take_snapshot).
THEOREM CouponsAnchored == ServicingSpec => []CouponsOwnTheirSnapshots
<1>1. ServicingInv => CouponsOwnTheirSnapshots
  BY DEF ServicingInv
<1> QED
  BY <1>1, ServicingInvariant, PTL

\* What left the treasury never exceeds what the markers record, however many
\* coupons, holders and payment tokens there are (pay_coupon).
THEOREM EveryPaymentMarked == ServicingSpec => []PaymentsAccountedFor
<1>1. ServicingInv => PaymentsAccountedFor
  BY DEF ServicingInv
<1> QED
  BY <1>1, ServicingInvariant, PTL

\* The payment token is locked only while the newest coupon is being paid
\* (set_payment_token, pay_coupon).
THEOREM LockMeansDistribution == ServicingSpec => []LockedOnlyUnderDistribution
<1>1. ServicingInv => LockedOnlyUnderDistribution
  <2> SUFFICES ASSUME ServicingInv, treasury # NoPda, ~PaymentTokenUnlocked
               PROVE  UnderDistribution
    BY DEF LockedOnlyUnderDistribution
  <2>1. /\ treasury.locked # 0
        /\ couponCount # 0
        /\ ~(treasury.locked < couponCount)
    BY DEF PaymentTokenUnlocked
  <2>2. /\ treasury.locked <= couponCount
        /\ \E a \in Account : paid[treasury.locked][a] # NoPda
    BY <2>1 DEF ServicingInv, LockedByPayment
  <2>3. treasury.locked \in Nat /\ couponCount \in Nat
    BY IdsTyped DEF ServicingInv, CouponsOwnTheirSnapshots, ServicingTypeOK,
                    TreasuryConfig
  <2>4. treasury.locked = couponCount
    BY <2>1, <2>2, <2>3
  <2> QED
    BY <2>1, <2>2, <2>4 DEF UnderDistribution
<1> QED
  BY <1>1, ServicingInvariant, PTL

\* Two payouts on parts of a balance never exceed the one on the whole,
\* whatever the rate, the terms and the decimals (pay_coupon).
THEOREM RoundingNeverOverpays == ServicingSpec => []RoundingFavoursTreasury
<1>1. ServicingInv => RoundingFavoursTreasury
  <2> SUFFICES ASSUME ServicingInv,
                      NEW i \in CouponId, NEW whole \in Amount,
                      treasury # NoPda, bondTerms # NoPda, coupons[i] # NoPda,
                      NEW x \in 0..whole
               PROVE  Payout(coupons[i], x) + Payout(coupons[i], whole - x)
                        <= Payout(coupons[i], whole)
    BY DEF RoundingFavoursTreasury
  <2> DEFINE y == whole - x
  <2>1. /\ treasury \in TreasuryConfig
        /\ bondTerms \in TermsArg
        /\ coupons[i] \in Coupon
    BY DEF ServicingInv, CouponsOwnTheirSnapshots, ServicingTypeOK
  <2>2. PICK c \in Int, d \in Nat :
           /\ d > 0
           /\ \A balance \in Nat :
                Payout(coupons[i], balance) = (c * balance) \div d
    BY <2>1, PayoutLinear
  <2>3. x \in Nat /\ y \in Nat /\ x + y = whole /\ whole \in Nat
    BY ConstantsAssumption DEF Amount
  <2>4. c * x \in Int /\ c * y \in Int /\ c * whole = c * x + c * y
    BY <2>2, <2>3
  <2>5. ((c * x) \div d) + ((c * y) \div d) <= (c * x + c * y) \div d
    BY <2>2, <2>4, FloorsAdd
  <2> QED
    BY <2>2, <2>3, <2>4, <2>5
<1> QED
  BY <1>1, ServicingInvariant, PTL

-----------------------------------------------------------------------------
(***************************************************************************)
(* What a step may do.                                                     *)
(***************************************************************************)

\* What is settled of a coupon that exists.
Settled ==
    \A i \in CouponId : coupons[i] # NoPda =>
       /\ coupons'[i] # NoPda
       /\ roots'[coupons'[i].snapshot] = roots[coupons[i].snapshot]
       /\ coupons'[i].payment = coupons[i].payment
       /\ Elapsed(coupons'[i]) = Elapsed(coupons[i])
       /\ \A a \in Account : paid[i][a] # NoPda => paid'[i][a] = paid[i][a]

LEMMA SettledStep ==
  ASSUME ServicingInv, ServicingNext
  PROVE  Settled
<1>1. ASSUME UNCHANGED <<coupons, roots, paid>>
      PROVE  Settled
  BY <1>1 DEF Settled, Elapsed
<1>2. ASSUME NEW signer \in Actor, NEW id \in CouponId,
             NEW rate, NEW decimals, NEW dates, NEW root,
             CreateCoupon(signer, id, dates, rate, decimals, root)
      PROVE  Settled
  <2> SUFFICES ASSUME NEW i \in CouponId, coupons[i] # NoPda
               PROVE  /\ coupons'[i] = coupons[i]
                      /\ roots'[coupons[i].snapshot] = roots[coupons[i].snapshot]
                      /\ paid' = paid
    BY DEF Settled, Elapsed
  <2>1. coupons \in [CouponId -> Coupon \cup {NoPda}]
        /\ roots \in [SnapshotId -> Tree \cup {NoPda}]
    BY DEF ServicingInv, CouponsOwnTheirSnapshots, ServicingTypeOK
  <2>2. /\ coupons[id] = NoPda
        /\ \E c : coupons' = [coupons EXCEPT ![id] = c]
        /\ roots[snapshotCount] = NoPda
        /\ roots' = [roots EXCEPT ![snapshotCount] = root]
        /\ paid' = paid
    BY <1>2 DEF CreateCoupon, TakeSnapshot
  <2>3. i # id
    BY <2>2
  <2>4. /\ coupons[i].snapshot = i - 1
        /\ roots[i - 1] # NoPda
        /\ i - 1 \in SnapshotId
    BY IdsTyped DEF ServicingInv, CouponsOwnTheirSnapshots
  <2> QED
    BY <2>1, <2>2, <2>3, <2>4
<1>3. ASSUME NEW signer \in Actor, NEW id \in CouponId,
             NEW rate \in RateArg \cup {NoPda},
             NEW decimals \in DecimalsArg \cup {NoPda},
             UNCHANGED vars, SetCouponRate(signer, id, rate, decimals)
      PROVE  Settled
  <2>1. \A i \in CouponId : coupons[i] # NoPda =>
          /\ coupons'[i] # NoPda
          /\ coupons'[i].snapshot = coupons[i].snapshot
          /\ coupons'[i].payment = coupons[i].payment
          /\ coupons'[i].start = coupons[i].start
          /\ coupons'[i].end = coupons[i].end
    BY <1>3, SetCouponRateInv
  <2>2. UNCHANGED <<roots, paid>>
    BY <1>3 DEF SetCouponRate
  <2> QED
    BY <2>1, <2>2 DEF Settled, Elapsed
<1>4. ASSUME NEW signer \in Actor, NEW id \in CouponId,
             NEW account \in Account, NEW balance \in Amount,
             NEW own \in BOOLEAN,
             PayCoupon(signer, id, account, balance, own)
      PROVE  Settled
  <2>1. paid \in [CouponId -> [Account -> Amount \cup {NoPda}]]
    BY DEF ServicingInv, CouponsOwnTheirSnapshots, ServicingTypeOK
  <2>2. /\ paid[id][account] = NoPda
        /\ \E v : paid' = [paid EXCEPT ![id][account] = v]
        /\ UNCHANGED <<roots, coupons>>
    BY <1>4 DEF PayCoupon, Payable, Disburse
  <2>3. \A i \in CouponId, a \in Account :
          paid[i][a] # NoPda => paid'[i][a] = paid[i][a]
    BY <2>1, <2>2
  <2> QED
    BY <2>2, <2>3 DEF Settled, Elapsed
<1>5. (LifecycleNext \/ Tick) /\ UNCHANGED servicingVars => Settled
  BY <1>1 DEF servicingVars
<1>6. ASSUME NEW signer \in Actor, NEW terms \in TermsArg,
             UpdateBondTerms(signer, terms)
      PROVE  Settled
  BY <1>1, <1>6 DEF UpdateBondTerms
<1>7. ASSUME NEW mint \in PaymentMint, NEW amount \in Amount,
             Fund(mint, amount)
      PROVE  Settled
  BY <1>1, <1>7 DEF Fund
<1>8. ASSUME NEW signer \in Actor, NEW mint \in PaymentMint,
             SetPaymentToken(signer, mint)
      PROVE  Settled
  BY <1>1, <1>8 DEF SetPaymentToken
<1> QED
  BY <1>2, <1>3, <1>4, <1>5, <1>6, <1>7, <1>8, ServicingSteps

\* Who is paid for a coupon, on what and for which period never changes after
\* its creation, and no payment is forgotten (create_coupon, set_coupon_rate,
\* pay_coupon).
THEOREM EntitlementsSettled == ServicingSpec => EntitlementsFixed
<1>1. ServicingInv /\ [ServicingNext]_<<vars, servicingVars>> =>
        [\A i \in CouponId : coupons[i] # NoPda =>
           /\ coupons'[i] # NoPda
           /\ roots'[coupons'[i].snapshot] = roots[coupons[i].snapshot]
           /\ coupons'[i].payment = coupons[i].payment
           /\ Elapsed(coupons'[i]) = Elapsed(coupons[i])
           /\ \A a \in Account :
                paid[i][a] # NoPda => paid'[i][a] = paid[i][a]
        ]_<<vars, servicingVars>>
  BY SettledStep DEF Settled
<1> QED
  BY <1>1, ServicingInvariant, PTL DEF ServicingSpec, EntitlementsFixed

\* A paused or deactivated mint is not serviced: no instruction of the bond,
\* coupon, snapshot and treasury programs has an effect.
THEOREM PauseHaltsServicing == ServicingSpec => ServicingHalts
<1>1. ASSUME ServicingInv, ServicingNext, paused \/ deactivated
      PROVE  /\ UNCHANGED <<bondTerms, snapshotCount, roots, couponCount,
                            coupons, treasury, paid, received>>
             /\ \A m \in PaymentMint : funds'[m] >= funds[m]
  <2>1. \A m \in PaymentMint : funds[m] \in Nat
    BY <1>1, ConstantsAssumption
       DEF ServicingInv, CouponsOwnTheirSnapshots, ServicingTypeOK, Amount
  <2>2. ASSUME NEW signer, NEW role, NEW functionality
        PROVE  ~ServicingGate(signer, role, functionality)
    BY <1>1 DEF ServicingGate, RequireNotPaused, RequireActive
  <2>3. ASSUME NEW mint \in PaymentMint, NEW amount \in Amount,
               Fund(mint, amount)
        PROVE  /\ UNCHANGED <<bondTerms, snapshotCount, roots, couponCount,
                              coupons, treasury, paid, received>>
               /\ \A m \in PaymentMint : funds'[m] >= funds[m]
    <3>1. /\ funds \in [PaymentMint -> Amount]
          /\ amount \in Nat
      BY <1>1, ConstantsAssumption
         DEF ServicingInv, CouponsOwnTheirSnapshots, ServicingTypeOK, Amount
    <3>2. funds' = [funds EXCEPT ![mint] = @ + amount]
      BY <2>3 DEF Fund
    <3>3. \A m \in PaymentMint : funds'[m] >= funds[m]
      BY <2>1, <3>1, <3>2
    <3> QED
      BY <2>3, <3>3 DEF Fund
  <2>4. ASSUME UNCHANGED servicingVars
        PROVE  /\ UNCHANGED <<bondTerms, snapshotCount, roots, couponCount,
                              coupons, treasury, paid, received>>
               /\ \A m \in PaymentMint : funds'[m] >= funds[m]
    BY <2>1, <2>4 DEF servicingVars
  <2>5. \/ \E mint \in PaymentMint, amount \in Amount : Fund(mint, amount)
        \/ UNCHANGED servicingVars
    <3>1. /\ \A signer, terms : ~UpdateBondTerms(signer, terms)
          /\ \A signer, mint : ~SetPaymentToken(signer, mint)
      BY <2>2 DEF UpdateBondTerms, SetPaymentToken
    <3>2. /\ \A signer, id, dates, rate, decimals, root :
               ~CreateCoupon(signer, id, dates, rate, decimals, root)
          /\ \A signer, id, rate, decimals :
               ~SetCouponRate(signer, id, rate, decimals)
      BY <2>2 DEF CreateCoupon, SetCouponRate
    <3>3. \A signer, id, account, balance, own :
            ~PayCoupon(signer, id, account, balance, own)
      BY <2>2 DEF PayCoupon
    <3> QED
      BY <1>1, <3>1, <3>2, <3>3, ServicingSteps
  <2> QED
    BY <2>3, <2>4, <2>5
<1>2. ServicingInv /\ [ServicingNext]_<<vars, servicingVars>> =>
        [paused \/ deactivated =>
           /\ UNCHANGED <<bondTerms, snapshotCount, roots, couponCount, coupons,
                          treasury, paid, received>>
           /\ \A m \in PaymentMint : funds'[m] >= funds[m]
        ]_<<vars, servicingVars>>
  BY <1>1
<1> QED
  BY <1>2, ServicingInvariant, PTL DEF ServicingSpec, ServicingHalts

-----------------------------------------------------------------------------
(***************************************************************************)
(* Orderly distributions.                                                  *)
(***************************************************************************)

\* What pay_coupon would pay an account of the newest coupon now.
Due(a) ==
    Payout(coupons[couponCount], roots[coupons[couponCount].snapshot][a])

\* Whoever has been paid for the newest coupon was paid what pay_coupon would
\* pay now, in the token it would pay in now: the lock is on this coupon.
PaidAsOfNow ==
    UnderDistribution =>
       /\ treasury # NoPda
       /\ treasury.locked = couponCount
       /\ \A a \in Account : paid[couponCount][a] # NoPda =>
            paid[couponCount][a] = Due(a)

DistributionInv ==
    /\ ServicingInv
    /\ orderly => EqualBalancesEqualPay /\ PaidAsOfNow

\* What is due changes only with the terms, the token's decimals, the coupon
\* and its snapshot.
LEMMA DueStable ==
  ASSUME UNCHANGED <<bondTerms, couponCount>>,
         treasury'.mint = treasury.mint,
         coupons'[couponCount] = coupons[couponCount],
         roots'[coupons[couponCount].snapshot]
           = roots[coupons[couponCount].snapshot],
         NEW a
  PROVE  Due(a)' = Due(a)
BY DEF Due, Payout, PayoutFraction, EffectiveRate, Elapsed

\* Every step but a payment leaves the markers alone, and the token of a
\* distribution whose coupon holds the lock.
LEMMA NoPaymentStep ==
  ASSUME ServicingInv, ServicingNext
  PROVE  \/ \E signer \in Actor, id \in CouponId, account \in Account,
               balance \in Amount, own \in BOOLEAN :
               PayCoupon(signer, id, account, balance, own)
         \/ /\ paid' = paid
            /\ couponCount' = couponCount \/ couponCount' = couponCount + 1
            /\ treasury # NoPda /\ couponCount # 0
                 /\ treasury.locked = couponCount => treasury' = treasury
<1>1. couponCount \in Nat
  BY IdsTyped DEF ServicingInv, CouponsOwnTheirSnapshots, ServicingTypeOK
<1>2. ASSUME NEW signer \in Actor, NEW mint \in PaymentMint,
             SetPaymentToken(signer, mint)
      PROVE  /\ UNCHANGED <<paid, couponCount>>
             /\ treasury # NoPda /\ couponCount # 0
                  => ~(treasury.locked = couponCount)
  BY <1>1, <1>2 DEF SetPaymentToken, PaymentTokenUnlocked
<1>3. ASSUME NEW signer, NEW id, NEW dates, NEW rate, NEW decimals, NEW root,
             CreateCoupon(signer, id, dates, rate, decimals, root)
      PROVE  UNCHANGED <<paid, treasury>> /\ couponCount' = couponCount + 1
  BY <1>3 DEF CreateCoupon
<1>4. ASSUME NEW signer, NEW id, NEW rate, NEW decimals,
             SetCouponRate(signer, id, rate, decimals)
      PROVE  UNCHANGED <<paid, treasury, couponCount>>
  BY <1>4 DEF SetCouponRate
<1>5. ASSUME NEW signer, NEW terms, UpdateBondTerms(signer, terms)
      PROVE  UNCHANGED <<paid, treasury, couponCount>>
  BY <1>5 DEF UpdateBondTerms
<1>6. ASSUME NEW mint, NEW amount, Fund(mint, amount)
      PROVE  UNCHANGED <<paid, treasury, couponCount>>
  BY <1>6 DEF Fund
<1>7. UNCHANGED servicingVars => UNCHANGED <<paid, treasury, couponCount>>
  BY DEF servicingVars
<1> QED
  BY <1>2, <1>3, <1>4, <1>5, <1>6, <1>7, ServicingSteps

\* An orderly step keeps what is special about orderly distributions.
LEMMA OrderlyStep ==
  ASSUME ServicingInv, ServicingInv', ServicingNext, Orderly,
         EqualBalancesEqualPay, PaidAsOfNow
  PROVE  /\ EqualBalancesEqualPay'
         /\ PaidAsOfNow'
         /\ UnderDistribution => treasury'.mint = treasury.mint
<1>1. Settled
  BY SettledStep
<1>2. /\ couponCount \in Nat
      /\ couponCount # 0 => couponCount \in CouponId
  BY IdsTyped DEF ServicingInv, CouponsOwnTheirSnapshots, ServicingTypeOK,
                  CouponId
<1>3. \A i \in CouponId, a \in Account : paid[i][a] # NoPda =>
        coupons[i] # NoPda /\ i <= couponCount
  BY DEF ServicingInv, CouponsOwnTheirSnapshots, PaymentsAccountedFor
<1>4. ASSUME paid' = paid,
             couponCount' = couponCount \/ couponCount' = couponCount + 1,
             treasury # NoPda /\ couponCount # 0
               /\ treasury.locked = couponCount => treasury' = treasury
      PROVE  /\ EqualBalancesEqualPay'
             /\ PaidAsOfNow'
             /\ UnderDistribution => treasury'.mint = treasury.mint
  <2>1. EqualBalancesEqualPay'
    BY <1>1, <1>3, <1>4 DEF EqualBalancesEqualPay, Settled
  <2>2. UnderDistribution => treasury' = treasury
    BY <1>4 DEF PaidAsOfNow, UnderDistribution
  <2>3. ASSUME UnderDistribution'
        PROVE  /\ couponCount' = couponCount
               /\ UnderDistribution
    <3>1. PICK a \in Account : paid[couponCount'][a] # NoPda
      BY <1>4, <2>3 DEF UnderDistribution
    <3>2. couponCount' \in CouponId
      BY <2>3, IdsTyped DEF UnderDistribution, ServicingInv,
         CouponsOwnTheirSnapshots, ServicingTypeOK, CouponId
    <3>3. couponCount' <= couponCount
      BY <1>3, <3>1, <3>2
    <3>4. couponCount' = couponCount
      BY <1>2, <1>4, <3>3
    <3> QED
      BY <2>3, <3>1, <3>4 DEF UnderDistribution
  <2>4. ASSUME UnderDistribution', NEW a \in Account
        PROVE  Due(a)' = Due(a)
    <3>1. /\ couponCount' = couponCount
          /\ treasury' = treasury
          /\ bondTerms' = bondTerms
          /\ coupons'[couponCount] = coupons[couponCount]
      BY <2>2, <2>3, <2>4 DEF Orderly
    <3>2. coupons[couponCount] # NoPda /\ couponCount \in CouponId
      BY <1>2, <1>3, <2>3, <2>4 DEF UnderDistribution
    <3>3. roots'[coupons[couponCount].snapshot]
            = roots[coupons[couponCount].snapshot]
      BY <1>1, <3>1, <3>2 DEF Settled
    <3> QED
      BY <3>1, <3>3, DueStable
  <2>5. PaidAsOfNow'
    BY <1>4, <2>2, <2>3, <2>4 DEF PaidAsOfNow
  <2> QED
    BY <2>1, <2>2, <2>5
<1>5. ASSUME NEW signer \in Actor, NEW id \in CouponId,
             NEW account \in Account, NEW balance \in Amount,
             NEW own \in BOOLEAN,
             PayCoupon(signer, id, account, balance, own)
      PROVE  /\ EqualBalancesEqualPay'
             /\ PaidAsOfNow'
             /\ UnderDistribution => treasury'.mint = treasury.mint
  <2>1. /\ paid[id][account] = NoPda
        /\ roots[coupons[id].snapshot][account] = balance
        /\ treasury # NoPda
        /\ paid' = [paid EXCEPT ![id][account] = Payout(coupons[id], balance)]
        /\ treasury' = [treasury EXCEPT !.locked = id]
        /\ UNCHANGED <<bondTerms, snapshotCount, roots, couponCount, coupons>>
    BY <1>5 DEF PayCoupon, Payable, Disburse, RequireBalanceProof
  <2>2. /\ paid \in [CouponId -> [Account -> Amount \cup {NoPda}]]
        /\ paid' \in [CouponId -> [Account -> Amount \cup {NoPda}]]
        /\ treasury \in TreasuryConfig
    BY <2>1 DEF ServicingInv, CouponsOwnTheirSnapshots, ServicingTypeOK
  <2>3. /\ treasury'.mint = treasury.mint
        /\ treasury'.locked = id
        /\ treasury' # NoPda
    <3>1. /\ treasury'.mint = treasury.mint
          /\ treasury'.locked = id
          /\ treasury' \in TreasuryConfig
      BY <2>1, <2>2, IdsTyped DEF TreasuryConfig, CouponId
    <3> QED
      BY <3>1, ServicingAssumption
  <2>4. /\ paid'[id][account] = Payout(coupons[id], balance)
        /\ \A i \in CouponId, a \in Account :
             i # id \/ a # account => paid'[i][a] = paid[i][a]
    BY <2>1, <2>2
  <2>5. paid'[id][account] # NoPda
    <3>1. /\ coupons[id] # NoPda
          /\ bondTerms # NoPda
          /\ Elapsed(coupons[id]) > 0
      BY <1>5, ServicingAssumption DEF PayCoupon, Payable
    <3>2. coupons[id] \in Coupon /\ bondTerms \in TermsArg
      BY <3>1 DEF ServicingInv, CouponsOwnTheirSnapshots, ServicingTypeOK
    <3>3. balance \in Nat
      BY ConstantsAssumption DEF Amount
    <3>4. Payout(coupons[id], balance) \in Nat
      BY <2>2, <3>1, <3>2, <3>3, PayoutTyped
    <3> QED
      BY <2>4, <3>4, ConstantsAssumption
  <2>6. id = couponCount
    BY <2>1, <2>5 DEF Orderly
  <2>7. \A a \in Account : Due(a)' = Due(a)
    BY <2>1, <2>3, DueStable
  <2>8. Due(account) = Payout(coupons[id], balance)
    BY <2>1, <2>6 DEF Due
  <2>9. ASSUME NEW a \in Account, paid'[id][a] # NoPda
        PROVE  paid'[id][a] = Due(a)
    <3>1. CASE a = account
      BY <2>4, <2>8, <3>1
    <3>2. CASE a # account
      <4>1. paid'[id][a] = paid[id][a]
        BY <2>4, <3>2
      <4>2. UnderDistribution
        BY <1>2, <2>6, <2>9, <4>1, IdsTyped DEF UnderDistribution, CouponId
      <4> QED
        BY <2>6, <2>9, <4>1, <4>2 DEF PaidAsOfNow
    <3> QED
      BY <3>1, <3>2
  <2>10. PaidAsOfNow'
    BY <2>1, <2>3, <2>6, <2>7, <2>9 DEF PaidAsOfNow
  <2>11. EqualBalancesEqualPay'
    <3> SUFFICES ASSUME NEW i \in CouponId, NEW a \in Account, NEW b \in Account,
                        paid'[i][a] # NoPda, paid'[i][b] # NoPda,
                        roots[coupons[i].snapshot][a]
                          = roots[coupons[i].snapshot][b]
                 PROVE  paid'[i][a] = paid'[i][b]
      BY <2>1 DEF EqualBalancesEqualPay
    <3>1. CASE i = id
      <4>1. Due(a) = Due(b)
        BY <2>6, <3>1 DEF Due
      <4> QED
        BY <2>9, <3>1, <4>1
    <3>2. CASE i # id
      BY <2>4, <3>2 DEF EqualBalancesEqualPay
    <3> QED
      BY <3>1, <3>2
  <2> QED
    BY <2>3, <2>10, <2>11
<1> QED
  BY <1>4, <1>5, NoPaymentStep

LEMMA DistributionInvStep ==
  ASSUME DistributionInv, [DistributionNext]_distributionVars
  PROVE  DistributionInv'
<1>1. CASE DistributionNext
  <2>1. ServicingNext /\ (orderly' => orderly /\ Orderly)
    BY <1>1 DEF DistributionNext
  <2>2. ServicingInv /\ ServicingInv'
    BY <2>1, ServicingInvStep DEF DistributionInv
  <2>3. ASSUME orderly'
        PROVE  EqualBalancesEqualPay' /\ PaidAsOfNow'
    <3>1. Orderly /\ EqualBalancesEqualPay /\ PaidAsOfNow
      BY <2>1, <2>3 DEF DistributionInv
    <3> QED
      BY <2>1, <2>2, <3>1, OrderlyStep
  <2> QED
    BY <2>2, <2>3 DEF DistributionInv
<1>2. CASE UNCHANGED distributionVars
  <2>1. UNCHANGED <<vars, servicingVars>> /\ orderly' = orderly
    BY <1>2 DEF distributionVars
  <2>2. ServicingInv'
    BY <2>1, ServicingInvStep DEF DistributionInv
  <2>3. \A a \in Account : Due(a)' = Due(a)
    BY <2>1 DEF servicingVars, Due, Payout, PayoutFraction, EffectiveRate,
                Elapsed
  <2>4. EqualBalancesEqualPay => EqualBalancesEqualPay'
    BY <2>1 DEF EqualBalancesEqualPay, servicingVars
  <2>5. PaidAsOfNow => PaidAsOfNow'
    BY <2>1, <2>3 DEF PaidAsOfNow, UnderDistribution, servicingVars
  <2> QED
    BY <2>1, <2>2, <2>4, <2>5 DEF DistributionInv
<1> QED
  BY <1>1, <1>2

LEMMA DistributionInvariant == DistributionSpec => []DistributionInv
<1>1. ASSUME DistributionInit
      PROVE  DistributionInv
  <2>1. ServicingInv
    BY <1>1, ServicingInvInit DEF DistributionInit
  <2>2. \A i \in CouponId, a \in Account : paid[i][a] = NoPda
    BY <1>1 DEF DistributionInit, ServicingInit
  <2>3. couponCount = 0
    BY <1>1 DEF DistributionInit, ServicingInit
  <2> QED
    BY <2>1, <2>2, <2>3
       DEF DistributionInv, EqualBalancesEqualPay, PaidAsOfNow,
           UnderDistribution
<1>2. DistributionInv /\ [DistributionNext]_distributionVars
        => DistributionInv'
  BY DistributionInvStep
<1> QED
  BY <1>1, <1>2, PTL DEF DistributionSpec

\* As long as the treasurer pays the newest coupon only and nobody touches its
\* rate or the terms meanwhile, holders of equal balances are paid equal
\* amounts, in whatever order and however late (pay_coupon).
THEOREM OrderlyMeansEqualPay == DistributionSpec => []OrderlyPaysEqually
<1>1. DistributionInv => OrderlyPaysEqually
  BY DEF DistributionInv, OrderlyPaysEqually
<1> QED
  BY <1>1, DistributionInvariant, PTL

\* Under the same discipline the lock does what the documentation says: the
\* payment token never changes during a distribution (set_payment_token).
THEOREM OrderlyMeansOneToken == DistributionSpec => OrderlyKeepsItsToken
<1>1. ASSUME DistributionInv, DistributionNext, orderly', UnderDistribution
      PROVE  treasury'.mint = treasury.mint
  <2>1. ServicingNext /\ orderly /\ Orderly
    BY <1>1 DEF DistributionNext
  <2>2. ServicingInv /\ ServicingInv'
    BY <1>1, <2>1, ServicingInvStep DEF DistributionInv
  <2>3. EqualBalancesEqualPay /\ PaidAsOfNow
    BY <1>1, <2>1 DEF DistributionInv
  <2> QED
    BY <1>1, <2>1, <2>2, <2>3, OrderlyStep
<1>2. DistributionInv /\ [DistributionNext]_distributionVars =>
        [orderly' /\ UnderDistribution => treasury'.mint = treasury.mint
        ]_distributionVars
  BY <1>1
<1> QED
  BY <1>2, DistributionInvariant, PTL
     DEF DistributionSpec, OrderlyKeepsItsToken

=============================================================================
