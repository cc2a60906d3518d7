----------------------------- MODULE Servicing -----------------------------
(***************************************************************************)
(* Coupon payments of one bond: the bond, snapshot, coupon and treasury    *)
(* programs, under the roles, the pause and the deactivation of the mint.  *)
(*                                                                         *)
(* A coupon is created together with a snapshot, the Merkle root of the    *)
(* balances its holders are paid for.  Once it is due the treasurer pays   *)
(* the holders one by one, in a payment token, under the rate and the      *)
(* terms that stand at that moment.                                        *)
(***************************************************************************)
EXTENDS Lifecycle, Functions

CONSTANTS
    MaxCount,        \* the largest u64, for coupon and snapshot counters
    MaxU128,         \* the largest u128
    MaxI64,          \* the largest i64, for differences of dates
    Convention,      \* day count conventions
    YearSeconds,     \* seconds of a year under each: 360 or 365 * 86_400
    PaymentMint,     \* mints coupons may be paid in
    PaymentDecimals, \* the decimals of each
    MintDecimals,    \* the decimals of the bond's own mint
    CouponDates,     \* date triples create_coupon receives
    RateArg,         \* interest rates the instructions receive
    DecimalsArg,     \* and their decimals
    TermsArg,        \* the terms update_bond_terms receives
    Tree             \* snapshots: balances of the accounts in the tree

CouponId == 1..MaxCount

SnapshotId == 0..(MaxCount - 1)

\* minimum_denomination and issuance_date are never read: left out.
BondTerms == [rate : Nat, rateDecimals : Nat, par : Nat, parDecimals : Nat,
              convention : Convention]

\* An override of the rate has both parts or neither.
Coupon ==
    {c \in [snapshot : SnapshotId, start : Int, end : Int, payment : Int,
            rate : RateArg \cup {NoPda}, rateDecimals : DecimalsArg \cup {NoPda}] :
       (c.rate = NoPda) <=> (c.rateDecimals = NoPda)}

TreasuryConfig == [mint : PaymentMint, locked : 0..MaxCount]

ASSUME ServicingAssumption ==
    /\ MaxCount \in Nat
    /\ MaxU128 \in Nat
    /\ MaxI64 \in Nat
    /\ YearSeconds \in [Convention -> Nat \ {0}]
    /\ PaymentDecimals \in [PaymentMint -> Nat]
    /\ MintDecimals \in Nat
    /\ CouponDates \subseteq [start : Int, end : Int, payment : Int]
    /\ RateArg \subseteq Nat
    /\ DecimalsArg \subseteq Nat
    /\ TermsArg \subseteq BondTerms
    /\ \A t \in Tree : DOMAIN t \subseteq Account
    /\ NoPda \notin Tree
    /\ NoPda \notin Coupon
    /\ NoPda \notin TreasuryConfig
    /\ NoPda \notin TermsArg

\* Finitely many mints exist: only then do the payments add up to a number.
ASSUME FinitePaymentMints == IsFiniteSet(PaymentMint)

VARIABLES
    bondTerms,     \* bond: BondTerms
    snapshotCount, \* snapshot: the counter, 0 while it does not exist
    roots,         \* snapshot: SnapshotMerkleRoot, by snapshot id
    couponCount,   \* coupon: the counter, 0 while it does not exist
    coupons,       \* coupon: Coupon, by coupon id
    treasury,      \* treasury: TreasuryConfig
    paid,          \* treasury: the CouponPaidMarker amounts, by coupon, account
    funds,         \* payment tokens: what the treasury authority owns
    received       \* payment tokens: what it has paid out to holders

servicingVars == <<bondTerms, snapshotCount, roots, couponCount, coupons,
                   treasury, paid, funds, received>>

\* Type correctness of the accounts a bond is serviced with: everything paid
\* fits u64, and a rate override is never left half set.
ServicingTypeOK ==
    /\ bondTerms \in TermsArg \cup {NoPda}
    /\ snapshotCount \in 0..MaxCount
    /\ roots \in [SnapshotId -> Tree \cup {NoPda}]
    /\ couponCount \in 0..MaxCount
    /\ coupons \in [CouponId -> Coupon \cup {NoPda}]
    /\ treasury \in TreasuryConfig \cup {NoPda}
    /\ paid \in [CouponId -> [Account -> Amount \cup {NoPda}]]
    /\ funds \in [PaymentMint -> Amount]
    /\ received \in [PaymentMint -> Amount]

ServicingInit ==
    /\ Init
    /\ bondTerms = NoPda
    /\ snapshotCount = 0
    /\ roots = [s \in SnapshotId |-> NoPda]
    /\ couponCount = 0
    /\ coupons = [i \in CouponId |-> NoPda]
    /\ treasury = NoPda
    /\ paid = [i \in CouponId |-> [a \in Account |-> NoPda]]
    /\ funds = [m \in PaymentMint |-> 0]
    /\ received = [m \in PaymentMint |-> 0]

-----------------------------------------------------------------------------
(***************************************************************************)
(* The bond program.                                                       *)
(***************************************************************************)

\* Mutant: require_active is forgotten.
ServicingGateForEver(signer, role, functionality) ==
    /\ RequireRole(signer, role)
    /\ RequireNotPaused
    /\ RequireFunctionality(functionality)

\* The checks every instruction of this module begins with.
ServicingGate(signer, role, functionality) ==
    /\ RequireRole(signer, role)
    /\ RequireNotPaused
    /\ RequireActive
    /\ RequireFunctionality(functionality)

\* Replaces all terms, at any time.
UpdateBondTerms(signer, terms) ==
    /\ ServicingGate(signer, "CORPORATE_ACTION", "BOND_UPDATE_BOND_TERMS")
    /\ bondTerms' = terms
    /\ UNCHANGED <<snapshotCount, roots, couponCount, coupons, treasury, paid,
                   funds, received>>

-----------------------------------------------------------------------------
(***************************************************************************)
(* The snapshot and coupon programs.                                       *)
(***************************************************************************)

\* take_snapshot, which only create_coupon can call: the counter holds the id
\* of the next snapshot, `init` refuses an id that is taken.
TakeSnapshot(root) ==
    /\ snapshotCount < MaxCount
    /\ roots[snapshotCount] = NoPda
    /\ roots' = [roots EXCEPT ![snapshotCount] = root]
    /\ snapshotCount' = snapshotCount + 1

\* set_interest_rate: an override has both parts or neither.
RateConsistent(rate, decimals) == (rate = NoPda) <=> (decimals = NoPda)

\* Mutant: the counter is read after the CPI has advanced it.
NextSnapshotIdLate == snapshotCount + 1

\* The id take_snapshot is about to assign, read before the CPI.
NextSnapshotId == snapshotCount

\* Beyond the largest u64 there is no next id.
CreateCoupon(signer, id, dates, rate, decimals, root) ==
    /\ ServicingGate(signer, "CORPORATE_ACTION", "COUPON_CREATE_COUPON")
    /\ dates.end > dates.start
    /\ dates.payment > dates.end
    /\ id = couponCount + 1
    /\ couponCount' = id
    /\ TakeSnapshot(root)
    /\ coupons[id] = NoPda
    /\ RateConsistent(rate, decimals)
    /\ coupons' = [coupons EXCEPT ![id] =
         [snapshot |-> NextSnapshotId, start |-> dates.start,
          end |-> dates.end, payment |-> dates.payment,
          rate |-> rate, rateDecimals |-> decimals]]
    /\ UNCHANGED <<bondTerms, treasury, paid, funds, received>>

\* Mutant: the new rate accrues from now on.
SetCouponRateFromNow(signer, id, rate, decimals) ==
    /\ ServicingGate(signer, "CORPORATE_ACTION", "COUPON_SET_COUPON_RATE")
    /\ coupons[id] # NoPda
    /\ RateConsistent(rate, decimals)
    /\ coupons' = [coupons EXCEPT ![id].rate = rate,
                                  ![id].rateDecimals = decimals,
                                  ![id].start = now]
    /\ UNCHANGED <<bondTerms, snapshotCount, roots, couponCount, treasury,
                   paid, funds, received>>

\* Overrides or clears the rate, however many holders have been paid.
SetCouponRate(signer, id, rate, decimals) ==
    /\ ServicingGate(signer, "CORPORATE_ACTION", "COUPON_SET_COUPON_RATE")
    /\ coupons[id] # NoPda
    /\ RateConsistent(rate, decimals)
    /\ coupons' = [coupons EXCEPT ![id].rate = rate, ![id].rateDecimals = decimals]
    /\ UNCHANGED <<bondTerms, snapshotCount, roots, couponCount, treasury,
                   paid, funds, received>>

-----------------------------------------------------------------------------
(***************************************************************************)
(* The treasury program.                                                   *)
(***************************************************************************)

\* Mutant: the lock of a coupon outlives the creation of the next one.
PaymentTokenUnlockedLate ==
    treasury.locked # 0 => treasury.locked + 1 < couponCount

\* Mutant: the newest coupon itself unlocks.
PaymentTokenUnlockedAtOnce == treasury.locked <= couponCount

\* The claims guard: the coupon that was paid last is not the newest one.
PaymentTokenUnlocked ==
    treasury.locked # 0 => (couponCount # 0 => treasury.locked < couponCount)

\* The lock survives; only a new configuration starts without one.
SetPaymentToken(signer, mint) ==
    /\ ServicingGate(signer, "TREASURER", "TREASURY_SET_PAYMENT_TOKEN")
    /\ IF treasury = NoPda
       THEN treasury' = [mint |-> mint, locked |-> 0]
       ELSE /\ PaymentTokenUnlocked
            /\ treasury' = [treasury EXCEPT !.mint = mint]
    /\ UNCHANGED <<bondTerms, snapshotCount, roots, couponCount, coupons, paid,
                   funds, received>>

\* verify_balance_proof: what the root commits to (see Merkle).
RequireBalanceProof(root, account, balance) ==
    account \in DOMAIN root /\ root[account] = balance

\* The rate in force for a coupon: its override, or that of the bond.
EffectiveRate(coupon) ==
    IF coupon.rate # NoPda /\ coupon.rateDecimals # NoPda
    THEN [rate |-> coupon.rate, decimals |-> coupon.rateDecimals]
    ELSE [rate |-> bondTerms.rate, decimals |-> bondTerms.rateDecimals]

\* Mutant: interest accrues until the day of payment.
ElapsedUntilNow(coupon) == now - coupon.start

Elapsed(coupon) == coupon.end - coupon.start

\* 10u128.pow(n).
PowerOfTen(n) ==
    LET power[i \in 0..n] == IF i = 0 THEN 1 ELSE 10 * power[i-1]
    IN  power[n]

\* rate * balance * par * elapsed / year, scaled to the payment token.
PayoutFraction(coupon, balance) ==
    LET r     == EffectiveRate(coupon)
        power == PaymentDecimals[treasury.mint]
                   - (r.decimals + MintDecimals + bondTerms.parDecimals)
        scale == PowerOfTen(IF power >= 0 THEN power ELSE -power)
        base  == r.rate * balance * bondTerms.par * Elapsed(coupon)
        year  == YearSeconds[bondTerms.convention]
    IN  IF power >= 0
        THEN [scale |-> scale, num |-> base * scale, den |-> year]
        ELSE [scale |-> scale, num |-> base, den |-> year * scale]

\* Mutant: what is left of the division goes to the holder.
PayoutRoundedUp(coupon, balance) ==
    LET f == PayoutFraction(coupon, balance)
    IN  (f.num + f.den - 1) \div f.den

Payout(coupon, balance) ==
    LET f == PayoutFraction(coupon, balance) IN f.num \div f.den

\* The checked u128 products and the conversion to u64.  The power of ten is
\* checked on its own; of the numerator's factors rate * balance always fits
\* and elapsed and scale are at least 1, so the whole product decides.
PayoutInRange(coupon, balance) ==
    LET f == PayoutFraction(coupon, balance)
    IN  /\ f.scale <= MaxU128
        /\ f.num <= MaxU128
        /\ f.den <= MaxU128
        /\ Payout(coupon, balance) <= MaxAmount

\* Mutant: the marker may exist already (`init_if_needed`).
PayableAgain(id, account, balance) ==
    LET coupon == coupons[id]
    IN  /\ treasury # NoPda
        /\ bondTerms # NoPda
        /\ coupons[id] # NoPda
        /\ roots[coupon.snapshot] # NoPda
        /\ now >= coupon.payment
        /\ RequireBalanceProof(roots[coupon.snapshot], account, balance)
        /\ Elapsed(coupon) \in 1..MaxI64
        /\ PayoutInRange(coupon, balance)

\* The accounts pay_coupon names exist, the marker does not (`init`); the
\* coupon is due, the proof holds and the amount is representable.
Payable(id, account, balance) ==
    LET coupon == coupons[id]
    IN  /\ treasury # NoPda
        /\ bondTerms # NoPda
        /\ coupons[id] # NoPda
        /\ roots[coupon.snapshot] # NoPda
        /\ paid[id][account] = NoPda
        /\ now >= coupon.payment
        /\ RequireBalanceProof(roots[coupon.snapshot], account, balance)
        /\ Elapsed(coupon) \in 1..MaxI64
        /\ PayoutInRange(coupon, balance)

\* transfer_checked, then the lock is set to this coupon whichever coupon held
\* it before, then the marker is written.  The account that is paid is the
\* treasurer's choice, one of the treasury's own included.
Disburse(id, account, amount, own) ==
    /\ funds[treasury.mint] >= amount
    /\ funds' = [funds EXCEPT ![treasury.mint] = IF own THEN @ ELSE @ - amount]
    /\ received' = [received EXCEPT ![treasury.mint] =
                      IF own THEN @ ELSE @ + amount]
    /\ treasury' = [treasury EXCEPT !.locked = id]
    /\ paid' = [paid EXCEPT ![id][account] = amount]

\* Pays one holder.
PayCoupon(signer, id, account, balance, own) ==
    /\ ServicingGate(signer, "TREASURER", "TREASURY_PAY_COUPON")
    /\ Payable(id, account, balance)
    /\ Disburse(id, account, Payout(coupons[id], balance), own)
    /\ UNCHANGED <<bondTerms, snapshotCount, roots, couponCount, coupons>>

\* Anyone can fund the treasury, by a transfer of payment tokens.
Fund(mint, amount) ==
    /\ funds[mint] + received[mint] + amount <= MaxAmount
    /\ funds' = [funds EXCEPT ![mint] = @ + amount]
    /\ UNCHANGED <<bondTerms, snapshotCount, roots, couponCount, coupons,
                   treasury, paid, received>>

ServicingStep ==
    \/ \E signer \in Actor :
          \/ \E terms \in TermsArg : UpdateBondTerms(signer, terms)
          \/ \E id \in CouponId, rate \in RateArg \cup {NoPda},
                decimals \in DecimalsArg \cup {NoPda} :
                \/ \E dates \in CouponDates, root \in Tree :
                      CreateCoupon(signer, id, dates, rate, decimals, root)
                \/ SetCouponRate(signer, id, rate, decimals)
          \/ \E mint \in PaymentMint : SetPaymentToken(signer, mint)
          \/ \E id \in CouponId, account \in Account, balance \in Amount,
                own \in BOOLEAN : PayCoupon(signer, id, account, balance, own)
    \/ \E mint \in PaymentMint, amount \in Amount : Fund(mint, amount)

ServicingNext ==
    \/ ServicingStep /\ UNCHANGED vars
    \/ (LifecycleNext \/ Tick) /\ UNCHANGED servicingVars

ServicingSpec == ServicingInit /\ [][ServicingNext]_<<vars, servicingVars>>

-----------------------------------------------------------------------------
(***************************************************************************)
(* Properties.                                                             *)
(***************************************************************************)

\* Coupons and snapshots advance in lockstep: the coupons are 1..count, the
\* snapshots 0..count-1, and every coupon is anchored to the snapshot taken
\* with it, which exists and no other coupon uses.  All accounts are well typed.
CouponsOwnTheirSnapshots ==
    /\ ServicingTypeOK
    /\ snapshotCount = couponCount
    /\ \A i \in CouponId :
         /\ (coupons[i] # NoPda) <=> (i <= couponCount)
         /\ (roots[i - 1] # NoPda) <=> (i <= snapshotCount)
         /\ coupons[i] # NoPda => coupons[i].snapshot = i - 1

\* Who is paid for a coupon, on which balance, from when on and for which
\* period is settled when it is created; rates may change, this never does,
\* and whoever has been paid stays marked as paid that amount.
EntitlementsFixed ==
    [][\A i \in CouponId : coupons[i] # NoPda =>
         /\ coupons'[i] # NoPda
         /\ roots'[coupons'[i].snapshot] = roots[coupons[i].snapshot]
         /\ coupons'[i].payment = coupons[i].payment
         /\ Elapsed(coupons'[i]) = Elapsed(coupons[i])
         /\ \A a \in Account :
              paid[i][a] # NoPda => paid'[i][a] = paid[i][a]
      ]_<<vars, servicingVars>>

\* What the markers say was paid, 0 where there is none.
Marked ==
    [p \in CouponId \X Account |->
       IF paid[p[1]][p[2]] = NoPda THEN 0 ELSE paid[p[1]][p[2]]]

\* The treasury never loses more than the markers say, over all payments, all
\* coupons and whatever token they were made in, and only holders in the
\* snapshot of a due coupon have a marker.
PaymentsAccountedFor ==
    /\ SumFunctionOnSet(received, PaymentMint)
         <= SumFunctionOnSet(Marked, CouponId \X Account)
    /\ \A i \in CouponId, a \in Account : paid[i][a] # NoPda =>
         /\ coupons[i] # NoPda
         /\ now >= coupons[i].payment
         /\ a \in DOMAIN roots[coupons[i].snapshot]

\* Some holder of the newest coupon has been paid.
UnderDistribution ==
    couponCount # 0 /\ \E a \in Account : paid[couponCount][a] # NoPda

\* The payment token is locked only while the newest coupon is being paid: a
\* lock of an earlier coupon never outlives the creation of the next, so the
\* treasurer can always change the token before a distribution begins.
LockedOnlyUnderDistribution ==
    treasury # NoPda /\ ~PaymentTokenUnlocked => UnderDistribution

\* Splitting a holding over two accounts never pays more than holding it in
\* one: what rounding loses stays in the treasury, whatever the terms.
RoundingFavoursTreasury ==
    \A i \in CouponId, whole \in Amount :
        /\ treasury # NoPda /\ bondTerms # NoPda /\ coupons[i] # NoPda
        /\ PayoutInRange(coupons[i], whole)
        => \A part \in 0..whole :
              Payout(coupons[i], part) + Payout(coupons[i], whole - part)
                <= Payout(coupons[i], whole)

\* While the mint is paused, and for ever after its deactivation, no term,
\* coupon, payment token or payment changes; only gifts reach the treasury.
ServicingHalts ==
    [][paused \/ deactivated =>
         /\ UNCHANGED <<bondTerms, snapshotCount, roots, couponCount, coupons,
                        treasury, paid, received>>
         /\ \A m \in PaymentMint : funds'[m] >= funds[m]
      ]_<<vars, servicingVars>>

\* docs/treasury.md on the lock: set_payment_token fails "until a new coupon
\* is created", which "prevents swapping the payment mint mid-distribution of
\* a coupon".
DistributionKeepsItsToken ==
    [][UnderDistribution => treasury'.mint = treasury.mint
      ]_<<vars, servicingVars>>

=============================================================================
