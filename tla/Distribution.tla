----------------------------- MODULE Distribution -----------------------------
(***************************************************************************)
(* Servicing with a history variable: whether the treasurer has been       *)
(* orderly so far.  The programs do not enforce it; the properties of this *)
(* module hold as long as it is so.                                        *)
(***************************************************************************)
EXTENDS Servicing

\* What makes the documentation right: the treasurer pays no coupon but the
\* newest, and once it has begun to neither its rate nor the bond's terms
\* are touched.  The programs do not enforce this.
Orderly ==
    /\ \A i \in CouponId, a \in Account :
         paid[i][a] = NoPda /\ paid'[i][a] # NoPda => i = couponCount
    /\ UnderDistribution =>
         /\ bondTerms' = bondTerms
         /\ coupons'[couponCount] = coupons[couponCount]

\* Holders of equal balances are paid equal amounts for one coupon: nothing
\* but the snapshot and the terms enters, neither when nor in which order
\* they are paid, and the lock keeps the token and its decimals the same.
EqualBalancesEqualPay ==
    \A i \in CouponId, a \in Account, b \in Account :
        /\ paid[i][a] # NoPda /\ paid[i][b] # NoPda
        /\ roots[coupons[i].snapshot][a] = roots[coupons[i].snapshot][b]
        => paid[i][a] = paid[i][b]

VARIABLE orderly \* every step so far has been Orderly

distributionVars == <<vars, servicingVars, orderly>>

DistributionInit == ServicingInit /\ orderly = TRUE

DistributionNext == ServicingNext /\ orderly' = (orderly /\ Orderly)

DistributionSpec ==
    DistributionInit /\ [][DistributionNext]_distributionVars

\* As long as distributions have been orderly, holders of equal balances are
\* paid equal amounts for one coupon (pay_coupon).
OrderlyPaysEqually == orderly => EqualBalancesEqualPay

\* As long as distributions have been orderly, the lock set_payment_token
\* looks at keeps the token of a distribution, as the documentation says.
OrderlyKeepsItsToken ==
    [][orderly' /\ UnderDistribution => treasury'.mint = treasury.mint
      ]_distributionVars

=============================================================================
