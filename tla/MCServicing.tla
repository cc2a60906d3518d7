---------------------------- MODULE MCServicing ----------------------------
(***************************************************************************)
(* Instances of Servicing for TLC.  A year is two seconds long, the clock  *)
(* and the coupon periods are scaled with it.                              *)
(***************************************************************************)
EXTENDS Distribution, TLC

CONSTANTS op, h1, h2, tokA, tokB

OnlyOp == {op}

OperatorRoles == [s \in Actor |-> Role]

\* Pausing and deactivating, but no change of roles.
NoRoleChange == {}

Holders == {h1, h2}

TwoTokens == {tokA, tokB}

\* The second token has one decimal more than the first.
Decimals == [m \in PaymentMint |-> IF m = tokA THEN 1 ELSE 2]

Year == [c \in Convention |-> IF c = "Actual360" THEN 2 ELSE 3]

Conventions == {"Actual360", "Actual365"}

Dates == {[start |-> -1, end |-> 0, payment |-> 1],
          [start |-> 0, end |-> 0, payment |-> 1],
          [start |-> -1, end |-> 1, payment |-> 1]}

\* A rate of 1 or of 0.3, no decimals or one.
Rates == {3}

RateDecimals == {1}

\* A par of 0.2 and either convention: a coupon paid in the first token is
\* worth 1 a unit under one and 0 under the other.
BothTerms ==
    {[rate |-> 1, rateDecimals |-> 0, par |-> 2, parDecimals |-> 1,
      convention |-> c] : c \in Conventions}

\* Equal balances, and unequal ones of which one account is not in the tree.
Trees == {[h \in Holders |-> 1], [h \in {h1} |-> 2]}

=============================================================================
