---------------------------- MODULE MCDeployment ----------------------------
(***************************************************************************)
(* An instance of Deployment and HookMetas for TLC: a mint is deployed     *)
(* with up to two additional fields, which may have the same key, and then *)
(* transferred between three token accounts.                               *)
(***************************************************************************)
EXTENDS HookMetas

KeyLengths == [k \in FieldKey |-> IF k = "isin" THEN 4 ELSE 1]

Mints == {<<"m1">>}

Wallets == {<<"a1">>, <<"a2">>, <<"a3">>}

Classes == {<<"c1", "v1">>, <<"c1", "v2">>, <<"c2", "v1">>}

=============================================================================
