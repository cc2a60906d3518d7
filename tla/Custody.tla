------------------------------ MODULE Custody ------------------------------
(***************************************************************************)
(* What holds promise, stated without holds: the tokens of an account are  *)
(* either free or locked.  Free tokens circulate as the other programs     *)
(* decide; locked ones stay put until they are given back or settled.  The *)
(* hold program gives this guarantee without moving a token into custody,  *)
(* by a lien the other programs respect.                                   *)
(***************************************************************************)
EXTENDS Integers

CONSTANTS Account, MaxAmount

VARIABLES free, locked

Amount == 0..MaxAmount

Init ==
    /\ free = [a \in Account |-> 0]
    /\ locked = [a \in Account |-> 0]

\* Issuance, redemption, transfers and seizures, alone or in batches.
Circulate ==
    /\ free' \in [Account -> Amount]
    /\ UNCHANGED locked

\* Only free tokens can be locked, so no token is locked twice.
Lock(a, n) ==
    /\ n <= free[a]
    /\ free' = [free EXCEPT ![a] = @ - n]
    /\ locked' = [locked EXCEPT ![a] = @ + n]

\* Locked tokens become free: those of their own account when they are given
\* back, of the receiver's when they are settled.
Unlock(a, to, n) ==
    /\ n <= locked[a]
    /\ locked' = [locked EXCEPT ![a] = @ - n]
    /\ free' = [free EXCEPT ![to] = @ + n]

Next ==
    \/ Circulate
    \/ \E a \in Account, n \in 1..MaxAmount :
          \/ Lock(a, n)
          \/ \E to \in Account : Unlock(a, to, n)

Spec == Init /\ [][Next]_<<free, locked>>

=============================================================================
