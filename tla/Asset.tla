------------------------------- MODULE Asset -------------------------------
(***************************************************************************)
(* One deployed asset: the instructions of every program that acts on its  *)
(* mint, interleaved as the cluster orders their transactions, and the     *)
(* properties of the whole.                                                *)
(***************************************************************************)
EXTENDS Hold, Mint, Lifecycle, Functions

Next ==
    \/ Tick
    \/ TransferControlNext
    \/ FreezeNext
    \/ TransferNext
    \/ OperationsNext
    \/ HoldNext
    \/ MintNext
    \/ LifecycleNext

Spec == Init /\ [][Next]_vars

\* Time passes, and reclaim_hold needs no particular signer: of all the
\* people who may send it for an expired hold, someone does.  No other
\* instruction is ever assumed to be sent.
Fairness ==
    /\ WF_vars(Tick)
    /\ \A a \in Account, id \in HoldId : WF_vars(ReclaimHold(a, id))

FairSpec == Spec /\ Fairness

-----------------------------------------------------------------------------
(***************************************************************************)
(* Liens.                                                                  *)
(***************************************************************************)

\* What one hold still claims.
Claim(a, id) == IF ActiveHold(a, id) THEN holds[a][id].current ELSE 0

\* The accumulator the hook reads, updated by every hold instruction on its
\* own, always equals the sum over the records it stands for: no order of
\* creations, partial executions, releases and reclaims makes it drift.
HeldIsSumOfActiveHolds ==
    \A a \in Account :
        position[a].held
          = SumFunctionOnSet([id \in HoldId |-> Claim(a, id)], HoldId)

\* No instruction takes out tokens a hold claims: neither the transfers the
\* hook sees nor the seizures and burns it does not see.
LienCovered ==
    \A a \in Account : position[a].held <= ledger.balance[a]

\* Ids are handed out in order and a record is active exactly while it
\* claims something, so an id is never reused and no claim is forgotten.
HoldRecordsConsistent ==
    \A a \in Account, id \in HoldId :
        /\ (holds[a][id] = NoPda) <=> (id > position[a].count)
        /\ holds[a][id] # NoPda =>
             (holds[a][id].status = "Active" <=> holds[a][id].current > 0)

\* On an account that is not frozen in any way every active hold can be
\* executed in full: the balance check of execute_hold never rejects it.
UnfrozenHoldsExecutable ==
    \A a \in Account, id \in HoldId :
        ActiveHold(a, id) /\ freezeState[a] = Unfrozen
            => SourceCovers(a, holds[a][id].current)

\* The lien is as good as custody: hold, transfer, mint and operations together
\* implement an escrow that takes locked tokens out of the balance.  What is
\* free is what the lien leaves.
Escrow == INSTANCE Custody WITH
              free   <- [a \in Account |-> ledger.balance[a] - position[a].held],
              locked <- [a \in Account |-> position[a].held]

LiensActAsCustody == Escrow!Spec

\* A hold keeps its terms for ever, its claim never grows, and once resolved
\* it is never touched again.
HoldsOnlyShrink ==
    [][\A a \in Account, id \in HoldId :
         holds[a][id] # NoPda =>
            /\ holds'[a][id] # NoPda
            /\ holds'[a][id].escrow = holds[a][id].escrow
            /\ holds'[a][id].destination = holds[a][id].destination
            /\ holds'[a][id].expiration = holds[a][id].expiration
            /\ holds'[a][id].current <= holds[a][id].current
            /\ holds[a][id].status # "Active" => holds'[a][id] = holds[a][id]
      ]_vars

\* Tokens leave an account against a hold only before its expiration, only
\* as many as the claim loses, and only to the destination it is pinned to.
ExecutionPaysTheClaim ==
    [][\A a \in Account, id \in HoldId :
         (Claim(a, id)' < Claim(a, id) /\ ledger' # ledger) =>
            LET paid == Claim(a, id) - Claim(a, id)'
                to   == holds[a][id].destination
            IN  /\ now < holds[a][id].expiration
                /\ ledger'.balance[a] = ledger.balance[a] - paid
                /\ to # NoPda => ledger'.balance[to] = ledger.balance[to] + paid
      ]_vars

\* The comment on common::require_hold_covered: what a seizure or a burn takes
\* out "still leaves every hold executable".  Stated of any debit that is not
\* itself an execution: a hold whose amount execute_hold's balance check
\* accepted before is still accepted after it.
DebitsLeaveHoldsExecutable ==
    [][\A a \in Account, id \in HoldId :
         (/\ ledger'.balance[a] < ledger.balance[a]
          /\ UNCHANGED holds
          /\ ActiveHold(a, id)
          /\ SourceCovers(a, holds[a][id].current))
            => SourceCovers(a, holds[a][id].current)'
      ]_vars

\* Every hold that expires is resolved in the end, whatever happens to the
\* mint meanwhile: pausing or deactivating it strands no lien.
HoldsResolve ==
    \A a \in Account, id \in HoldId :
        (ActiveHold(a, id) /\ holds[a][id].expiration <= MaxTime)
            ~> ~ActiveHold(a, id)

-----------------------------------------------------------------------------
(***************************************************************************)
(* Supply.                                                                 *)
(***************************************************************************)

\* Once there is a cap the supply is within it, in whatever order the cap is
\* moved and tokens are minted, one by one or in batches, and burned.
CapRespected == maxSupply # NoPda => ledger.supply <= maxSupply

\* The comment on cap::require_within_max_supply: it "returns Ok(()) if no cap
\* is set (the PDA is absent)".
AbsentCapAdmitsMinting ==
    maxSupply = NoPda => \A amount \in Amount : RequireWithinMaxSupply(amount)

\* An asset class with the cap functionality issues nothing uncapped.
NoUncappedSupply ==
    "CAP_MAX_SUPPLY" \in Mask /\ maxSupply = NoPda => ledger.supply = 0

-----------------------------------------------------------------------------
(***************************************************************************)
(* The life of the mint.                                                   *)
(***************************************************************************)

\* A paused mint cannot be deactivated nor a deactivated one paused, so no
\* mint is stuck in the pause it could no longer leave.
NeverPausedAndDeactivated == ~(paused /\ deactivated)

\* After deactivation nothing moves for ever, except that liens dissolve.
DeactivationIsFinal ==
    [][deactivated =>
         /\ deactivated'
         /\ UNCHANGED <<ledger, paused, roles, mode, controlList,
                        freezeState, maxSupply>>
         /\ \A a \in Account :
              /\ position'[a].held <= position[a].held
              /\ position'[a].count = position[a].count
      ]_vars

\* While the mint is paused only unpausing and the dissolution of liens
\* change anything, although several handlers never look at the flag.
PauseHaltsTheAsset ==
    [][paused =>
         /\ UNCHANGED <<ledger, deactivated, roles, mode, controlList,
                        freezeState, maxSupply>>
         /\ \A a \in Account :
              /\ position'[a].held <= position[a].held
              /\ position'[a].count = position[a].count
      ]_vars

\* An asset that has lost its last administrator never has one again.
AdminLossIsPermanent ==
    [][(\A s \in Actor : "ADMIN" \notin roles[s]) => UNCHANGED roles]_vars

-----------------------------------------------------------------------------
(***************************************************************************)
(* Compliance.                                                             *)
(***************************************************************************)

NoController == \A s \in Actor : "CONTROLLER" \notin roles[s]

\* Unless someone is a controller, tokens leave an account only if it is not
\* frozen in full, and what stays covers its partial freeze and its liens:
\* wallet transfers, every leg of a batch and hold executions alike.
DebitsRespectFreezes ==
    [][NoController => \A a \in Account :
         ledger'.balance[a] < ledger.balance[a] =>
            /\ ~freezeState[a].fully
            /\ ledger'.balance[a] >= freezeState[a].frozen + position'[a].held
      ]_vars

\* Unless someone is a controller, every account whose balance changes
\* satisfies the control list in force: sender and receiver of a transfer,
\* each destination of a batch, a mint or a hold execution.
MovesRespectControlList ==
    [][NoController => \A a \in Account :
         ledger'.balance[a] # ledger.balance[a] =>
            VerifyTransferControlMode({a})
      ]_vars

\* What is left of a balance beyond its partial freeze and its liens.
Spendable(a) ==
    ledger.balance[a] - freezeState[a].frozen - position[a].held

\* The hook, which runs after every debit on the balance it finds then, lets a
\* holder spend all it may and no more: a batch to other accounts that the
\* control list admits goes through exactly when its total is spendable, in
\* however many legs and however much the destinations own already.
BatchesSpendWhatIsFree ==
    (~paused /\ RequireActive /\ RequireFunctionality("TRANSFER_HOOK_EXECUTE"))
        => \A from \in Account, n \in 1..MaxBatch :
             \A legs \in [1..n -> TransferLeg] :
               (/\ ~freezeState[from].fully
                /\ \A i \in 1..n :
                     /\ legs[i].to # from
                     /\ VerifyTransferControlMode({from, legs[i].to}))
                 => (LegsAccepted(from, n, legs)
                       <=> BatchTotal(n, legs) <= Spendable(from))

=============================================================================
