# A TLA+ verification of the Asseto Solana programs

Asseto issues securities as Token-2022 mints on Solana. Some twenty Anchor programs
(under `src/programs/`) act on one mint: they issue and burn it, decide who may
hold it, freeze accounts, put liens on them, pay coupons, and in the end switch
the asset off. No program owns the whole state; each one keeps its own program
derived accounts (PDAs) and reads those of the others. What keeps an asset
correct is therefore a set of agreements between programs: the transfer hook
reads what `hold` and `freeze` wrote, `operations` must check what the hook
exempts it from, every handler must look at the deactivation marker.

This project models those agreements, checks them with TLC on small instances,
and proves the most important ones with TLAPS for instances of every size.

## 1. Inventory

| Component | State it keeps | Operations | Module |
|---|---|---|---|
| `common` | none: checks on other programs' PDAs | `require_active`, `require_not_paused`, `require_functionality`, `require_role`, `held_amount`, `require_hold_covered`, `require_balance_proof` | `AssetState`, `Servicing` |
| `deploy` | `AssetConfiguration` | `deploy_mint` | `Deployment`; `Init` of `AssetState`; `DeployMint` of `Factory` |
| Token-2022 (external) | balances, supply, the pause flag | mint, transfer, burn, pause; calls the hook | `Token2022` |
| `transfer-hook` | none | `execute`, called back by Token-2022 after the debit; `initialize_extra_account_meta_list` | `Token2022`, `HookMetas` |
| `transfer` | none | `batch_transfer` | `Token2022` |
| `transfer-control` | mode, control list | `initialize`, `add_to_control_list`, `remove_from_control_list` | `TransferControl` |
| `freeze` | `FreezeState` per account | freeze, unfreeze, in full or in part, alone or in batches | `Freeze` |
| `operations` | none: signs as permanent delegate | `controller_transfer`, `burn_tokens`, `batch_burn`, `hold_transfer` | `Operations` |
| `hold` | `HoldPosition` per account, `Hold` records | create (by the owner or a controller), execute, release, reclaim | `Hold` |
| `mint`, `cap` | `MaxSupply` | `mint`, `batch_mint`, `set_max_supply` | `Mint` |
| `access-control` | `Roles` per wallet | `grant_roles`, `revoke_roles` | `Lifecycle` |
| `pause`, `deactivate` | the deactivation marker | `pause_mint`, `unpause_mint`, `deactivate` | `Lifecycle` |
| `factory` | manager, owners, nominations, pause, asset class versions | nominate, accept, cancel, pause, create a class, draft, edit, finalize a version | `Factory` |
| `snapshot`, `coupon`, `treasury` | snapshots, coupons, payment token and its lock, payment markers | `take_snapshot`, `create_coupon`, `set_coupon_rate`, `set_payment_token`, `pay_coupon` | `Servicing` |
| `bond` | terms a payout reads | `update_bond_terms` | `Servicing` |
| `nominal-value` | value and period | initialize, publish, republish | `Records` |
| `document`, `metadata-update` | texts, in accounts of varying size | set, remove | `Records` |
| bit masks | none | `set_bits`, `clear_bits`, `is_set` | `BitMask` |
| Merkle proofs | none | `verify_balance_proof` | `Merkle` |
| PDA derivation, events, error codes | none | | not modelled (section 6) |

How they interact:

* **CPI.** `mint`, `transfer`, `operations` and `pause` call Token-2022, which
  checks its own pause flag and, on transfers only, calls `transfer-hook`. The
  CPI of `execute_hold` goes through `operations::hold_transfer`, which only the
  hold program's PDA may call.
* **Shared state.** The hook reads the mode, the control list, the freeze state,
  the hold position, the deactivation marker and the functionality mask.
  `hold` reads the freeze state and the control list; `mint` the cap and the
  control list; `operations` the hold position.
* **Binding.** `deploy_mint` binds a mint to a final version of an asset class
  of the `factory`; every later `require_functionality` follows that binding.
* **Counters.** `create_coupon` calls `take_snapshot` and predicts the id it will
  assign; `set_payment_token` compares its own lock with the coupon counter;
  `pay_coupon` reads the coupon, its snapshot, the bond's terms and the decimals
  of the payment token as they are at that moment.
* **Exemption.** The hook lets the permanent delegate through, so
  `controller_transfer` and the burns have to respect liens by themselves, with
  a check on the balance *before* the debit, while the hook compares the balance
  *after* it.

What is hard about it. Solana instructions are atomic, so there is no data race;
the difficulty is in long sequences of instructions sent by parties that do not
coordinate (holders, escrows, controllers, freeze managers, pausers), in batches
whose legs name the same account, in checks made at one time and relied on at
another (a hold created before a freeze and executed after it), in deadlines,
and in states nobody can leave. `PROJECT.json` lists these hazards at the lines
where they bite, with the properties aimed at them.

What makes each component correct:

* liens: the accumulator equals the records it stands for, the balance covers
  it, an id is never reused, claims only shrink, expired holds are always
  resolved, and all this together amounts to custody;
* compliance: without a controller no debit escapes a freeze or a lien, no
  balance change escapes the control list, and what is neither frozen nor held a
  holder can spend, to the last token;
* supply: the cap holds for single and batched issuance, and where there is a cap
  nothing is issued before it is set;
* life of the mint: paused and deactivated exclude each other, deactivation is
  final, the pause halts everything but the release of liens, and an asset that
  lost its last administrator never gets one back;
* factory: offices pass only to a standing nominee, versions are consecutive
  with one draft at most, and what a deployed mint may do never changes;
* servicing: every coupon owns its snapshot, a holder is paid once per coupon and
  only what the snapshot entitles to, rounding never favours a holder, the lock
  on the payment token is lifted in time (and, see section 5, not always set);
* records: the events of the nominal value tell its history, accounts of texts
  fit and pay their rent, a field that looks like a core field is one;
* plumbing: masks are sets, proofs prove balances and nothing else, the hook's
  account table agrees with its readers, a deployment goes through and leaves
  nothing behind.

## 2. Modules

```
AssetState ── TransferControl ─┐
           ├─ Freeze ──────────┴─ Token2022 ─┬─ Operations ── Hold ─┐
           │                                 └─ Mint ───────────────┤
           └─ Lifecycle ─┬──────────────────────────────────────────┴─ Asset ── MCAsset
                         ├─ Servicing ── Distribution ── MCServicing
                         └─ Records ── MCRecords
Factory ── MCFactory
Deployment ── HookMetas ── MCDeployment
BitMask, Merkle ── MCCommon
Custody (abstract) ····· implemented by Asset
Handover (abstract) ···· implemented by Factory, for the manager and for every owner
Induction ─┬─ AssetProofs (over Asset) ── LedgerProofs
           ├─ ServicingProofs (over Distribution)
           ├─ RecordsProofs (over Records)
           ├─ DeploymentProofs (over HookMetas)
           └─ CommonProofs (over BitMask and Merkle)
FactoryProofs (over Factory)
```

* `AssetState` declares the state of one mint, its initial value and the checks
  of `common`. One instruction is one action; a failing `require!` is a disabled
  action, because the runtime rolls a failed instruction back. A PDA family
  keyed by account is a function on accounts. Where the code reads an absent
  PDA as a default (no `FreezeState` means not frozen, no `HoldPosition` means
  nothing held) the model stores the default; where absence has a meaning of its
  own (no mode, no cap, no hold of that id) it stores `NoPda`. The deactivation
  marker and a control list entry carry no data: they are a Boolean and a set.
* `TransferControl`, `Freeze`, `Operations`, `Hold`, `Mint`, `Lifecycle` have one
  action per instruction of their programs and a `...Next` that dispatches
  as the `#[program]` module does. Arguments come from the instruction: amounts
  and hold ids range over all of u64 (shrunk), signers over all wallets, a batch
  over all sequences of at most `MaxBatch` legs.
* `Token2022` models the external ledger by *moves*: minting is a move from
  nowhere, burning a move to nowhere, and a self-transfer changes nothing and
  calls no hook. `Execute` is the hook. A batch is the trace of ledgers after
  each of its legs; leg `i` is checked on the ledger leg `i-1` left.
* `Asset` is the union of all of these and states the properties.
* `Custody` says what holds promise without mentioning holds: tokens are free or
  locked, only free ones circulate or can be locked, locked ones become free by
  being given back or settled. `LiensActAsCustody` instantiates it with
  `free = balance - held` and `locked = held`.
* `Factory` has one action per instruction of the factory program. `deploy_mint`
  enters as the reader of a final version. `Handover` says what a nomination
  promises; `OfficesPass` instantiates it with the accounts of the manager's
  nomination and of every owner's. `MintKeepsItsMask` is what the constant
  `Mask` of `AssetState` rests on.
* `Servicing` composes bond, snapshot, coupon and treasury with the roles, the
  pause and the deactivation of `Lifecycle`. The payout is the code's fraction,
  with the power of ten of either sign, the u128 products and the final u64.
* `Distribution` adds a history variable to `Servicing`: whether the steps so far
  were `Orderly`, which the programs do not enforce. Only the newest coupon is
  paid, and terms are left alone once that has begun.
* `Records` composes nominal-value, document and metadata-update with
  `Lifecycle`. A text is known by its length, because accounts must hold the
  rent for their size; a lamport is the price of one byte, and the helpers of
  `pda_utils` act on a length and a number of lamports.
* `Deployment` opens up `deploy_mint`: one action per step, each with the
  condition under which the called program refuses.
* `HookMetas` continues a deployment with a transfer of the new mint and resolves
  the table of extra accounts the way Token-2022 does, one recipe per step, an
  address being the sequence of its seeds. Seeds taken from the data of an account
  are the words that stand there at the offsets the recipe names.
* `BitMask` and `Merkle` check the two pure algorithms of `common` against what
  the other modules use in their place, a set of roles or functionalities and a
  function from accounts to balances.
* The modules named `MC...` hold the instances for TLC; definitions whose comment
  begins with *Mutant* are wrong versions of a definition, kept to show which property
  notices. No specification uses them.

Widths. Amounts and hold ids are u64; `MaxAmount` and `MaxHoldId` stand for the
largest value, and every `checked_add`, `checked_sub` and `saturating_sub` of
the code is a conjunct or `Monus`. TLC runs with 1 to 3; the proofs are for any
value, 2^64 - 1 included.

Deliberate simplifications:

* `ExecuteHold` admits a destination equal to the source. Whether the framework
  refuses to name one account twice does not matter: refusing removes steps.
* Owners of token accounts are left out: the model lets any account be acted on
  by its owner, whoever that is. Closing token accounts is left out; Token-2022
  only closes empty ones, and an account of balance zero covers no lien.
* `created_at` and `initial_amount` of a hold are never read and left out, and so
  are most events; rent, account sizes and metadata are left out of `Asset` and
  are the subject of `Records` and `Deployment`.
* `InitRoles` is the outcome of the grants made right after deployment, so that
  a run need not spend its states on them; the `lifecycle` run changes roles.
* The functionality mask is a constant of `AssetState`: `Factory` shows that what
  it stands for never changes (`MintKeepsItsMask`).
* `Servicing` pools the token accounts of the treasury per payment mint, and lets
  the treasurer choose who is paid: `pay_coupon` constrains the receiving account
  by its mint only, so it may also be the treasury's own. `minimum_denomination`
  and `issuance_date` of the bond are never read and left out.
* keccak is taken to be free of collisions: in `Merkle` a digest is its preimage.
* In `Records` the hash of a document is written with its uri and left out, and
  so are the currency and the decimals of the nominal value, written once.

## 3. Model checking

The runs about an asset take the mask of an asset class that offers what the
question needs, which is how deployments differ in reality.

| Run | Instance | Shows |
|---|---|---|
| `liens` | 2 accounts, amounts to 2, 2 holds per account, expirations 1 and 2, clock to 2 | `TypeOK`, `HeldIsSumOfActiveHolds`, `HoldRecordsConsistent`, `UnfrozenHoldsExecutable`, `HoldsOnlyShrink`, `ExecutionPaysTheClaim`, `LiensActAsCustody` |
| `compliance` | 2 accounts, amounts to 2, batches of 2, all freeze and control list instructions, no controller | `DebitsRespectFreezes`, `MovesRespectControlList`, `BatchesSpendWhatIsFree` |
| `supply` | 2 accounts, amounts to 3, batches of 2, a cap that moves, a hold | `LienCovered`, `CapRespected`, `NoUncappedSupply` |
| `lifecycle` | 1 account, 2 wallets, 2 holds, every functionality, roles granted and revoked | `NeverPausedAndDeactivated`, `DeactivationIsFinal`, `PauseHaltsTheAsset`, `AdminLossIsPermanent`; `HoldsResolve`, under fairness |
| `seizure` | as `liens` with a partial freeze | a counterexample to `DebitsLeaveHoldsExecutable` (section 5) |
| `absentcap` | as `supply` | a counterexample to `AbsentCapAdmitsMinting` (section 5) |
| `factory` | 3 wallets, 2 classes, 2 versions each, 1 mint | `VersionsConsecutive` (with `FactoryTypeOK`), `MintKeepsItsMask`, `FactoryPauseHalts`, `OfficesPass` |
| `coupons` | 2 holders, 2 coupons, 2 payment tokens of different decimals, amounts to 2, bond terms that change between both day count conventions, rate overrides, pause and deactivation | `CouponsOwnTheirSnapshots` (with `ServicingTypeOK`), `PaymentsAccountedFor`, `LockedOnlyUnderDistribution`, `RoundingFavoursTreasury`, `EntitlementsFixed`, `ServicingHalts`, `OrderlyPaysEqually`, `OrderlyKeepsItsToken` |
| `tokenswap` | as `coupons`, amounts to 4 | a counterexample to `DistributionKeepsItsToken` (section 5) |
| `records` | nominal-value: 2 values, 4 events, clock to 5; documents: 2 names, texts of 0, 1 and 6 bytes, strangers sending lamports; metadata: 5 keys of which 2 differ in case, roles granted and revoked | `EventsTellTheHistory`, `DocumentsFitTheirAccounts` (with `RecordsTypeOK`), `MintStaysRentExempt`, `NoShadowFields`, `RecordsHalt` |
| `common` | masks of 2 bytes, positions at and beyond both boundaries, lists of 2; snapshots of up to 4 accounts, 2 balances, proofs of up to 3 siblings | `MaskIsItsSet`, `RootsCommit` |
| `deployment` | texts of 0 and 3 bytes, up to 2 additional fields that may share a key, 3 asset class versions; then a transfer between 3 token accounts | `FundedForItsMetadata`; `DeploymentsGoThrough` and `HonestTransfersReachTheHook`, under fairness |

The runs `records` and `common` explore several programs or algorithms that share
nothing: each one with the others at rest, which a variable of the MC module or
the shape of its next-state relation says.

Why the bounds are enough. Two accounts give a sender and a receiver, and every
rule is about one or both. An amount of 2 can be split into a part and a rest,
which partial execution, partial freezes and two concurrent holds need; the
supply run uses 3 so that a batch of two legs fits under the cap leg by leg and
not in total. Two holds per account are the fewest between which a claim can be
shifted. Two expirations let one hold expire while another is live, and a clock
that reaches the later one makes both expire. Batches of two legs are the
shortest in which a leg sees another's effect. Where they exist the proofs have
none of these bounds.

Three wallets are a holder of an office, a nominee and one who replaces them; two
versions let one be drafted after another is final. Two coupons are the fewest
between which a lock can be confused, two holders the fewest that can be paid
differently, and two tokens with different decimals make the scale of a payout
positive and negative. The bond terms differ in the day count so that a unit is
paid 1 under one convention and 0 under the other: a change of terms in the
middle of a distribution would show. Three lengths of text let an account grow, shrink and stay.
Four leaves give trees that are balanced and trees that are lists.

Accounts are interchangeable and no property or initial state names one, so
`liens`, `compliance` and `supply` use symmetry on accounts, and `factory` on
wallets; no run that checks liveness does.

Fairness. `HoldsResolve` assumes weak fairness of `Tick` (slots pass whatever the
programs do) and of `ReclaimHold` for each hold. `reclaim_hold` asks for no role
and no particular signer, and checks neither pause nor deactivation, so anyone
with an interest in the account, its owner first, can send it at any time after
expiration. No other instruction is assumed to be sent; in particular neither
the escrow nor the pauser has to cooperate.

`HonestTransfersReachTheHook` and `DeploymentsGoThrough` assume weak fairness of
the whole next-state relation: they describe the inside of one transaction, which
the runtime carries on to its end or to a refusal.

Deadlock checking is on, except where the system may really stop: in `lifecycle`
and `records` a deactivated mint at the bound of the clock has nothing left to
do, and `common` and `deployment` are over when the tree or the transfer is.

## 4. Proofs

The modules `...Proofs` prove every safety invariant and every action property of
the passing runs, for every set of accounts and wallets, every u64 bound, every
functionality mask, batches of every length, any number of holds, coupons, holders
and payment tokens, masks, trees, proofs, texts and lists of fields of every size.
Of the three properties that remain, which are liveness, they prove the safety
half: what is to happen is never refused. In all modules the last step of a theorem
combines one lemma about the initial states with one per action.

| Theorem | Of | States |
|---|---|---|
| `TypeCorrect`, `LiensStayCovered` | `AssetProofs` | `[]TypeOK`, `[]LienCovered` |
| `LiensRefineCustody` | `AssetProofs` | `Spec` implements `Custody` (`LiensActAsCustody`) |
| `RecordsStayConsistent`, `AccumulatorNeverDrifts`, `UnfrozenStaysExecutable` | `AssetProofs` | `[]HoldRecordsConsistent`, `[]HeldIsSumOfActiveHolds`, `[]UnfrozenHoldsExecutable` |
| `TermsNeverChange`, `ExecutionsPayTheirClaim` | `AssetProofs` | `HoldsOnlyShrink`, `ExecutionPaysTheClaim` |
| `NoLienStranded` | `AssetProofs` | `[]HoldsStayResolvable` and `ResolutionIsComplete`, the safety half of `HoldsResolve` |
| `PauseExcludesDeactivation`, `DeactivationForEver`, `PauseHalts`, `AdminGoneForEver` | `LedgerProofs` | `[]NeverPausedAndDeactivated`, `DeactivationIsFinal`, `PauseHaltsTheAsset`, `AdminLossIsPermanent` |
| `CapHolds`, `NothingUncapped` | `LedgerProofs` | `[]CapRespected`, `[]NoUncappedSupply` |
| `FreezesBindDebits`, `ControlListBindsMoves` | `LedgerProofs` | `DebitsRespectFreezes`, `MovesRespectControlList` |
| `FreeTokensMove` | `LedgerProofs` | `[]BatchesSpendWhatIsFree` |
| `VersionsInOrder`, `MaskFixedAtDeployment`, `PauseHaltsTheFactory` | `FactoryProofs` | `[]VersionsConsecutive`, `MintKeepsItsMask`, `FactoryPauseHalts` |
| `OfficesPassToNominees` | `FactoryProofs` | `Factory` implements `Handover` twice (`OfficesPass`) |
| `CouponsAnchored`, `EveryPaymentMarked`, `LockMeansDistribution`, `RoundingNeverOverpays` | `ServicingProofs` | `[]CouponsOwnTheirSnapshots`, `[]PaymentsAccountedFor`, `[]LockedOnlyUnderDistribution`, `[]RoundingFavoursTreasury` |
| `EntitlementsSettled`, `PauseHaltsServicing` | `ServicingProofs` | `EntitlementsFixed`, `ServicingHalts` |
| `OrderlyMeansEqualPay`, `OrderlyMeansOneToken` | `ServicingProofs` | `[]OrderlyPaysEqually`, `OrderlyKeepsItsToken`, of `DistributionSpec` |
| `HistoryUnambiguous`, `DocumentsFit`, `MintRentExempt`, `NoFieldShadowed`, `PauseHaltsRecords` | `RecordsProofs` | `[]EventsTellTheHistory`, `[]DocumentsFitTheirAccounts`, `[]MintStaysRentExempt`, `[]NoShadowFields`, `RecordsHalt` |
| `DeploymentsAreFunded` | `DeploymentProofs` | `[]FundedForItsMetadata` |
| `DeploymentsAreNotRefused` | `DeploymentProofs` | `[]StepsArePrepared`, the safety half of `DeploymentsGoThrough` |
| `HonestTransfersAreNotRefused` | `DeploymentProofs` | `[]HonestTransfersAreServed`, the safety half of `HonestTransfersReachTheHook` |
| `MasksAreSets`, `RootsCommitToSnapshots` | `CommonProofs` | `[]MaskIsItsSet` of `MaskSpec`, `[]RootsCommit` of `MerkleSpec` |

Assumptions. They are those of the modules and nothing else: the bounds are
naturals, arguments come from sets of the right type, `NoPda` is none of the values
an account can hold, initial roles and the mask are sets of what they should be.
Where something is summed, what it is summed over is finite: the accounts of a mint
(`FiniteAccounts`), the payment mints (`FinitePaymentMints`) and the custom fields
a deployment wrote (`FiniteDeployed`). In `HookMetas` an address is a sequence of
names and an asset class version is known by two of them. TLC evaluates all of
these in the runs. One assumption is not a formula: that keccak has no collisions
is in the shape of `LeafHash` and `NodeHash`, where a digest is its own preimage,
marked as a leaf or an inner node by the length of what is hashed.

### The tools: `Induction`

The induction theorems of the library take an operator as a parameter and cannot
be instantiated here. `Induction` derives what is needed from the least number
principle, with sets in place of predicates: `PrefixInduction` and
`PrefixRecursion` on an initial segment of the naturals (a batch is a recursive
function on its legs), and sums over finite sets. `SumFunctionOnSet` of the
community modules is defined by a choice of elements in some order; `SumRemove`
shows, by induction over the size, that the order does not matter, and `SumUpdate`
what a change of one summand does to the sum. These are what every theorem about a
sum rests on.

### The asset

`LienCovered` (held <= balance for every account) is inductive together with
`TypeOK` only, which is itself informative: the lien does not depend on the hold
records being consistent, because every path that debits an account compares the
balance with the accumulator it stores. Each kind of debit gives the same fact in
its own way (the lemmas `TransferRespectful` for the post-debit check of the hook,
`HoldCoveredRespectful` for the pre-debit check of `operations`, and
`ReduceLienEffect` for an execution, which lowers the lien by what it debits), and
`MovedCovered` concludes. For a batch `BatchCovered` shows by induction over the
legs that each prefix leaves the liens covered if each leg is respectful on the
ledger it meets.

Refinement of `Custody`. A step of `CreateHold` maps to `Lock`, executing,
releasing and reclaiming to `Unlock`, every other step that moves tokens to
`Circulate`, the rest to stuttering; that `Circulate` ends in a legal state is
`LienCovered` of the next state.

The hold records. `HeldIsSumOfActiveHolds` is not inductive by itself: that a new
hold adds its amount to the sum needs that its id was free, and that closing one
takes out its whole claim needs that an inactive hold has none. `RecordsInv`
joins it with `HoldRecordsConsistent` and the invariant of the liens.
`HoldEffect` says once what the hold program can do to the records (append one,
reduce one, pay from one), and the two action properties follow from that.
`UnfrozenHoldsExecutable` follows from `RecordsInv`: a claim is at most the sum
(`SumMember`), the sum is what is held (`ClaimWithinHeld`), and that is covered.
`NoLienStranded` uses the same fact for the other way out: `reclaim_hold` and
`release_hold` look at neither pause, deactivation nor freeze, and what could still
stop them, the functionality and the checked subtraction from the accumulator,
never does. Together with the fairness of `ReclaimHold` this is why `HoldsResolve`
holds on instances of every size, although only TLC checks the last step.

The lifecycle theorems are about what every other instruction refuses to do: the
proof of each goes through all programs, which is where a handler without
`require_active` would show. `mint`, the burns and `controller_transfer` never
look at the pause flag; the proof of `PauseHalts` uses Token-2022's refusal for
them, leg by leg in a batch, and a batch of no legs is excluded by its length.

The ledger. `CapRespected` and `NoUncappedSupply` are inductive together
(`Capped`), given types. The point is `batch_mint`: the cap is compared once, with
the checked total, before any leg runs. `BatchUp` shows by induction that the
legs raise the supply by exactly that total; `BatchDown` that transfers and burns
never raise it. For the two compliance properties a batch is followed leg by leg: the ledger changes from leg
to leg while freezes, liens and the list do not, so that what holds after the last
leg that touched an account holds at the end.

`FreeTokensMove` says when a holder's batch goes through, so both directions
matter. The source loses the running totals of the legs (`SourceRuns`), so that
after each leg the check of the hook is that the total so far is free: with a total
that is free no leg is refused for its source, and a batch that went through has a
free total because its last leg was checked (`FreeBatch`). A leg could still be
refused because the destination overflows. It never is, because the balances add up
to the supply (`LedgerInStep`), which fits u64, so two of them fit together as well
(`TwoBalances`, `SoundLeg`). That the arithmetic of the hook itself, `frozen + held`,
does not overflow in a way that locks a holder out is part of the statement.

### The factory

`FactoryInv` is `VersionsConsecutive` with types, "every deployed mint is bound to
a version that exists and is final" (`BoundToFinal`), and "there is no nomination
for an office that was never filled". The second is what `MintKeepsItsMask` needs:
a final version is never written again.

### Servicing

`ServicingInv` adds to `CouponsOwnTheirSnapshots` and `PaymentsAccountedFor` that
what was funded and what was paid out of one token together fit u64 (`FundsFit`),
and that the coupon holding the lock exists and has been paid to someone
(`LockedByPayment`), from which `LockedOnlyUnderDistribution` follows with a
comparison of ids. A payment adds its amount to at most one summand of the tokens
received and to exactly one of the markers, which was absent before; "at most"
because the treasurer may pay an account of the treasury itself.

`RoundingFavoursTreasury` rests on `PayoutLinear`: whatever the terms, a payout is
`(c * balance) \div d` with `c` and `d > 0` that do not depend on the holder, so
that `FloorsAdd` applies.

For orderly distributions the invariant is `PaidAsOfNow`: whoever has been paid
for the newest coupon was paid what `pay_coupon` would pay now, and the lock is on
that coupon. It says what the finding about the lock (section 5) breaks, and why
the discipline repairs it.

### Records

The three programs share no account and each keeps an invariant of its own.
`EventsTellTheHistory` needs that an account that was never published says
period 0, or the first event could be a correction. `DocumentsFitTheirAccounts`
needs that an address without a document has no data: otherwise `resize_pda`
could find the right length there and leave it without rent. For
`MintStaysRentExempt` the work is in `PredictionRight`: the size the program
predicts, by subtracting the old text from a total, is the size of what
Token-2022 stores, whether the field is a core one, a custom one that exists or a
new one.

### Deployment and transfers

`FundedForItsMetadata` is not inductive: it does not say that there are lamports
left for the fields that are still to be written. `Funding` does: until the
metadata is there the lamports are exactly what `deploy_mint` computed, the rent of
all that was asked for by `tlv_size_of`, whose header is eight bytes longer than
what Token-2022 stores; while fields are written they cover what is stored and the
list that is left. A
step takes the head off that list (`FieldsSizeTail`, a sum over a sequence that
shifts) and writes one key of the stored fields (`ExtrasSizeWrite`); a key that
comes again replaces its value and leaves lamports over.

`Progress` says who holds which authority at which step and which extensions are
there, from which the condition of every called program follows; the size
`initialize_mint2` insists on needs in addition that the five extensions are five
(`AllExtensions`). What it says of the last step is `GovernedByItsPrograms`.

`TransferInv` says that the accounts gathered so far are a prefix of the list
`Execute` declares, and that the configuration they are read from names an asset
class version (from `DeployInv`), whose words lie where the recipe with data seeds
looks for them (`ConfigurationWords`). That the next recipe extends this prefix, and names an account
that was forwarded, is `RecipesAreRight`, one case for each of the fourteen
recipes, with the three tables of the code opened one row at a time (`MetaTable`,
`ExecuteTable`, `OrderedTable`).

### Masks and Merkle proofs

`Represents(m, S)` is `MaskIsItsSet` for any mask and set. What the operators of u8
do to the bits of a byte is arithmetic on eight binary digits (`ByteOfBits`);
`OrOneBit` and `AndNotOneBit` say that one bit is written and no other, and
`SetBitsAdds` and `ClearBitsRemoves` follow the loop through a list of any length.

For `RootsCommit` the digests are the least set of strings closed under `LeafHash`
and `NodeHash` (`Hashes`), so that an induction over digests is an instance of
leastness. No digest is the beginning of another (`PrefixFree`), hence a digest
determines what was hashed (`HashInjective`), a leaf is never mistaken for an
inner node, and because the order on digests is total and antisymmetric an inner
node does not depend on the order its children are met in (`AbsorbCommutes`).
`RootsCommit` itself only looks at siblings from the tree and cannot be carried
from two trees to the one that joins them. The invariant is stronger: `Sound` says
that no list of digests whatsoever, of any length, proves anything but the
snapshot. Before its last element a proof of a new root has arrived at one of
the two old ones (`ProofsOfRoots`), and so is a proof of that root without it.

### Only model-checked

* `HoldsResolve`, `DeploymentsGoThrough` and `HonestTransfersReachTheHook`:
  liveness under fairness is beyond the prover. Their safety halves are proved.
* The three runs that end in a counterexample.

## 5. Findings

* **A seizure can make a hold inexecutable.** The comment on
  `common::require_hold_covered` (`common/src/lib.rs:164-166`) says the check
  "still leaves every hold executable". It ignores partial freezes by design, but
  `execute_hold` does not: it wants `balance >= frozen + held`. With a balance of
  two, one token frozen and one held, seizing or burning one token is accepted,
  and the hold that could be executed before is rejected after. Nothing is lost:
  the lien stays covered (`LienCovered` is proved) and lifting the partial freeze
  makes the hold executable again (`UnfrozenHoldsExecutable`).
* **An absent cap blocks issuance.** The comment on
  `cap::require_within_max_supply` (`cap/src/lib.rs:21-22`) says it returns
  `Ok(())` if no cap is set, and `docs/cap.md:159` that it does not consult the
  functionality bit. It does, and answers `MaxSupplyNotSet`. The code is the
  stricter one, and `NoUncappedSupply` is what it gains by that.
* **Paying an older coupon unlocks the payment token of a newer one.**
  `docs/treasury.md:31` says that after the first payment for a coupon
  `set_payment_token` fails "until a **new** coupon is created", which "prevents
  swapping the payment mint mid-distribution of a coupon". `pay_coupon.rs:127`
  assigns the lock whatever it was before: a payment for coupon 2 followed by a
  late one for coupon 1 lowers it to 1, the guard sees that the count is 2, and
  the token can be replaced while holders of coupon 2 are still to be paid.
  `OrderlyKeepsItsToken` and `OrderlyPaysEqually` show what discipline makes the
  documentation right: to pay no coupon but the newest. (Without it holders of equal balances can also be paid
  unequally, because rate, terms and decimals are read at each payment; no
  document promises otherwise.)
* A remark without a run: `transfer-hook/src/instructions/execute.rs:20` says only
  `controller_transfer` presents the permanent delegate. `hold_transfer` does too;
  it is safe because `execute_hold` repeats the checks the hook would have made.

## 6. What is not modelled, and what is left

Not modelled:

* PDA derivation (`pda_seeds`, `program_ids`) is hashing. The models take the
  address of a PDA to be a function of its seeds that is never taken twice.
* Events and error codes: an error is a disabled action. The events of
  `nominal-value` are the exception, as they are the history it promises.
* The TypeScript tests and scripts, and Token-2022 beyond what the programs ask
  of it.

Nothing that the prover can reach is left: what the runs check and no theorem
states is the step from "never refused" to "in the end" under fairness.
