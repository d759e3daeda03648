# A TLA+ model of the task marketplace escrow

`programs/task-marketplace` is a Solana program (Rust, Anchor) in which a
*creator* posts a task with a fixed reward, a *worker* takes it, the reward is
locked in a vault owned by the program, and the vault is released by approval,
by a timeout, or through a dispute with an optional *arbitrator*. This directory
models that program in TLA+, together with the events it logs, the client script that
drives it and the reference model its property tests use; model-checks them with TLC
on small instances; and proves every safety property, action property and refinement
that holds of it with TLAPS for every value of the constants. Only the four liveness
properties rest on TLC alone.

Contents: [inventory](#1-inventory) · [modules](#2-modules-and-how-they-correspond-to-the-code) ·
[abstractions](#3-abstractions-and-assumptions) · [runs](#4-runs) ·
[fairness](#5-fairness) · [proofs](#6-proofs) · [findings](#7-findings) ·
[plan](#8-plan) · [not modelled](#9-not-modelled) · [how to run](#10-how-to-run)

## 1. Inventory

### Components, their state, operations and correctness

| Component | Source | State | Operations | What makes it correct |
|---|---|---|---|---|
| Creator profile | `instructions/create_creator_profile.rs`, `create_task.rs` | `CreatorProfile.task_count` per creator | create, increment (checked) | tasks numbered 1, 2, … without gap or reuse although the caller *guesses* the number |
| Task | `state.rs` (`Task`) | status (9 values), worker, reward, submission reference, `funded_at`, two deadlines | `accept`, `assign_worker`, `accept_assignment`, `fund`, `submit`, `pay`, `pay_after_timeout`, `reject_submission`, `resolve_dispute`, `refund_after_timeout`, `cancel`, each ended by `validate_invariants` | status follows the lifecycle; fields present exactly when the status says so; evidence written once; no instruction locked out by the task's own validation |
| Worker assignment | `state.rs` (`WorkerAssignment`) | selected worker, `accepted_at` | initialise, `accept` | nobody but the selected worker gets an assigned task |
| Task resolution | `state.rs` (`TaskResolution`) | arbitrator, `Ready`/`Disputed`/`Resolved`, opening and deadline, reason, outcome | initialise, `open_dispute`, `resolve`, `resolve_by_agreement`, `settle_after_timeout` | always tells the same story as the task; arbitrator fixed before anybody accepts |
| Escrow vault | `instructions/escrow.rs`, `fund_task.rs` | `escrowed_lamports`, lamports of the account | create and deposit, `validate_escrow`, `pay_worker`, close | covers rent + reward while it exists; released once; worker gets exactly the reward |
| Instructions | `lib.rs`, `instructions/*.rs` | none of their own | sixteen, each one atomic transaction | account constraints and handler checks together make the above hold |
| Clock, runtime, wallets | external | `unix_timestamp`, lamports of every key | time passes, anybody sends lamports to any address | – |
| Events | `events.rs`, the `emit!` of every handler | none (log output) | one per instruction | a reader of the log alone can order the events, tell the status and add up what the vaults owe |
| Smoke-test client | `scripts/devnet-smoke-test.ts` | the number it predicted, a balance it read, a worker key in memory | reads `task_count`, predicts the next address, drives one task to payment | fails only if somebody interferes; never drives another run's task; leaves no escrow behind for ever |
| Test suite | `tests/property_state_machine.rs` (`struct Model`), the other tests | one task in memory, counters of payments | a random sequence of actions, assertions after each | the model allows everything the program does; its assertions hold for every sequence |
| Error codes, module wiring, build files | `error.rs`, `instructions.rs`, `*.toml`, `package.json` | none | none | – |

### Interactions

All state lives in accounts; an instruction names the accounts it touches and
either commits every write or none. Instructions never call one another. They
interact through *shared accounts*: `Task` is written by fourteen instructions,
and two further accounts (`WorkerAssignment`, `TaskResolution`) carry copies of
facts about it that must stay in agreement. The vault is created by `fund_task`
and closed by any of six instructions: `pay_task`, `refund_task_after_timeout`,
`settle_task_after_timeout`, `resolve_dispute`, `resolve_dispute_by_agreement`
and `settle_dispute_after_timeout`. Addresses (PDAs) tie the accounts of a task
together. The runtime contributes the clock, rent, and the rule that a wallet is
left empty or rent exempt; Anchor contributes `init`, `close` and `has_one`.

### Hard behaviours

* **Interleaving.** Any key may send any instruction at any time; the transactions
  of creator, worker, arbitrator and strangers arrive in any order. Six exits
  compete for one vault.
* **Timeouts.** At each of three deadlines two parties race with opposite interests
  (submit/refund, reject/settle, arbitrate/settle).
* **Several accounts, one fact.** A dispute lives in `Task.status` and in
  `TaskResolution.state`; a hire in `Task.worker` and in
  `WorkerAssignment.accepted_at`. `settle_task_after_timeout` even lets its *caller*
  decide whether the resolution is looked at.
* **Lamports moved by hand.** `pay_worker` edits balances directly, `close` sweeps
  the rest; vault addresses can be prefunded and topped up by anybody.
* **Readers and clients.** A reader of the events sees them late, twice or in another
  order; a client reads an account in one step and acts on it several steps later, its
  transactions land after it has given up, and it may die between any two of them.
* **Silence.** Nothing runs by itself: a deadline does something only if somebody
  sends a transaction after it.
* **Edges.** i64 deadlines, u64 lamports and counters, rewards below a wallet's rent.

`PROJECT.json` lists each hazard with the line where it bites and the properties
aimed at it.

## 2. Modules and how they correspond to the code

```
TaskAccounts            account types and methods       state.rs, constants.rs
  └─ Escrow             lamport arithmetic              escrow.rs, fund_task.rs
       └─ TaskMarketplace   16 instructions + environment   instructions/*.rs
            └─ MarketplaceProperties   what should hold  ── INSTANCE ─> TaskLifecycle
                 │                                       └─ INSTANCE ─> EscrowCustody
                 └─ PropertyModelMapping  one task alone  ── INSTANCE ─> PropertyModel
                      └─ MCTaskMarketplace    constants for TLC

TaskMarketplace
  ├─ MarketplaceEvents ─ EventProperties ─ MCMarketplaceEvents   events.rs, emit!
  └─ SmokeTest ─ MCSmokeTest                                     devnet-smoke-test.ts
TaskAccounts
  └─ PropertyModel ─ MCPropertyModel                             property_state_machine.rs

proofs, each module above the ones that extend it:
AccountProofs           what the account methods return
  ├─ PropertyModelProofs                                about PropertyModel
  └─ MarketplaceProofs  the invariants of the accounts  about MarketplaceProperties
       └─ MarketplaceSteps   what a step may do, action properties
            ├─ EventProofs                              about EventProperties
            └─ LamportProofs      conservation of lamports, exits of every escrow
                 ├─ RefinementProofs   TaskLifecycle, EscrowCustody and PropertyModel
                 │                     are implemented (with PropertyModelMapping)
                 └─ SmokeProofs                         about SmokeTest
```

**TaskAccounts.** Records `Task`, `WorkerAssignment`, `TaskResolution` with the
fields something reads. A method `m` of `state.rs` becomes two operators: `CanM`
(its `require!`s in order, the leading `validate_invariants` of the types that have
one, and the trailing one on the new value) and `M` (the value it leaves).
`TaskValid`, `AssignmentValid`, `ResolutionValid` are the `validate_invariants`.

**Escrow.** `EscrowValid` is `validate_escrow`, `CanPayWorker`/`WorkerAmount` is
`pay_worker`, `CanCloseInto` is what `close = creator` may do, `InitShortfall` and
`FundingCost` are what `init` and the transfer of `fund_task` take from the creator
for an address that may already hold lamports.

**TaskMarketplace.** The machine. Variables:

| Variable | In the code |
|---|---|
| `profile[c]` | `CreatorProfile.task_count` of creator `c`, or `None` |
| `task[<<c, n>>]`, `assignment`, `resolution` | the account at the address derived from creator `c` and number `n`, or `None` |
| `vault[id]` | `EscrowVault.escrowed_lamports`, `None` when there is no vault |
| `vaultBalance[id]` | lamports at the vault *address*, with or without a vault there |
| `wallet[k]` | lamports of key `k` |
| `now` | `Clock::unix_timestamp` |

One action per instruction, named after it. Its guard is the `#[derive(Accounts)]`
constraints plus every `require!` and `?` of the handler, including those in
`state.rs` and in `escrow.rs`, and the failures of the runtime (insufficient lamports,
a wallet left below its rent). Where a property or a fairness condition needs "this
instruction would succeed now", the guard is an operator of its own
(`CanSubmitTask`, `CanSettleDispute`, `CanFundTask`, …), so neither a property nor the
script's simulation of a transaction needs `ENABLED`. Three
further actions are the environment: `AdvanceClock`, `Donate` (lamports sent to a
vault address by anybody, before, during and after the life of the vault) and
`Transfer` (keys pay each other, so a wallet may be drained or topped up between any two
instructions).

**MarketplaceProperties.** Type invariant, invariants, action properties, liveness,
and the two refinement mappings. `LamportsConserved` counts the lamports of the ledger as
elements of a finite set (`Lamports(held)`, each lamport a pair of its holder and a
number), so that the total is a cardinality: a sum without recursion, which can be
reasoned about.

**TaskLifecycle** (abstract). A task has a status, a worker and evidence; the status
moves along the edges of the diagram `docs/task-lifecycle.svg`; the worker is set
exactly on the way into `Accepted`, the evidence exactly on the way into `Submitted`.
(The text diagram in the repository's README lacks one edge: section 7.)

**EscrowCustody** (abstract). Money only: the reward of a task is taken from its
creator once, on terms then fixed, and released once: exactly the reward to the
worker and the rest to the creator, or everything to the creator. Nothing else takes
lamports out of a vault, or puts any into a purse without taking them from another.

**PropertyModelMapping.** The program as `PropertyModel` sees it, on a ledger with one creator,
one task and no payments outside the program (`OneTaskAlone`): the model starts with its
task created, so a task that does not exist yet is mapped to the one that will be
(`TestTask`); its counters are read off the accounts (`Payouts`, `Returns`, `VaultCloses`,
`DisputesFinished`), and `worker_received` is what the wallets of everybody but the
creator have gained (`Earnings`, a cardinality like `LamportsConserved`).
`ImplementsTestModel` says that the program implements the model under this mapping.

**MCTaskMarketplace.** Values of the constants for TLC and the symmetry sets.

**MarketplaceEvents.** Each of the sixteen structs of `events.rs` as an operator that
builds its record, and each instruction again as `Emitting…`: the instruction of
`TaskMarketplace` together with its `emit!`, every field read from where the handler
reads it (`task'` for a field read after the account was changed, `task` and `vault` for
one saved before the lamports moved). The logs `profileLog` and `taskLog` are the
ledger's; a reader may get any part of them in any order, which is why **EventProperties**
asks what the *contents* of events determine rather than modelling one reader. Two
things a reader must know that the properties do not show: an instruction
that fails after its `emit!` (the `close` and the rent check come later) leaves the event
in the log of a failed transaction, so the status of the transaction must be looked at;
and `TaskSubmitted` and `SubmissionRejected` do not carry the references, which only
the accounts have.

**SmokeTest.** Each `await` of `devnet-smoke-test.ts` is a step of a process: reading the
balance, the profile and the task, simulating, sending, waiting for confirmation,
asserting. A transaction that was sent is in `inFlight` until it lands, is refused or
expires, independently of whether its sender still waits, so it may land after the run
failed. Any run may stop at any await (`Abort`: Ctrl-C, a lost connection, an RPC node that
lags behind and makes an assertion throw). `Others` are the
operator's own clean-up, strangers who accept open tasks and send lamports to vaults and
wallets, and whoever sends the permissionless settlement. `disturbed` is a
history variable: the runs that any of these, a competing run, an expired
transaction or a deadline interfered with. The refusal of the preflight that
`rpc()` makes is that of `Refuse`. What a simulation finds out is stated by the guards of
the instructions (`Accepts`), one for each of the seven transactions; in every reachable state
of both runs it was compared with `ENABLED` of the transaction itself, and they agree.

**PropertyModel.** `struct Model` of the repository's property tests, one action per
`Action`, with `panicked` for an `unwrap()` that meets an `Err`. Its clock may go backwards
(`AdvanceTo…Deadline`), as in the test. The test fixes the worker selected and the
arbitrator; here they are sets, since the program is compared with it. Unlike the
program it never compares the arbitrator with the worker, so a
model's dispute always has an exit and the tests cannot see the first finding of section 7.

**AccountProofs**, **MarketplaceProofs**, **MarketplaceSteps**, **RefinementProofs**,
**LamportProofs**, **EventProofs**, **SmokeProofs**, **PropertyModelProofs.** Section 6.

Operators marked `Mutant:` in a comment are faulty variants of the operator that
follows (a dropped check, an off-by-one, a missing reset). No specification uses them;
substituting one for the right operator makes the property named with it in
`PROJECT.json` fail, which shows that the property depends on that piece of code.

## 3. Abstractions and assumptions

* **A failed transaction is no step.** The runtime discards all writes of an
  instruction that returns an error, so the order of two writes inside a handler is
  unobservable. A transaction of several instructions is modelled as the sequence of them.
  The runtime checks rents only at its end, so such a transaction may pass through a
  state below a rent that the model refuses to stop in (say, dust sent to a vault
  address that the next instruction of the same transaction funds). The proofs use no
  refusal for want of rent, so the theorems hold of such transactions too.
* **Addresses.** Account substitution is prevented by `seeds`/`bump`; accounts are
  therefore indexed by the task they derive from, and "the account passed is the
  task's own" holds by indexing. That PDA derivation is collision free is assumed,
  not modelled. `bump`, `version` and reserved bytes are constants of an account and left out.
* **Strings** are members of `Texts`; `ValidTexts` are those that pass the checks for
  blank and over-long strings. Contents are only compared.
* **Fields stored and never read** (`title`, `description`, `assigned_at`,
  `arbitration_fee_lamports`) are not stored; their argument checks stay. No instruction
  ever pays the arbitration fee.
* **Fees** of transactions are ignored.
* **Rent.** `VaultRent` and `WalletMinimum` are arbitrary naturals with
  `WalletMinimum <= VaultRent` (an account with data costs more than one without).
  Only vault addresses are prefunded; the other addresses are created at full rent.
  Lamports sent to the address of a vault that is closed, or never created, stay there:
  the model shows them in `vaultBalance`, and no instruction can move them, since a
  finished or cancelled task is never funded again.
* **Time** does not run back and advances by one unit; several ticks may pass between two
  instructions. The ledger's clock is assumed monotonic.
* **Widths.** `MaxTimestamp`, `MaxU64` and `MaxTaskCount` stand for `i64::MAX`,
  `u64::MAX` and `u64::MAX`; every `checked_add` is a comparison with them.

Assumptions about constants, all named and evaluated by TLC in every run:
`AccountsAssumption` (`None` is distinct from every datum, `DefaultKey` signs
nothing, timeouts are positive), `EscrowAssumption`, `MarketplaceAssumption`; and for the
script `SmokeAssumption` (each run has a fresh worker key, unknown to strangers, and
sends one of the rewards considered) and `BudgetAssumption` (see below), for the property tests' model `ModelAssumption`
(its parties are keys). `SupplyAssumption` says that the lamports that exist fit into a
u64 (the runtime keeps their total, the capitalization, in one) and that there are finitely
many keys (a key is 32 bytes).

`BudgetAssumption` is about the script's numbers. Its `MIN_CREATOR_BALANCE_LAMPORTS` of
25 000 000 must cover what the operator pays (`ScriptCost`: rents of 1 224 960 for the profile,
7 363 680 for the task, 1 969 680 for the assignment and 1 684 320 for the vault, and the reward of
1 000 000) and a wallet's minimum of 890 880, together 14 133 520; the reward must be at least that
minimum, since the worker's wallet is new; the program's timeouts must be timestamps,
and the runs considered finitely many and no more than task numbers (u64).

Bounds, which only runs have: `Creators`, `Rewards`, `Donations`, `Transfers`, `InitialWallets`
(finite sets and functions of the constants) and the three maxima above. Each of the maxima
is *also* a behaviour of the code (overflow), so runs go up to and against the first two.
`MaxTaskCount` is reached, but what the code does beyond it cannot be seen: a number
is a field of an account's address and every number of the model is a real one, so
without the overflow check of `create_task` the next number would only be one that nobody can
guess. Nothing is claimed of that check.

## 4. Runs

All runs set `CHECK_DEADLOCK FALSE`: time is bounded, and a system whose tasks have
all ended and whose clock is at its end has really stopped.

| Run | Config | States | Question |
|---|---|---|---|
| `time` | `MCTime.cfg` | 16 262 | Do the accounts of one task agree, and has every deadline one winner and an exit, under every interleaving over the whole range of time? |
| `money` | `MCMoney.cfg` | 56 048 | Where does every lamport go, with gifts, dust, wallets drained and refilled, and unfundable rewards, and does every exit survive that? |
| `two_creators` | `MCTwoCreators.cfg` | 50 463 | Does a settlement of one task touch another, when creators work for each other? |
| `two_tasks` | `MCTwoTasks.cfg` | 9 306 | Are tasks numbered without gaps under stale and skipped guesses? |
| `liveness` | `MCLiveness.cfg` | 7 540 | Is every submission settled and every escrow released, and does the property tests' model allow everything the program does? |
| `events` | `MCEvents.cfg` | 96 142 | What may a reader of the events alone conclude? |
| `smoke_two_runs` | `MCSmokeTwoRuns.cfg` | 480 722 | Do two runs of the script by one creator keep out of each other's way? |
| `smoke_alone` | `MCSmokeAlone.cfg` | 11 454 | Does a run that nobody disturbs succeed, does every run end, and what becomes of an escrow whose run died? |
| `property_model` | `MCPropertyModel.cfg` | 3 457 | Do the property tests' assertions hold for every sequence of actions? |
| `dispute_exit` | `MCDisputeExit.cfg` | stops at the counterexample | Has every dispute the documented exits? (No: section 7.) |
| `property_model_panic` | `MCPropertyModelPanic.cfg` | stops at the counterexample | Can the property tests' model panic? (Yes: section 7.) |
| `readme_lifecycle` | `MCReadmeLifecycle.cfg` | stops at the counterexample | Does the program follow the README's diagram? (No: section 7.) |

**time.** One creator, three keys that may each be worker, arbitrator or caller, two
distinct valid references (so overwriting is visible) and an invalid one. Each window is two units and the clock
has eight values: a chain of three windows started early ends before the last value, one
started late runs into the overflow of each of its deadlines in turn. Windows of two units have an inside, a last
moment and a deadline, which is what an off-by-one distinguishes. Rewards 0 (rejected), 1
and 2 exercise the reward below `WalletMinimum`. `bob` and `carol` are
interchangeable (same wallet, neither is a creator): symmetry is sound for these
safety properties. Checks:

* `ResolutionAgreement`: a dispute is open in both accounts or in neither; it was
  decided the way the task ended; the resolution of a task never disputed is untouched
  (so leaving it out of `settle_task_after_timeout` cannot bypass a dispute).
* `AssignmentAgreement`: an assigned task is closed to everybody but the selected worker.
* `DeadlineChain`, `LockIsBounded`: each window starts inside the previous one; the
  last deadline of an escrow is less than the sum of the three timeouts after funding.
* `OneWinnerPerDeadline`: at no instant can both sides of a deadline race succeed.
* `EscrowHasExit`, `ThreePartyDisputeHasExits`: and at no instant after it can neither.
  Both carry the condition `WorkerCanReceive`, which the program cannot enforce: a
  reward smaller than a wallet's rent cannot be credited to an empty wallet.
* `EvidenceIsWrittenOnce`, `ArbitratorIsKnownBeforehand`: action properties.
* `ImplementsLifecycle`: refinement of `TaskLifecycle`.

**money.** Wallets of 9, 0 and 2, vault rent 3, wallet minimum 2, gifts of 1 and 2
to the vault address and transfers of 2 between wallets at any time, rewards 1 (dust for
an empty wallet), 3 (normal) and 14 (`VaultRent + 14` exceeds `MaxU64` and the creator's
means). Time is as short as it can be with every exit still reached: one unit per window.
The bounds are enough for each case distinction of the arithmetic: address empty / below
rent / above rent, creator able or unable to pay, remainder zero / dust / exempt, a
wallet emptied or topped up between funding and release. Checks `TypeOK`, `TaskShape`,
`CustodyMatchesStatus`, `LamportsConserved`, `SettlementMatchesStatus`,
`ImplementsCustody`, and once more `EscrowHasExit` and `ThreePartyDisputeHasExits`, since
`time` leaves wallets and vaults alone (a vault that had to hold *exactly* rent and
reward would let anybody block its exit with one lamport). `TaskShape` includes that
`validate_invariants` holds in every stored state: no task becomes unusable behind its own
validation.

**two_creators.** Two creators with one task each, each possibly worker of the other,
and a third key; wallets hold just enough that one funding may wait for the other's
payment. The creators are interchangeable (symmetry). Checks `LamportsConserved`,
`SettlementMatchesStatus`, `TerminalIsFinal`.

**two_tasks.** One creator, `MaxTaskCount = 2`, every number up to it guessed in any state.
Checks `ContiguousNumbering`. The end of the counter is not its subject (section 3).

**liveness.** One task, no symmetry, under `FairSpec` (section 5). `SubmissionIsSettled`: once the
work is submitted its escrow ends, with no help from the creator or the arbitrator.
`EscrowIsReleased`: every escrow ends, if the creator asks for the refund of what was
never delivered. Rewards are such that an empty wallet may hold them. On the same
instance `ImplementsTestModel`: the program's accounts are mapped onto the property tests' model; its counters
are read off the accounts and `worker_received` off the wallets.

**events.** One task, its whole life, every actor a permissionless settlement may name.
Timestamps of events often coincide, since several instructions fit into one tick. Checks:

* `ReaderCanReorder`: the kind of an event gives its place, and no timestamp contradicts
  it, so duplicates and reordering do no harm although events have no sequence number.
* `LogTellsStatus`: the last event tells the status; nothing moves silently.
* `EventsStayTrue`: what an event says agrees with the accounts for ever after.
* `AuditorKnowsLiability`: funded minus released, as announced, is what the vault owes.
* `ReleaseIsAnnounced`: lamports leave a vault in the step of one releasing event, to
  the parties and in the amounts it names.

**smoke_two_runs.** Two runs with the same creator key and a wallet that pays for both;
numbers and time are bounded so that the second run can lose the race for a number before,
during and after the first one's transactions. Checks `OnlyInterferenceFailsARun` (all
that the script asserts is what the program does, if nobody interferes) and `OneDriverPerTask` (past
`create_task`, a number belongs to one run: confirmation is of the run's own
signature, and the loser's `create_task` is refused).

**smoke_alone.** Lamports as on the ledger (an account of *n* bytes costs (128 + *n*) × 6960)
and exactly the 25 000 000 that the script requires: the balance checked at the start pays for
everything that follows (a second run starting with the first needs more than the
check asks for, which is why `smoke_two_runs` starts with a larger wallet).
Strangers may accept the task while it is open, and send lamports to the vault
address or to the worker between the two readings of its balance: each breaks an
assertion of the script ("expected status open", "exactly the escrowed reward", "Escrow
vault was not closed"), and counts as interference. Checks also the liveness properties
`EveryRunEnds` and `AbandonedEscrowEnds`.

**property_model.** All parties of the test including the outsider, the
whole range of time in both directions. `AssertInvariants` and `AssertSequences` are the
test's own assertions, of `assert_invariants` and of `check_model_sequence`. The latter's
`!success` is stated by its effect: an action of the test succeeds exactly if it changes the
task, its accounts or its vault, so `AssertSequences` says that these and the counters stay on a
finished task, that a disputed one is left only by a finished dispute, and (lines 496-500 of the
test) that nobody but the selected worker becomes worker of an assigned task.

Every property of a passing run is broken by at least one faulty variant of the code
(`mutants` in `PROJECT.json`).

## 5. Fairness

`FairSpec` assumes weak fairness of three things and of nothing else:

* `AdvanceClock`: ledger time passes;
* `SettleTaskAfterTimeout` (without the resolution) and `SettleDisputeAfterTimeout`
  by *some* key: both instructions are permissionless, and the worker, who gains
  the reward, can always send them.

Nothing is assumed of approval, rejection, agreement, the arbitrator or the creator, and
that is enough for `SubmissionIsSettled`. Weak fairness suffices since each settlement stays
possible once it is (no other instruction disables it except by releasing the vault).

`EscrowIsReleased` has a premise of its own, `CreatorCollects`: weak fairness of
`RefundTaskAfterTimeout`, which only the creator can send. It is not justified by the code, only
by the creator's interest in the reward, and without it the property is false: TLC then
shows a funded task whose worker never submits and whose creator is gone. That is a
design difference worth knowing: an undelivered task, unlike the other two timeouts,
cannot be cleared by a third party. What the code does owe, that nothing *else* stands in
the way of the refund, is `EscrowHasExit`.

The run uses a reward that an empty wallet may hold (`WalletMinimum = 1`); with a dust reward
both conclusions fail until somebody tops the worker's wallet up. Both except the case of
section 7, which really locks a vault.

`FairSmokeSpec` assumes that an `await` returns (`Script`), that a transaction lands, is
refused or expires (`Network`: a blockhash lives for about a minute), that time passes, and
that the operator asks for a refund that is due, or somebody settles. Nothing is assumed of
a run that died: `AbandonedEscrowEnds` holds because the operator's key is on disk and
the refund needs no other. The script names no arbitrator, so the exception above
does not arise.

## 6. Proofs

Every theorem holds for all values of the constants under the named assumptions of section 3.
`SupplyAssumption` is used by the theorems about lamports and exits only.

| Module | Theorem | Statement |
|---|---|---|
| `MarketplaceProofs` | `TypeCorrectness` | `Spec => []TypeOK` |
| | `AccountsAlwaysAgree` | `Spec => []IInv`, the inductive invariant |
| | `TaskShapeHolds`, `CustodyHolds`, `ResolutionAgreementHolds`, `AssignmentAgreementHolds`, `DeadlineChainHolds` | its parts: `TaskShape`, `CustodyMatchesStatus`, `ResolutionAgreement`, `AssignmentAgreement`, `DeadlineChain` |
| | `LockIsAlwaysBounded`, `RacesHaveOneWinner` | `LockIsBounded`, `OneWinnerPerDeadline` |
| `MarketplaceSteps` | `TerminalTasksAreFinal`, `EvidenceIsNeverRewritten`, `ArbitratorIsAlwaysKnown`, `SettlementsMatchStatus` | the action properties `TerminalIsFinal`, `EvidenceIsWrittenOnce`, `ArbitratorIsKnownBeforehand`, `SettlementMatchesStatus` |
| | `NumberingIsContiguous` | `Spec => []ContiguousNumbering` |
| `RefinementProofs` | `LifecycleImplemented` | `Spec => ImplementsLifecycle`: every step is a step of the published diagram or a stutter |
| | `CustodyImplemented` | `Spec => ImplementsCustody`: every step is a deposit, a release, a gift or a payment of the abstract escrow, or a stutter |
| | `TestModelImplemented` | if `OneTaskAlone`, `Spec => ImplementsTestModel`: every step is an action of the property tests' model or a stutter |
| `LamportProofs` | `LamportsAreConserved` | `Spec => []LamportsConserved` |
| | `EscrowsHaveExits`, `DisputesHaveExits` | `EscrowHasExit`, `ThreePartyDisputeHasExits` |
| `EventProofs` | `LogAlwaysAgrees` | `LogSpec => [](IInv /\ LogInv)`, the inductive invariant |
| | `ReadersCanReorder`, `LogsTellStatus`, `EventsAlwaysTrue`, `AuditorsKnowLiability`, `ReleasesAreAnnounced` | all five properties of the events |
| `SmokeProofs` | `ScriptUsesProgram` | `SmokeSpec => Spec` |
| | `ClientsAlwaysAgree` | `SmokeSpec => [](IInv /\ ClientInv)`, the inductive invariant |
| | `OneDriverEach` | `SmokeSpec => []OneDriverPerTask` |
| | `RunsStayOnCourse` | `SmokeSpec => []CourseInv`, the inductive invariant of undisturbed runs |
| | `OnlyInterferenceFails` | `SmokeSpec => []OnlyInterferenceFailsARun` |
| `PropertyModelProofs` | `ModelAlwaysAgrees` | `ModelSpec => []ModelInv`, the inductive invariant |
| | `AssertionsHold`, `SequencesHold` | `AssertInvariants`, `AssertSequences` |

**The accounts** (`MarketplaceProofs`). No single one of the agreement invariants is inductive. That
`settle_task_after_timeout` keeps `ResolutionAgrees` needs to know that a Submitted
task has a Ready resolution; that a Ready resolution has not been touched needs
`open_dispute` to have happened only with a Submitted task; that `close` leaves the
custody invariant true needs the vault to exist only in custody statuses; that
`accept_task` keeps `AssignmentAgrees` needs an Open task to have no assignment. Hence

    IInv == TypeOK /\ \A id \in TaskIds : AccountsAgree(id)

with `AccountsAgree(id)` the conjunction of `TaskShaped`, `CustodyMatches`,
`ResolutionAgrees`, `AssignmentAgrees` and `DeadlinesChained` of one task.

1. `NextTyped`: each instruction keeps `TypeOK`; lemmas about the account methods
   (`TaskMethodsTyped`, `ResolutionMethodsTyped`, in `AccountProofs`) and about the movements
   of lamports (`SpendTyped`, `FundingTyped`, `PayOutTyped`, `ReturnTyped`,
   `SettleDisputeTyped`) carry it.
2. `Untouched` and `OneTaskAtATime`: an instruction on one task leaves `AccountsAgree`
   of every other true, and time alone does not falsify it; so only the instruction's own
   task is left to look at (`AgreeingTask`).
3. One lemma per instruction or group with one effect (`CreateTaskAgrees`,
   `FundTaskAgrees`, `PaymentAgrees`, `SettleDisputeAgrees`, …): its own task agrees afterwards.
4. `NextAgrees` combines them, `AccountsAlwaysAgree` closes the induction, and
   the named invariants are its parts. `LockIsAlwaysBounded` adds up the chain of deadlines;
   `RacesHaveOneWinner` shows the two guards of each race contradict each other in a
   state where the accounts agree.

**The steps** (`MarketplaceSteps`). `StepShape` sums up what a step may do where the invariant
holds: change no task (`Background`), or write the accounts of *one* task in one of eleven
ways (`Creates`, `Hires`, `Funds`, `Settles`, …). An action property or a
refinement says something of each task, so by `StepOfTask` it is left to show it of the one instruction that
wrote the task. Nothing after this module looks at the sixteen instructions again, except
where the properties name them: guards (exits), events and the script's transactions.

**The refinements** (`RefinementProofs`). `LifecycleImplemented` maps each of the eleven ways to an
edge of the diagram (`LifecycleMoves`); `CustodyImplemented` shows, per group of
instructions, which purse and vault of the abstract escrow move (`FundingDeposits`,
`EndsAreReleases`, `BackgroundMovesGifts`, …). The terms of an escrow, which the abstract
specification fixes at the deposit, are those of the task: nothing rewrites them afterwards.
`TestModelImplemented` cannot use the summary of the steps, since the model has guards of its
own to be met; it takes the instructions one by one (`SelectsWorkerInModel`, `FundsInModel`, …).
`SameTaskMethods` and its like say that both call the same account methods. Of the model's guards
one is not in the program: it always looks at the resolution before it settles a task, while the
caller of `settle_task_after_timeout` may leave it out. `ResolutionAgrees` makes up for it
(`SettlesTaskInModel`). Each release earns the workers the reward or nothing
(`PayOutEarns`, `ReturnEarnsNothing`), and moves each counter at most once (`ReleaseClosesVault`).

**The lamports** (`LamportProofs`). Changing the balance of one address replaces one purse of
disjoint lamports by another, and the cardinalities of finite sets give the new total
(`TotalUpdate`); each kind of step is then a sum of at most three updates. From conservation follows that no
wallet and vault together exceed a u64 (`BalancesFit`), so no `checked_add` of a release
overflows: this is what the exit theorems need beyond `IInv`. They also use that a vault
retains the rent of its account, so that the creator's wallet is exempt after a close, and
`WorkerCanReceive` for the worker's.

**The events** (`EventProofs`). What an event says must be true when it is emitted
and stay true. The first is one lemma per group of instructions (`CreationAnnounced`, …,
`DisputeAnnounced`: the event and its rank, time, amounts, parties and deadline against the
accounts after the step). The second is `EventStaysTrue`: the accounts an event quotes are
written at most once. `LogInv` adds to the five properties what makes them inductive: that
the accounts an event quotes exist (`Backed`), and that no event is ranked beyond
what its task has reached (`Stage`), since otherwise the next event could not be known to
be the later one.

**The script** (`SmokeProofs`). A run drives its task from the moment it saw its `create_task`
land. `ClientInv` says that this task exists and was hired for by that run alone
(`Drives`), that no two runs drive the same, and that whatever a run has in flight is the last
transaction it sent (`Pending`): without the last, a transaction of a run long given up could
not be told from one on another run's task. `CreationDrives` is the heart: a
`create_task` lands only at a number no run drives.

That an undisturbed run does not fail needs more: at each await, the ledger and the clock must be as
the rest of the run expects. `CourseInv` says it of every run not in `disturbed`, in three parts.
`LedgerFits` gives for each phase the state of the run's task and a wallet of the operator
that still holds the rents and the reward ahead (`Reserve`), so that the transaction due next is one the program
accepts (`Due`, and one lemma per stage, `SetupIsAccepted` … `PaymentIsAccepted`). `TimeFits`: the timeouts
can still be added to the clock, since a run is disturbed when the time for that is over
(`TimeIsUp`). `NumbersAreGuessed`: every number up to `task_count` was once the guess of a run, and each run
guesses once, so fewer runs than numbers never use up the counter. Then, step by step, every
transaction that lands leads the run that sent it to the next stage (`SetupLands` … `PaymentLands`), and whatever
anybody else does either leaves alone all that an undisturbed run relies on or makes it
disturbed (`BystanderStays`). The proof uses the conservation of lamports (no payment overflows
a wallet), the numbering of tasks and `IInv`; it is the one that composes everything else.

**The tests' model** (`PropertyModelProofs`). `ModelInv` ties the vault, the resolution and the
counters to the status. Since the model's clock may run backwards, the invariant compares no
deadline with it: the assertions of the tests do not depend on time at all.

Each of the inductive invariants was also checked by TLC, on the instances of section 4.

**Only model-checked.** `SubmissionIsSettled`, `EscrowIsReleased`, `EveryRunEnds` and `AbandonedEscrowEnds`: liveness
under fairness, outside the prover's reach. What they rest on is proved: that the exit of each escrow is
possible whenever it is due (`EscrowsHaveExits`, `DisputesHaveExits`) and that every deadline is
bounded (`LockIsAlwaysBounded`). And the three properties of section 7, which are false.

## 7. Findings

**A dispute without exits** (`dispute_exit`). `DisputeHasExit` states what the repository says: "Dispute exits: arbitrator · mutual
agreement · timeout" (`docs/task-lifecycle.svg:42`), "Pay the worker after the
arbitration timeout" (`README.md:61`). The run `dispute_exit` violates it. The creator names an arbitrator while the task is Open;
`initialize_task_resolution` requires only that it differs from the creator. The same
key then accepts the task (or is assigned it): neither instruction looks at the
resolution. After funding, submission and rejection, `validate_dispute_accounts`
(`instructions/resolution.rs:41`) refuses every exit, because the arbitrator equals the
worker: the arbitrator's, the mutual one and, after the deadline, anybody's. The
escrow stays locked. With the arbitrator distinct from the worker all three exits exist
(`ThreePartyDisputeHasExits`, passing).

**A test that panics** (`property_model_panic`). `UnwrapsAreSafe` says that the `unwrap()`s in
the property tests' model meet no error. `Action::Reject` checks the party, the resolution and
the status, and returns `false` for an inapplicable rejection, but does not check the clock:
`self.task.reject_submission(self.now).unwrap()` (`tests/property_state_machine.rs:355`) panics
from the review deadline on. The generator can reach it (InitializeResolution, AcceptTask, Fund,
Submit, AdvanceToReviewDeadline, Reject by the creator), so a random run of the
tests may fail on a correct program. The program refuses the instruction.

**An edge the README lacks** (`readme_lifecycle`). The text diagram (`README.md:66-69`) leads
from Assigned only to Accepted. `cancel_task` also takes an Assigned task to Cancelled
(`state.rs:447`), as `docs/task-lifecycle.svg` and the test
`creator_can_cancel_an_unaccepted_assignment` say.

## 8. Plan

Done, in this order: account types, lamport arithmetic, instructions, properties with the two
abstract specifications, their runs, the inductive invariant and its proof; then the
events and what their reader may conclude, the smoke-test client as racing and dying
processes, transfers between wallets, and the property tests' model with its relation
to the program.

Then the proofs: the action properties and `ContiguousNumbering` from a summary of the steps,
both refinements, conservation of lamports by cardinalities and with it the exits, the five
properties of the events, `OneDriverPerTask` and the assertions of the tests' model; and last
the two that compose the others, `OnlyInterferenceFailsARun` of the script and the refinement of
the tests' model by the program.

Nothing of the plan is left. A change of the program should be followed through in this order: the
operators of `TaskAccounts` or `TaskMarketplace`, the runs, `MarketplaceProofs`
(one lemma per instruction), `MarketplaceSteps` (one of the eleven ways), the rest.

## 9. Not modelled

* PDA derivation, serialisation, account sizes and versions: no state that changes.
* Error codes (`error.rs`): every error aborts its transaction the same way.
* Module wiring (`instructions.rs`), the build and package files: no behaviour.
* The tests other than the property model: single executions, each a behaviour of
  `TaskMarketplace`; the on-chain harness of the property tests drives the program itself.
* Transaction fees, priority and forks of the ledger: a confirmed transaction stays.

## 10. How to run

    tlc -workers 2 -config MCTime.cfg MCTaskMarketplace.tla
    tlc -workers 2 -config MCEvents.cfg MCMarketplaceEvents.tla
    tlc -workers 2 -config MCSmokeAlone.cfg MCSmokeTest.tla
    tlc -workers 2 -config MCPropertyModel.cfg MCPropertyModel.tla
    tlapm MarketplaceProofs.tla        (and each of the other proof modules of section 2)
