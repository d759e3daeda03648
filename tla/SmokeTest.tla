------------------------------ MODULE SmokeTest ------------------------------
(***************************************************************************)
(* scripts/devnet-smoke-test.ts: runs of a client that creates a task,     *)
(* drives it to payment and asserts what it reads after every step, on a   *)
(* ledger other people use too.                                            *)
(*                                                                         *)
(* A run is a process with one step per await.  Each of its transactions   *)
(* is first simulated, then sent, and confirmed once it has landed; until  *)
(* then it is in flight, and may land after its run has been given up, be  *)
(* refused by the program, or expire.  Runs of the same operator (at the   *)
(* same time, or after one that crashed) share the operator's wallet and   *)
(* profile; each generates a worker key of its own, lost when it ends.     *)
(***************************************************************************)
EXTENDS TaskMarketplace, FiniteSets

CONSTANTS
    Runs,               \* bound: the runs of the script
    Operator,           \* the wallet of ~/.config/solana/id.json
    WorkerOf,           \* the worker key each run generates
    Strangers,          \* other users of the ledger
    SmokeText,          \* titles, descriptions and references the script sends
    RewardLamports,     \* REWARD_LAMPORTS
    MinCreatorBalance   \* MIN_CREATOR_BALANCE_LAMPORTS

ASSUME SmokeAssumption ==
    /\ Operator \in Creators
    /\ WorkerOf \in [Runs -> Keys \ (Creators \cup Strangers)]
    /\ \A r, s \in Runs : WorkerOf[r] = WorkerOf[s] => r = s
    /\ Strangers \subseteq Keys \ Creators
    /\ SmokeText \in ValidTexts
    /\ RewardLamports \in Rewards \ {0}

(* What the operator pays for a task on its way to payment. *)
ScriptCost ==
    Rent["profile"] + Rent["task"] + Rent["assignment"] + VaultRent + RewardLamports

(* The balance the script asks for covers that and leaves a wallet that the *)
(* runtime accepts; the reward is enough to open the wallet of a new key;   *)
(* neither the timestamps nor the task numbers are used up.                 *)
ASSUME BudgetAssumption ==
    /\ MinCreatorBalance \in Nat
    /\ MinCreatorBalance >= ScriptCost + WalletMinimum
    /\ RewardLamports >= WalletMinimum
    /\ SubmissionTimeout <= MaxTimestamp
    /\ ReviewTimeout <= MaxTimestamp
    /\ IsFiniteSet(Runs)
    /\ Cardinality(Runs) <= MaxTaskCount

VARIABLES
    phase,      \* the await each run is at
    label,      \* the transaction it is working on
    number,     \* taskNumber, predicted from the profile
    before,     \* workerBalanceBefore
    inFlight,   \* transactions sent and not yet landed, refused or expired
    disturbed   \* history: runs that somebody or something else interfered with

ledger == vars
client == <<phase, label, number, before>>
smokeVars == <<vars, client, inFlight, disturbed>>

Labels == {"create_creator_profile", "create_task", "assign_worker",
           "accept_assignment", "fund_task", "submit_task", "pay_task"}

Ended == {"refused", "failed", "succeeded"}

SmokeInit ==
    /\ Init
    /\ phase = [r \in Runs |-> "check_balance"]
    /\ label = [r \in Runs |-> "create_creator_profile"]
    /\ number = [r \in Runs |-> None]
    /\ before = [r \in Runs |-> None]
    /\ inFlight = {}
    /\ disturbed = {}

-----------------------------------------------------------------------------
TaskOf(r) == <<Operator, number[r]>>

(* The transaction of a run, with the accounts and arguments it names. *)
Transaction(r, l) ==
    \/ l = "create_creator_profile" /\ CreateCreatorProfile(Operator)
    \/ l = "create_task"
       /\ CreateTask(Operator, number[r], SmokeText, SmokeText, RewardLamports)
    \/ l = "assign_worker" /\ AssignWorker(Operator, TaskOf(r), WorkerOf[r])
    \/ l = "accept_assignment" /\ AcceptAssignment(WorkerOf[r], TaskOf(r))
    \/ l = "fund_task" /\ FundTask(Operator, TaskOf(r))
    \/ l = "submit_task" /\ SubmitTask(WorkerOf[r], TaskOf(r), SmokeText)
    \/ l = "pay_task" /\ PayTask(Operator, TaskOf(r), WorkerOf[r])

(* The program accepts it: what its simulation finds out. *)
Accepts(r, l) ==
    \/ l = "create_creator_profile" /\ CanCreateCreatorProfile(Operator)
    \/ l = "create_task"
       /\ CanCreateTask(Operator, number[r], SmokeText, SmokeText, RewardLamports)
    \/ l = "assign_worker" /\ CanAssignWorker(Operator, TaskOf(r), WorkerOf[r])
    \/ l = "accept_assignment" /\ CanAcceptAssignment(WorkerOf[r], TaskOf(r))
    \/ l = "fund_task" /\ CanFundTask(Operator, TaskOf(r))
    \/ l = "submit_task" /\ CanSubmitTask(WorkerOf[r], TaskOf(r), SmokeText)
    \/ l = "pay_task" /\ CanPayTask(Operator, TaskOf(r), WorkerOf[r])

GoTo(r, p) ==
    /\ phase' = [phase EXCEPT ![r] = p]
    /\ UNCHANGED label

Begin(r, l) ==
    /\ phase' = [phase EXCEPT ![r] = "simulate"]
    /\ label' = [label EXCEPT ![r] = l]

\* Mutant: a read that is not as expected is made again, without end.
RequireByPolling(r, expected, next) == IF expected THEN next ELSE UNCHANGED <<phase, label>>

(* `assert` throws: the run goes on only if what it read is as expected. *)
Require(r, expected, next) == IF expected THEN next ELSE GoTo(r, "failed")

Reads(r, p) ==
    /\ phase[r] = p
    /\ UNCHANGED <<ledger, inFlight, disturbed>>

-----------------------------------------------------------------------------
(***************************************************************************)
(* The script                                                              *)
(***************************************************************************)

CheckBalance(r) ==
    /\ Reads(r, "check_balance")
    /\ GoTo(r, IF wallet[Operator] >= MinCreatorBalance
               THEN "find_profile" ELSE "refused")
    /\ UNCHANGED <<number, before>>

FindProfile(r) ==
    /\ Reads(r, "find_profile")
    /\ IF profile[Operator] = None
       THEN Begin(r, "create_creator_profile")
       ELSE GoTo(r, "fetch_profile")
    /\ UNCHANGED <<number, before>>

\* Mutant: the number of the latest task, not of the next one.
FetchProfileLatest(r) ==
    /\ Reads(r, "fetch_profile")
    /\ number' = [number EXCEPT ![r] = IF profile[Operator] = 0 THEN 1
                                       ELSE profile[Operator]]
    /\ Begin(r, "create_task")
    /\ UNCHANGED before

(* The number is fixed here and used until the run ends. *)
FetchProfile(r) ==
    /\ Reads(r, "fetch_profile")
    /\ number' = [number EXCEPT ![r] = profile[Operator] + 1]
    /\ Begin(r, "create_task")
    /\ UNCHANGED before

Simulate(r) ==
    /\ Reads(r, "simulate")
    /\ Require(r, Accepts(r, label[r]), GoTo(r, "send"))
    /\ UNCHANGED <<number, before>>

Send(r) ==
    /\ phase[r] = "send"
    /\ inFlight' = inFlight \cup {<<r, label[r]>>}
    /\ GoTo(r, "confirm")
    /\ UNCHANGED <<ledger, number, before, disturbed>>

\* Mutant: the script takes a funded task for an accepted one.
ExpectedStatusLate(l) ==
    CASE l = "create_task" -> "Open"
      [] l = "assign_worker" -> "Assigned"
      [] l \in {"accept_assignment", "fund_task"} -> "Accepted"
      [] l = "submit_task" -> "Submitted"
      [] l = "pay_task" -> "Paid"

ExpectedStatus(l) ==
    CASE l = "create_task" -> "Open"
      [] l = "assign_worker" -> "Assigned"
      [] l = "accept_assignment" -> "Accepted"
      [] l = "fund_task" -> "Funded"
      [] l = "submit_task" -> "Submitted"
      [] l = "pay_task" -> "Paid"

(* What the script does once it has seen the status it expects. *)
Proceed(r) ==
    \/ label[r] = "create_task" /\ Begin(r, "assign_worker")
    \/ label[r] = "assign_worker" /\ Begin(r, "accept_assignment")
    \/ label[r] = "accept_assignment" /\ Begin(r, "fund_task")
    \/ label[r] = "fund_task" /\ GoTo(r, "see_vault")
    \/ label[r] = "submit_task" /\ GoTo(r, "read_before")
    \/ label[r] = "pay_task" /\ GoTo(r, "read_after")

FetchAndAssertTask(r) ==
    /\ Reads(r, "fetch")
    /\ LET t == task[TaskOf(r)]
       IN Require(r,
            /\ t.status = ExpectedStatus(label[r])
            /\ label[r] = "accept_assignment" => t.worker = WorkerOf[r]
            /\ label[r] = "fund_task" => t.reward_amount = RewardLamports,
            Proceed(r))
    /\ UNCHANGED <<number, before>>

(* getAccountInfo of an address is null exactly if it holds no lamports. *)
SeeVault(r) ==
    /\ Reads(r, "see_vault")
    /\ Require(r, vaultBalance[TaskOf(r)] > 0, Begin(r, "submit_task"))
    /\ UNCHANGED <<number, before>>

ReadBefore(r) ==
    /\ Reads(r, "read_before")
    /\ before' = [before EXCEPT ![r] = wallet[WorkerOf[r]]]
    /\ Begin(r, "pay_task")
    /\ UNCHANGED number

ReadAfter(r) ==
    /\ Reads(r, "read_after")
    /\ Require(r, wallet[WorkerOf[r]] - before[r] = RewardLamports,
              GoTo(r, "see_no_vault"))
    /\ UNCHANGED <<number, before>>

SeeNoVault(r) ==
    /\ Reads(r, "see_no_vault")
    /\ Require(r, vaultBalance[TaskOf(r)] = 0, GoTo(r, "succeeded"))
    /\ UNCHANGED <<number, before>>

Script(r) ==
    \/ CheckBalance(r) \/ FindProfile(r) \/ FetchProfile(r)
    \/ Simulate(r) \/ Send(r) \/ FetchAndAssertTask(r)
    \/ SeeVault(r) \/ ReadBefore(r) \/ ReadAfter(r) \/ SeeNoVault(r)

-----------------------------------------------------------------------------
(***************************************************************************)
(* The network and everybody else                                          *)
(***************************************************************************)

(* A step of somebody else interferes with a run that has begun if it    *)
(* changes what the run looks at: the profile, the operator's wallet and *)
(* its worker's, its task.                                               *)
Affects(r) ==
    /\ phase[r] # "check_balance"
    /\ \/ profile'[Operator] # profile[Operator]
       \/ \E k \in {Operator, WorkerOf[r]} : wallet'[k] # wallet[k]
       \/ number[r] # None /\ \/ task'[TaskOf(r)] # task[TaskOf(r)]
                              \/ vaultBalance'[TaskOf(r)] # vaultBalance[TaskOf(r)]

Disturb(runs) == disturbed' = disturbed \cup {r \in runs : phase[r] \notin Ended}

\* Mutant: the run waits for anything to happen at the address it expects.
AwaitsAnybody(r, l) == {s \in Runs : phase[s] = "confirm" /\ label[s] = l}

(* Confirmation is of the signature of the run's own transaction. *)
Awaits(r, l) == {s \in {r} : phase[s] = "confirm" /\ label[s] = l}

Land(r, l) ==
    /\ <<r, l>> \in inFlight
    /\ Transaction(r, l)
    /\ inFlight' = inFlight \ {<<r, l>>}
    /\ phase' = [s \in Runs |-> IF s \notin Awaits(r, l) THEN phase[s]
                                ELSE IF l = "create_creator_profile"
                                     THEN "fetch_profile" ELSE "fetch"]
    /\ Disturb({s \in Runs \ {r} : Affects(s)})
    /\ UNCHANGED <<label, number, before>>

(* An awaited transaction that will not land fails its run. *)
Vanish(r, l) ==
    /\ <<r, l>> \in inFlight
    /\ inFlight' = inFlight \ {<<r, l>>}
    /\ phase' = [s \in Runs |-> IF s \in Awaits(r, l) THEN "failed" ELSE phase[s]]
    /\ UNCHANGED <<ledger, label, number, before>>

Refuse(r, l) ==
    /\ Vanish(r, l)
    /\ ~Accepts(r, l)
    /\ UNCHANGED disturbed

(* The transaction's blockhash gets too old. *)
Expire(r, l) ==
    /\ Vanish(r, l)
    /\ Disturb({r})

Network(r) == \E l \in Labels : Land(r, l) \/ Refuse(r, l) \/ Expire(r, l)

(* The script is interrupted or loses its connection, at any await. *)
Abort(r) ==
    /\ phase[r] \notin Ended
    /\ GoTo(r, "failed")
    /\ Disturb({r})
    /\ UNCHANGED <<ledger, number, before, inFlight>>

(* The operator cleans up by hand, strangers use the tasks they see and *)
(* send lamports to vault addresses and to wallets, and anybody settles. *)
Others ==
    /\ \/ \E id \in TaskIds :
             \/ CancelTask(Operator, id)
             \/ RefundTaskAfterTimeout(Operator, id)
             \/ \E w \in Keys : SettleTaskAfterTimeout(id, Operator, w, FALSE)
             \/ \E k \in Strangers :
                   \/ AcceptTask(k, id)
                   \/ \E amount \in Donations : Donate(k, id, amount)
       \/ \E k \in Strangers, to \in Keys, amount \in Transfers : Transfer(k, to, amount)
    /\ Disturb({r \in Runs : Affects(r)})
    /\ UNCHANGED <<client, inFlight>>

(* Time interferes with a run that has not submitted by its deadline, and *)
(* with every run at the end of time.                                     *)
TimeIsUp(r) ==
    \/ now' + SubmissionTimeout > MaxTimestamp
    \/ now' + ReviewTimeout > MaxTimestamp
    \/ /\ number[r] # None
       /\ Exists(TaskOf(r))
       /\ task[TaskOf(r)].status = "Funded"
       /\ now' >= task[TaskOf(r)].submission_deadline

Time ==
    /\ AdvanceClock
    /\ Disturb({r \in Runs : TimeIsUp(r)})
    /\ UNCHANGED <<client, inFlight>>

-----------------------------------------------------------------------------
SmokeNext ==
    \/ \E r \in Runs : Script(r) \/ Network(r) \/ Abort(r)
    \/ Others
    \/ Time

SmokeSpec == SmokeInit /\ [][SmokeNext]_smokeVars

(* Awaits return, transactions land or expire, time passes, the operator   *)
(* asks for the refunds that are due and somebody sends the settlements.   *)
SmokeFairness ==
    /\ \A r \in Runs : WF_smokeVars(Script(r)) /\ WF_smokeVars(Network(r))
    /\ WF_smokeVars(Time)
    /\ WF_smokeVars(Others /\ \E id \in TaskIds : vault[id] # None /\ vault'[id] = None)

FairSmokeSpec == SmokeSpec /\ SmokeFairness

-----------------------------------------------------------------------------
(* A run that nobody and nothing interferes with does not fail: the        *)
(* number, the addresses, the statuses, the balances and the deadlines     *)
(* the script expects are those the program produces, and the balance it   *)
(* checks at its start pays for everything it does, on a fresh ledger as   *)
(* well as after earlier runs, whatever state those were left in.          *)
OnlyInterferenceFailsARun ==
    \A r \in Runs : phase[r] = "failed" => r \in disturbed

HasCreated(r) == label[r] \notin {"create_creator_profile", "create_task"}

(* Two runs never drive the same task, though both may have read the same *)
(* task_count and transactions of a run that was given up may still land: *)
(* the worker of a task is the one of the run that created it.            *)
OneDriverPerTask ==
    \A r \in Runs : HasCreated(r) =>
        /\ \A s \in Runs \ {r} : HasCreated(s) => number[s] # number[r]
        /\ assignment[TaskOf(r)] # None =>
             assignment[TaskOf(r)].selected_worker = WorkerOf[r]
        /\ task[TaskOf(r)].worker \in {None, WorkerOf[r]} \cup Strangers

(* Every run ends: there is no retry, and every wait is bounded. *)
EveryRunEnds == \A r \in Runs : <>(phase[r] \in Ended)

(* A run given up between funding and payment, its worker key lost, leaves *)
(* no escrow behind for ever.                                              *)
AbandonedEscrowEnds == \A id \in TaskIds : vault[id] # None ~> vault[id] = None
=============================================================================
