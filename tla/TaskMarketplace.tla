--------------------------- MODULE TaskMarketplace ---------------------------
(***************************************************************************)
(* The task_marketplace program: its sixteen instructions, each one atomic *)
(* transaction, over the accounts they read and write.                     *)
(*                                                                         *)
(* A task is identified by the seeds of its address, <<creator, number>>;  *)
(* the vault, the resolution and the assignment of a task have addresses   *)
(* derived from the task's, so they are indexed by the task too and        *)
(* "the account passed is the task's own" holds by the seeds constraint.   *)
(* Any key may sign any instruction, in any order, at any time: an         *)
(* instruction whose checks fail leaves no trace, and so is no step.       *)
(***************************************************************************)
EXTENDS Escrow

CONSTANTS
    Creators,        \* bound: the keys that call create_creator_profile
    MaxTaskCount,    \* u64::MAX of CreatorProfile::task_count, scaled
    Rewards,         \* bound: the reward_amount arguments tried
    Donations,       \* bound: the amounts sent to vault addresses unasked
    Transfers,       \* bound: the amounts that keys pay each other
    Rent,            \* rent of the accounts that are never closed
    InitialWallets   \* the lamports every key starts with

PermanentAccounts == {"profile", "task", "assignment", "resolution"}

ASSUME MarketplaceAssumption ==
    /\ Creators \subseteq Keys
    /\ MaxTaskCount \in Nat
    /\ Rewards \subseteq Nat
    /\ Donations \cup Transfers \subseteq Nat \ {0}
    /\ Rent \in [PermanentAccounts -> Nat]
    /\ InitialWallets \in [Keys -> Nat]
    /\ None \notin Task \cup WorkerAssignment \cup TaskResolution

VARIABLES
    profile,       \* task_count of every CreatorProfile, or None
    task,          \* the Task accounts
    assignment,    \* the WorkerAssignment accounts
    resolution,    \* the TaskResolution accounts
    vault,         \* escrowed_lamports of every EscrowVault, or None
    vaultBalance,  \* lamports held at the vault address of every task
    wallet,        \* lamports of every key
    now            \* Clock::unix_timestamp

accounts == <<profile, task, assignment, resolution>>
money    == <<vault, vaultBalance, wallet>>
vars     == <<profile, task, assignment, resolution, vault, vaultBalance,
              wallet, now>>

TaskIds == Creators \X (1 .. MaxTaskCount)

Init ==
    /\ profile = [c \in Creators |-> None]
    /\ task = [id \in TaskIds |-> None]
    /\ assignment = [id \in TaskIds |-> None]
    /\ resolution = [id \in TaskIds |-> None]
    /\ vault = [id \in TaskIds |-> None]
    /\ vaultBalance = [id \in TaskIds |-> 0]
    /\ wallet = InitialWallets
    /\ now = 0

-----------------------------------------------------------------------------
(***************************************************************************)
(* Account constraints and helpers shared by the instructions              *)
(***************************************************************************)

Exists(id) == task[id] # None

(* `has_one = creator` on a signer. *)
SignedByCreator(signer, id) == Exists(id) /\ signer = task[id].creator

CanSpend(key, amount) ==
    /\ wallet[key] >= amount
    /\ RentExempt(wallet[key] - amount)

Spend(key, amount) == wallet' = [wallet EXCEPT ![key] = @ - amount]

(* validate_escrow on the vault of a task. *)
VaultValid(id) ==
    /\ vault[id] # None
    /\ EscrowValid(task[id], vault[id], vaultBalance[id])

(* validate_task_resolution on the resolution of a task. *)
TaskResolutionValid(id) ==
    /\ resolution[id] # None
    /\ TaskValid(task[id])
    /\ ResolutionValid(resolution[id])

(* validate_dispute_accounts. *)
DisputeAccountsValid(id, creator, worker) ==
    /\ Exists(id)
    /\ TaskResolutionValid(id)
    /\ VaultValid(id)
    /\ creator = task[id].creator
    /\ worker = task[id].worker
    /\ creator # worker
    /\ resolution[id].arbitration_authority # creator
    /\ resolution[id].arbitration_authority # worker

(* pay_worker followed by the close of the vault into the creator. *)
CanPayOut(id) ==
    LET t == task[id]
        paid == WorkerAmount(vault[id])
    IN /\ CanPayWorker(vault[id], vaultBalance[id], wallet[t.worker])
       /\ CanCloseInto(wallet[t.creator], vaultBalance[id] - paid)

\* Mutant: pay_worker credits the worker without debiting the vault.
PayOutWithoutDebit(id) ==
    /\ wallet' = [wallet EXCEPT ![task[id].worker]  = @ + vault[id],
                                ![task[id].creator] = @ + vaultBalance[id]]
    /\ vault' = [vault EXCEPT ![id] = None]
    /\ vaultBalance' = [vaultBalance EXCEPT ![id] = 0]

\* Mutant: the surplus goes to the worker, the reward to the creator.
PayOutSwapped(id) ==
    /\ wallet' = [wallet EXCEPT
                    ![task[id].creator] = @ + vault[id],
                    ![task[id].worker]  = @ + (vaultBalance[id] - vault[id])]
    /\ vault' = [vault EXCEPT ![id] = None]
    /\ vaultBalance' = [vaultBalance EXCEPT ![id] = 0]

\* Mutant: the vault is paid from but never closed.
PayOutWithoutClose(id) ==
    /\ wallet' = [wallet EXCEPT ![task[id].worker] = @ + vault[id]]
    /\ vaultBalance' = [vaultBalance EXCEPT ![id] = @ - vault[id]]
    /\ UNCHANGED vault

PayOut(id) ==
    LET t == task[id]
        paid == WorkerAmount(vault[id])
    IN /\ wallet' = [wallet EXCEPT ![t.worker]  = @ + paid,
                                   ![t.creator] = @ + (vaultBalance[id] - paid)]
       /\ vault' = [vault EXCEPT ![id] = None]
       /\ vaultBalance' = [vaultBalance EXCEPT ![id] = 0]

(* The close of the vault alone. *)
CanReturn(id) == CanCloseInto(wallet[task[id].creator], vaultBalance[id])

Return(id) ==
    /\ wallet' = [wallet EXCEPT ![task[id].creator] = @ + vaultBalance[id]]
    /\ vault' = [vault EXCEPT ![id] = None]
    /\ vaultBalance' = [vaultBalance EXCEPT ![id] = 0]

(* settle_dispute: the worker is paid only if the outcome says so; the *)
(* vault is closed either way.                                         *)
CanSettleDispute(id, outcome) ==
    /\ TaskCanResolveDispute(task[id], outcome)
    /\ IF outcome = "PayWorker" THEN CanPayOut(id) ELSE CanReturn(id)

SettleDispute(id, outcome) ==
    /\ task' = [task EXCEPT ![id] = TaskResolveDispute(@, outcome)]
    /\ resolution' = [resolution EXCEPT ![id] = ResolutionFinish(@, outcome)]
    /\ IF outcome = "PayWorker" THEN PayOut(id) ELSE Return(id)
    /\ UNCHANGED <<profile, assignment, now>>

-----------------------------------------------------------------------------
(***************************************************************************)
(* Before the escrow                                                       *)
(***************************************************************************)

CanCreateCreatorProfile(creator) ==
    /\ profile[creator] = None
    /\ CanSpend(creator, Rent["profile"])

CreateCreatorProfile(creator) ==
    /\ CanCreateCreatorProfile(creator)
    /\ profile' = [profile EXCEPT ![creator] = 0]
    /\ Spend(creator, Rent["profile"])
    /\ UNCHANGED <<task, assignment, resolution, vault, vaultBalance, now>>

\* Mutant: any unused number may be chosen.
CanCreateTaskAnywhere(creator, number, title, description, reward) ==
    /\ profile[creator] # None
    /\ ~Exists(<<creator, number>>)
    /\ CanSpend(creator, Rent["task"])
    /\ reward > 0
    /\ title \in ValidTexts
    /\ description \in ValidTexts

(* The caller guesses the number, from a count it read earlier. *)
CanCreateTask(creator, number, title, description, reward) ==
    /\ profile[creator] # None
    /\ ~Exists(<<creator, number>>)
    /\ CanSpend(creator, Rent["task"])
    /\ reward > 0
    /\ title \in ValidTexts
    /\ description \in ValidTexts
    /\ profile[creator] + 1 <= MaxTaskCount
    /\ number = profile[creator] + 1

CreateTask(creator, number, title, description, reward) ==
    /\ CanCreateTask(creator, number, title, description, reward)
    /\ task' = [task EXCEPT ![<<creator, number>>] = NewTask(creator, reward)]
    /\ profile' = [profile EXCEPT ![creator] = number]
    /\ Spend(creator, Rent["task"])
    /\ UNCHANGED <<assignment, resolution, vault, vaultBalance, now>>

\* Mutant: an arbitrator can be named at any time.
CanInitializeResolutionLate(creator, id, authority) ==
    /\ SignedByCreator(creator, id)
    /\ resolution[id] = None
    /\ CanSpend(creator, Rent["resolution"])
    /\ authority # DefaultKey
    /\ authority # creator

CanInitializeTaskResolution(creator, id, authority) ==
    /\ SignedByCreator(creator, id)
    /\ resolution[id] = None
    /\ CanSpend(creator, Rent["resolution"])
    /\ task[id].status = "Open"
    /\ authority # DefaultKey
    /\ authority # creator

InitializeTaskResolution(creator, id, authority) ==
    /\ CanInitializeTaskResolution(creator, id, authority)
    /\ resolution' = [resolution EXCEPT ![id] = NewResolution(authority)]
    /\ Spend(creator, Rent["resolution"])
    /\ UNCHANGED <<profile, task, assignment, vault, vaultBalance, now>>

CanAssignWorker(creator, id, selected) ==
    /\ SignedByCreator(creator, id)
    /\ assignment[id] = None
    /\ CanSpend(creator, Rent["assignment"])
    /\ TaskCanAssignWorker(task[id], selected)

AssignWorker(creator, id, selected) ==
    /\ CanAssignWorker(creator, id, selected)
    /\ task' = [task EXCEPT ![id] = TaskAssignWorker(@)]
    /\ assignment' = [assignment EXCEPT ![id] = NewAssignment(selected)]
    /\ Spend(creator, Rent["assignment"])
    /\ UNCHANGED <<profile, resolution, vault, vaultBalance, now>>

CanAcceptAssignment(worker, id) ==
    /\ Exists(id)
    /\ assignment[id] # None
    /\ AssignmentCanAccept(assignment[id], worker)
    /\ TaskCanAcceptAssignment(task[id], worker)

AcceptAssignment(worker, id) ==
    /\ CanAcceptAssignment(worker, id)
    /\ assignment' = [assignment EXCEPT ![id] = AssignmentAccept(@, now)]
    /\ task' = [task EXCEPT ![id] = TaskAcceptAssignment(@, worker)]
    /\ UNCHANGED <<profile, resolution, vault, vaultBalance, wallet, now>>

AcceptTask(worker, id) ==
    /\ Exists(id)
    /\ TaskCanAccept(task[id], worker)
    /\ task' = [task EXCEPT ![id] = TaskAccept(@, worker)]
    /\ UNCHANGED <<profile, assignment, resolution, vault, vaultBalance,
                   wallet, now>>

CancelTask(creator, id) ==
    /\ SignedByCreator(creator, id)
    /\ TaskCanCancel(task[id])
    /\ task' = [task EXCEPT ![id] = TaskCancel(@)]
    /\ UNCHANGED <<profile, assignment, resolution, vault, vaultBalance,
                   wallet, now>>

-----------------------------------------------------------------------------
(***************************************************************************)
(* Escrow and delivery                                                     *)
(***************************************************************************)

(* The vault is created at an address that may already hold lamports. *)
CanFundTask(creator, id) ==
    LET reward == task[id].reward_amount
    IN /\ SignedByCreator(creator, id)
       /\ vault[id] = None
       /\ TaskCanFund(task[id], now)
       /\ CanSpend(creator, FundingCost(vaultBalance[id], reward))
       /\ CoversLiability(reward, FundedBalance(vaultBalance[id], reward))

FundTask(creator, id) ==
    LET reward == task[id].reward_amount
    IN /\ CanFundTask(creator, id)
       /\ vault' = [vault EXCEPT ![id] = reward]
       /\ vaultBalance' = [vaultBalance EXCEPT ![id] = FundedBalance(@, reward)]
       /\ Spend(creator, FundingCost(vaultBalance[id], reward))
       /\ task' = [task EXCEPT ![id] = TaskFund(@, now)]
       /\ UNCHANGED <<profile, assignment, resolution, now>>

CanSubmitTask(worker, id, reference) ==
    /\ Exists(id)
    /\ TaskCanSubmit(task[id], worker, reference, now)

SubmitTask(worker, id, reference) ==
    /\ CanSubmitTask(worker, id, reference)
    /\ task' = [task EXCEPT ![id] = TaskSubmit(@, reference, now)]
    /\ UNCHANGED <<profile, assignment, resolution, vault, vaultBalance,
                   wallet, now>>

CanPayTask(creator, id, worker) ==
    /\ SignedByCreator(creator, id)
    /\ VaultValid(id)
    /\ worker = task[id].worker
    /\ TaskCanPay(task[id])
    /\ CanPayOut(id)

PayTask(creator, id, worker) ==
    /\ CanPayTask(creator, id, worker)
    /\ task' = [task EXCEPT ![id] = TaskPay(@)]
    /\ PayOut(id)
    /\ UNCHANGED <<profile, assignment, resolution, now>>

CanRefundTaskAfterTimeout(creator, id) ==
    /\ SignedByCreator(creator, id)
    /\ VaultValid(id)
    /\ task[id].worker # None
    /\ TaskCanRefundAfterTimeout(task[id], now)
    /\ CanReturn(id)

RefundTaskAfterTimeout(creator, id) ==
    /\ CanRefundTaskAfterTimeout(creator, id)
    /\ task' = [task EXCEPT ![id] = TaskRefundAfterTimeout(@)]
    /\ Return(id)
    /\ UNCHANGED <<profile, assignment, resolution, now>>

(* Anyone may sign.  Whoever does chooses whether to pass the resolution. *)
CanSettleTaskAfterTimeout(id, creator, worker, passResolution) ==
    /\ Exists(id)
    /\ creator = task[id].creator
    /\ worker = task[id].worker
    /\ VaultValid(id)
    /\ creator # worker
    /\ passResolution => /\ TaskResolutionValid(id)
                         /\ resolution[id].state = "Ready"
    /\ TaskCanPayAfterTimeout(task[id], now)
    /\ CanPayOut(id)

SettleTaskAfterTimeout(id, creator, worker, passResolution) ==
    /\ CanSettleTaskAfterTimeout(id, creator, worker, passResolution)
    /\ task' = [task EXCEPT ![id] = TaskPay(@)]
    /\ PayOut(id)
    /\ UNCHANGED <<profile, assignment, resolution, now>>

-----------------------------------------------------------------------------
(***************************************************************************)
(* Disputes                                                                *)
(***************************************************************************)

CanRejectSubmission(creator, id, reference) ==
    /\ SignedByCreator(creator, id)
    /\ TaskResolutionValid(id)
    /\ TaskCanRejectSubmission(task[id], now)
    /\ ResolutionCanOpenDispute(resolution[id], now, reference)

RejectSubmission(creator, id, reference) ==
    /\ CanRejectSubmission(creator, id, reference)
    /\ task' = [task EXCEPT ![id] = TaskRejectSubmission(@)]
    /\ resolution' = [resolution EXCEPT ![id] =
                        ResolutionOpenDispute(@, now, reference)]
    /\ UNCHANGED <<profile, assignment, vault, vaultBalance, wallet, now>>

CanResolveDispute(authority, id, creator, worker, outcome) ==
    /\ DisputeAccountsValid(id, creator, worker)
    /\ authority = resolution[id].arbitration_authority
    /\ ResolutionCanResolve(resolution[id], outcome, now)
    /\ CanSettleDispute(id, outcome)

ResolveDispute(authority, id, creator, worker, outcome) ==
    /\ CanResolveDispute(authority, id, creator, worker, outcome)
    /\ SettleDispute(id, outcome)

(* Both the creator and the worker sign. *)
CanResolveDisputeByAgreement(creator, worker, id, outcome) ==
    /\ DisputeAccountsValid(id, creator, worker)
    /\ ResolutionCanResolveByAgreement(resolution[id], outcome)
    /\ CanSettleDispute(id, outcome)

ResolveDisputeByAgreement(creator, worker, id, outcome) ==
    /\ CanResolveDisputeByAgreement(creator, worker, id, outcome)
    /\ SettleDispute(id, outcome)

(* Anyone may sign. *)
CanSettleDisputeAfterTimeout(id, creator, worker) ==
    /\ DisputeAccountsValid(id, creator, worker)
    /\ ResolutionCanSettleAfterTimeout(resolution[id], now)
    /\ CanSettleDispute(id, "PayWorker")

SettleDisputeAfterTimeout(id, creator, worker) ==
    /\ CanSettleDisputeAfterTimeout(id, creator, worker)
    /\ SettleDispute(id, "PayWorker")

-----------------------------------------------------------------------------
(***************************************************************************)
(* The environment                                                         *)
(***************************************************************************)

(* Ledger time never runs back.  It may pass a deadline between any two *)
(* instructions, since several ticks may happen in a row.               *)
AdvanceClock ==
    /\ now < MaxTimestamp
    /\ now' = now + 1
    /\ UNCHANGED <<accounts, money>>

(* Anyone may send lamports to a vault address: before the vault exists, *)
(* while it does, and after it was closed.                               *)
Donate(donor, id, amount) ==
    /\ CanSpend(donor, amount)
    /\ vault[id] = None => RentExempt(vaultBalance[id] + amount)
    /\ vaultBalance' = [vaultBalance EXCEPT ![id] = @ + amount]
    /\ Spend(donor, amount)
    /\ UNCHANGED <<accounts, vault, now>>

(* Keys also pay each other: a wallet may be drained or topped up between *)
(* any two instructions.                                                  *)
Transfer(from, to, amount) ==
    /\ from # to
    /\ CanSpend(from, amount)
    /\ FitsU64(wallet[to] + amount)
    /\ RentExempt(wallet[to] + amount)
    /\ wallet' = [wallet EXCEPT ![from] = @ - amount, ![to] = @ + amount]
    /\ UNCHANGED <<accounts, vault, vaultBalance, now>>

-----------------------------------------------------------------------------
Setup ==
    \E k \in Creators :
        \/ CreateCreatorProfile(k)
        \/ \E n \in 1 .. MaxTaskCount, title, description \in Texts, r \in Rewards :
              CreateTask(k, n, title, description, r)

Preparation(id) ==
    \E k \in Keys :
        \/ \E p \in Pubkeys : \/ InitializeTaskResolution(k, id, p)
                              \/ AssignWorker(k, id, p)
        \/ AcceptAssignment(k, id)
        \/ AcceptTask(k, id)
        \/ CancelTask(k, id)

Delivery(id) ==
    \E k \in Keys :
        \/ FundTask(k, id)
        \/ \E reference \in Texts : SubmitTask(k, id, reference)
        \/ RefundTaskAfterTimeout(k, id)
        \/ \E w \in Keys :
              \/ PayTask(k, id, w)
              \/ \E pass \in BOOLEAN : SettleTaskAfterTimeout(id, k, w, pass)

Dispute(id) ==
    \E k \in Keys :
        \/ \E reference \in Texts : RejectSubmission(k, id, reference)
        \/ \E w \in Keys :
              \/ \E outcome \in DisputeOutcome :
                    \/ \E a \in Keys : ResolveDispute(a, id, k, w, outcome)
                    \/ ResolveDisputeByAgreement(k, w, id, outcome)
              \/ SettleDisputeAfterTimeout(id, k, w)

Next ==
    \/ Setup
    \/ \E id \in TaskIds : Preparation(id) \/ Delivery(id) \/ Dispute(id)
    \/ AdvanceClock
    \/ \E k \in Keys, id \in TaskIds, amount \in Donations : Donate(k, id, amount)
    \/ \E k, to \in Keys, amount \in Transfers : Transfer(k, to, amount)

Spec == Init /\ [][Next]_vars

(***************************************************************************)
(* What a user of the program may rely on to happen: time passes, and      *)
(* somebody sends the permissionless settlements once they are due (the    *)
(* worker has every reason to).  Nobody is assumed to approve, to reject,  *)
(* to agree or to decide.                                                  *)
(***************************************************************************)
Fairness ==
    /\ WF_vars(AdvanceClock)
    /\ \A id \in TaskIds :
         /\ WF_vars(\E k, w \in Keys : SettleTaskAfterTimeout(id, k, w, FALSE))
         /\ WF_vars(\E k, w \in Keys : SettleDisputeAfterTimeout(id, k, w))

FairSpec == Spec /\ Fairness

(* The creator asks for a refund that is due.  Nobody else can, so this is *)
(* no part of Fairness: it is the premise of what needs it.                *)
CreatorCollects ==
    \A id \in TaskIds : WF_vars(\E k \in Keys : RefundTaskAfterTimeout(k, id))
=============================================================================
