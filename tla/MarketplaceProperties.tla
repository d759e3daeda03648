------------------------ MODULE MarketplaceProperties ------------------------
(***************************************************************************)
(* What should be true of the task_marketplace program: invariants, action *)
(* properties, liveness, and the two abstract specifications it implements *)
(***************************************************************************)
EXTENDS TaskMarketplace, FiniteSets

(* Every variable holds what its account type declares. *)
TypeOK ==
    /\ profile \in [Creators -> Option(0 .. MaxTaskCount)]
    /\ task \in [TaskIds -> Option(Task)]
    /\ assignment \in [TaskIds -> Option(WorkerAssignment)]
    /\ resolution \in [TaskIds -> Option(TaskResolution)]
    /\ vault \in [TaskIds -> Option(Nat)]
    /\ vaultBalance \in [TaskIds -> Nat]
    /\ wallet \in [Keys -> Nat]
    /\ now \in Timestamps

HasStatus(id, statuses) == Exists(id) /\ task[id].status \in statuses

InCustody == {"Funded", "Submitted", "Disputed"}

Terminal == {"Paid", "Refunded", "Cancelled"}

-----------------------------------------------------------------------------
(***************************************************************************)
(* Invariants: accounts that must agree with one another                   *)
(***************************************************************************)

(* Every stored task passes validate_invariants, which every later        *)
(* instruction starts with: no task is stuck behind its own validation.   *)
(* The parties of a task are distinct, so no payment moves lamports from  *)
(* an account to itself (pay_worker, close = creator).                    *)
TaskShaped(id) ==
    Exists(id) =>
        /\ TaskValid(task[id])
        /\ task[id].creator = id[1]
        /\ task[id].worker # task[id].creator
        /\ task[id].reward_amount > 0

TaskShape == \A id \in TaskIds : TaskShaped(id)

(* A vault exists exactly while its task is Funded, Submitted or Disputed, *)
(* owes exactly the reward, and holds the rent and the reward, whatever    *)
(* was sent to its address before or after fund_task created it.           *)
CustodyMatches(id) ==
    /\ vault[id] # None <=> HasStatus(id, InCustody)
    /\ vault[id] # None =>
         /\ vault[id] = task[id].reward_amount
         /\ CoversLiability(vault[id], vaultBalance[id])

CustodyMatchesStatus == \A id \in TaskIds : CustodyMatches(id)

(* The task and its resolution, two accounts written by the same          *)
(* instructions, tell the same story: a dispute is open in both or in     *)
(* neither, it was decided the way the task ended, and the resolution of  *)
(* a task that never was disputed is untouched (so the permissionless     *)
(* settlement does not depend on whether its caller passes it).           *)
ResolutionAgrees(id) ==
    LET r == resolution[id]
    IN /\ HasStatus(id, {"Disputed", "Refunded"}) => r # None
       /\ r # None =>
            /\ Exists(id)
            /\ ResolutionValid(r)
            /\ r.arbitration_authority # task[id].creator
            /\ r.state = "Disputed" <=> HasStatus(id, {"Disputed"})
            /\ r.state = "Disputed" => RequireDisputed(r)
            /\ r.state = "Ready" => r = NewResolution(r.arbitration_authority)
            /\ r.state = "Resolved" =>
                 HasStatus(id, {IF r.outcome = "PayWorker" THEN "Paid" ELSE "Refunded"})
            /\ HasStatus(id, {"Refunded"}) => r.state = "Resolved"

ResolutionAgreement == \A id \in TaskIds : ResolutionAgrees(id)

(* Once the creator has selected a worker nobody else can get the task     *)
(* (accept_task is closed to it), and the assignment is accepted exactly   *)
(* when the selected worker has become the task's worker.                  *)
AssignmentAgrees(id) ==
    LET a == assignment[id]
    IN /\ HasStatus(id, {"Assigned"}) => a # None
       /\ a # None =>
            /\ Exists(id)
            /\ AssignmentValid(a)
            /\ a.selected_worker # task[id].creator
            /\ task[id].status # "Open"
            /\ a.accepted_at = None <=> task[id].worker = None
            /\ task[id].worker \in {None, a.selected_worker}

AssignmentAgreement == \A id \in TaskIds : AssignmentAgrees(id)

(* Every deadline was set from the step that started its window, which     *)
(* itself lay inside the window before it: so lamports that enter a vault  *)
(* are due to somebody within the sum of the three timeouts.               *)
DeadlinesChained(id) ==
    LET t == task[id]
        r == resolution[id]
    IN Exists(id) =>
        /\ t.funded_at # None =>
             /\ t.funded_at <= now
             /\ t.submission_deadline = t.funded_at + SubmissionTimeout
        /\ t.review_deadline # None =>
             LET submitted_at == t.review_deadline - ReviewTimeout
             IN /\ t.funded_at # None
                /\ t.funded_at <= submitted_at
                /\ submitted_at <= now
                /\ submitted_at < t.submission_deadline
        /\ (r # None /\ r.state # "Ready") =>
             /\ t.review_deadline # None
             /\ r.opened_at \in (t.review_deadline - ReviewTimeout) .. now
             /\ r.opened_at < t.review_deadline
             /\ r.arbitration_deadline = r.opened_at + ArbitrationTimeout

DeadlineChain == \A id \in TaskIds : DeadlinesChained(id)

(* In the worst case a vault is due to the worker strictly before this.    *)
LockLimit == SubmissionTimeout + ReviewTimeout + ArbitrationTimeout

(* An escrow is never locked for longer than the three windows together:   *)
(* the last deadline of a task lies less than LockLimit after fund_task.   *)
LockIsBounded ==
    \A id \in TaskIds : HasStatus(id, InCustody) =>
        LET t == task[id]
        IN /\ t.submission_deadline < t.funded_at + LockLimit
           /\ t.review_deadline # None => t.review_deadline < t.funded_at + LockLimit
           /\ t.status = "Disputed" =>
                resolution[id].arbitration_deadline < t.funded_at + LockLimit

(* The tasks of a creator are numbered 1, 2, ... task_count without a gap, *)
(* and only accounts of existing tasks exist.                              *)
ContiguousNumbering ==
    \A c \in Creators, n \in 1 .. MaxTaskCount :
        Exists(<<c, n>>) <=> (profile[c] # None /\ n <= profile[c])

-----------------------------------------------------------------------------
(***************************************************************************)
(* Invariants: lamports                                                    *)
(***************************************************************************)

(* What the address h holds of f, counted one lamport at a time. *)
Purse(f, h) == {h} \X (1 .. f[h])

Lamports(f) == UNION {Purse(f, h) : h \in DOMAIN f}

Total(f) == Cardinality(Lamports(f))

(* Keys are 32 bytes long, and the runtime counts the lamports that there *)
(* are, and so those of any set of accounts, in a u64.                    *)
ASSUME SupplyAssumption ==
    /\ IsFiniteSet(Keys)
    /\ Total(InitialWallets) <= MaxU64

RentIf(condition, account) == IF condition THEN Rent[account] ELSE 0

(* What the accounts of a task and the profile of a creator hold. *)
TaskLamports(id) ==
    RentIf(Exists(id), "task")
    + RentIf(assignment[id] # None, "assignment")
    + RentIf(resolution[id] # None, "resolution")
    + vaultBalance[id]

ProfileLamports(c) == RentIf(profile[c] # None, "profile")

LamportsHeld ==
    Total(wallet)
    + Total([id \in TaskIds |-> TaskLamports(id)])
    + Total([c \in Creators |-> ProfileLamports(c)])

(* No instruction creates or destroys lamports: what the wallets, the      *)
(* vault addresses and the rent of the other accounts hold is what the     *)
(* wallets held at the beginning (pay_worker and close move lamports       *)
(* directly, outside the system program).                                  *)
LamportsConserved == LamportsHeld = Total(InitialWallets)

-----------------------------------------------------------------------------
(***************************************************************************)
(* Invariants: which instructions are possible                             *)
(***************************************************************************)

CanSubmitSomething(id) ==
    \E w \in Keys, reference \in ValidTexts : CanSubmitTask(w, id, reference)

CanRefund(id) == \E k \in Keys : CanRefundTaskAfterTimeout(k, id)

CanRejectSomehow(id) ==
    \E k \in Keys, reference \in ValidTexts : CanRejectSubmission(k, id, reference)

CanSettleTask(id) ==
    \E k, w \in Keys, pass \in BOOLEAN : CanSettleTaskAfterTimeout(id, k, w, pass)

CanArbitrate(id) ==
    \E a, k, w \in Keys, outcome \in DisputeOutcome :
        CanResolveDispute(a, id, k, w, outcome)

CanSettleDisputeNow(id) ==
    \E k, w \in Keys : CanSettleDisputeAfterTimeout(id, k, w)

(* Two parties race at every deadline: the worker's submission and the    *)
(* creator's refund, the creator's rejection and the settlement anyone    *)
(* may send, the arbitrator and the settlement of the dispute.  At no     *)
(* time could both of a pair succeed, so the clock alone decides.         *)
OneWinnerPerDeadline ==
    \A id \in TaskIds :
        /\ ~(CanSubmitSomething(id) /\ CanRefund(id))
        /\ ~(CanRejectSomehow(id) /\ CanSettleTask(id))
        /\ ~(CanArbitrate(id) /\ CanSettleDisputeNow(id))

(* The wallet of the task's worker may receive the reward: the runtime    *)
(* refuses to leave it with less than its rent.                           *)
WorkerCanReceive(id) ==
    RentExempt(wallet[task[id].worker] + task[id].reward_amount)

(* A deadline that passed always leaves a way out of the vault: the refund *)
(* of a task nobody delivered, and the settlement, by anybody and whether  *)
(* or not the resolution is passed, of a submission nobody rejected.       *)
EscrowHasExit ==
    \A id \in TaskIds :
        /\ (HasStatus(id, {"Funded"}) /\ now >= task[id].submission_deadline) =>
             CanRefundTaskAfterTimeout(task[id].creator, id)
        /\ (HasStatus(id, {"Submitted"}) /\ WorkerCanReceive(id)) =>
             /\ CanPayTask(task[id].creator, id, task[id].worker)
             /\ now >= task[id].review_deadline =>
                  \A pass \in BOOLEAN : (pass => resolution[id] # None) =>
                     CanSettleTaskAfterTimeout(id, task[id].creator,
                                               task[id].worker, pass)

(* "Dispute exits: arbitrator - mutual agreement - timeout": from its      *)
(* deadline on, anybody can settle a dispute in favour of the worker.      *)
DisputeHasExit ==
    \A id \in TaskIds :
        (/\ HasStatus(id, {"Disputed"})
         /\ now >= resolution[id].arbitration_deadline
         /\ WorkerCanReceive(id))
        => CanSettleDisputeAfterTimeout(id, task[id].creator, task[id].worker)

(* validate_dispute_accounts refuses every exit of a dispute whose         *)
(* arbitrator is its worker.                                               *)
ArbitratorIsWorker(id) ==
    resolution[id] # None /\ resolution[id].arbitration_authority = task[id].worker

(* A dispute between three distinct parties has all three of its exits:    *)
(* agreement at any time, the arbitrator before the deadline, anybody from *)
(* the deadline on.                                                        *)
ThreePartyDisputeHasExits ==
    \A id \in TaskIds :
        (HasStatus(id, {"Disputed"}) /\ WorkerCanReceive(id) /\ ~ArbitratorIsWorker(id)) =>
          LET c == task[id].creator
              w == task[id].worker
              r == resolution[id]
          IN \A outcome \in DisputeOutcome :
               /\ CanResolveDisputeByAgreement(c, w, id, outcome)
               /\ IF now < r.arbitration_deadline
                  THEN CanResolveDispute(r.arbitration_authority, id, c, w, outcome)
                  ELSE CanSettleDisputeAfterTimeout(id, c, w)

-----------------------------------------------------------------------------
(***************************************************************************)
(* Action properties                                                       *)
(***************************************************************************)

(* Replay protection: once a task is Paid, Refunded or Cancelled, no       *)
(* instruction changes any of its accounts or takes lamports from its      *)
(* vault address again.                                                    *)
TerminalIsFinal ==
    [][\A id \in TaskIds : HasStatus(id, Terminal) =>
          /\ task'[id] = task[id]
          /\ assignment'[id] = assignment[id]
          /\ resolution'[id] = resolution[id]
          /\ vault'[id] = None
          /\ vaultBalance'[id] >= vaultBalance[id]]_vars

SetOnce(old, new) == old # None => new = old

(* The evidence a dispute is decided on cannot be rewritten: the worker,   *)
(* the reference submitted, the reason of rejection, the start and the end *)
(* of every window and the outcome are written at most once.               *)
EvidenceIsWrittenOnce ==
    [][\A id \in TaskIds :
          /\ Exists(id) =>
               /\ SetOnce(task[id].worker, task'[id].worker)
               /\ SetOnce(task[id].submission_reference, task'[id].submission_reference)
               /\ SetOnce(task[id].funded_at, task'[id].funded_at)
               /\ SetOnce(task[id].submission_deadline, task'[id].submission_deadline)
               /\ SetOnce(task[id].review_deadline, task'[id].review_deadline)
          /\ resolution[id] # None =>
               /\ SetOnce(resolution[id].opened_at, resolution'[id].opened_at)
               /\ SetOnce(resolution[id].arbitration_deadline,
                          resolution'[id].arbitration_deadline)
               /\ SetOnce(resolution[id].rejection_reference,
                          resolution'[id].rejection_reference)
               /\ SetOnce(resolution[id].outcome, resolution'[id].outcome)]_vars

(* A worker who accepts a task knows who will decide a dispute about it,   *)
(* if anybody will: the arbitrator is named while the task is Open or      *)
(* never, and is never replaced.  So a submission to a task without one    *)
(* cannot be disputed: it can only be paid.                                *)
ArbitratorIsKnownBeforehand ==
    [][\A id \in TaskIds :
          /\ resolution[id] # None =>
               resolution'[id].arbitration_authority
                  = resolution[id].arbitration_authority
          /\ (Exists(id) /\ task[id].status # "Open") =>
               (resolution[id] = None <=> resolution'[id] = None)
          /\ (HasStatus(id, {"Submitted"}) /\ resolution[id] = None) =>
               task'[id].status \in {"Submitted", "Paid"}]_vars

(* Money that leaves a vault goes where the final status says: exactly the *)
(* reward to the worker and the surplus to the creator if the task became  *)
(* Paid, everything to the creator if it became Refunded or Cancelled.     *)
SettlementMatchesStatus ==
    [][\A id \in TaskIds : vaultBalance'[id] < vaultBalance[id] =>
          LET t == task[id]
              reward == IF task'[id].status = "Paid" THEN t.reward_amount ELSE 0
          IN /\ task'[id].status \in Terminal
             /\ vaultBalance'[id] = 0
             /\ wallet' = [wallet EXCEPT
                             ![t.worker] = @ + reward,
                             ![t.creator] = @ + (vaultBalance[id] - reward)]]_vars

-----------------------------------------------------------------------------
(***************************************************************************)
(* Liveness, under FairSpec                                                *)
(***************************************************************************)

(* The worker needs nobody's help once the work is submitted: whatever the *)
(* creator and the arbitrator do or fail to do, the escrow of a submitted  *)
(* or disputed task ends, except one whose arbitrator is its worker.  Like *)
(* EscrowIsReleased this is claimed of rewards that an empty wallet may    *)
(* hold: a smaller one may wait for a top-up (WorkerCanReceive).           *)
SubmissionIsSettled ==
    \A id \in TaskIds :
        HasStatus(id, {"Submitted", "Disputed"})
            ~> (vault[id] = None \/ ArbitratorIsWorker(id))

(* Lamports that enter a vault leave it, with the same exception, if the   *)
(* creator asks for the refund of what was never delivered.  That is       *)
(* assumed, not shown: refund_task_after_timeout takes nobody else's       *)
(* signature, and a creator who is gone leaves such a vault locked.        *)
EscrowIsReleased ==
    CreatorCollects =>
        \A id \in TaskIds :
            vault[id] # None ~> (vault[id] = None \/ ArbitratorIsWorker(id))

-----------------------------------------------------------------------------
(***************************************************************************)
(* Refinement                                                              *)
(***************************************************************************)

StatusOf(id) == IF Exists(id) THEN task[id].status ELSE "Absent"

Lifecycle == INSTANCE TaskLifecycle WITH
    Ids      <- TaskIds,
    Workers  <- Keys,
    Evidence <- ValidTexts,
    status   <- [id \in TaskIds |-> StatusOf(id)],
    worker   <- [id \in TaskIds |-> IF Exists(id) THEN task[id].worker ELSE None],
    evidence <- [id \in TaskIds |-> IF Exists(id) THEN task[id].submission_reference
                                                 ELSE None]

(* Whatever signers and the clock do, a task lives the life that           *)
(* docs/task-lifecycle.svg draws.                                          *)
ImplementsLifecycle == Lifecycle!Spec

(* The text diagram under "Task Lifecycle" in the README is the same graph *)
(* without an edge from Assigned to Cancelled.                             *)
ReadmeEdges == Lifecycle!Edges \ {<<"Assigned", "Cancelled">>}

(* "Assigned -> Accepted": the only way on from Assigned that the README   *)
(* knows of; cancel_task knows another.                                    *)
FollowsReadmeDiagram ==
    [][\A id \in TaskIds :
          StatusOf(id)' # StatusOf(id) =>
              <<StatusOf(id), StatusOf(id)'>> \in ReadmeEdges]_vars

WasFunded(id) == Exists(id) /\ task[id].funded_at # None

CustodyPhase(id) ==
    CASE vault[id] # None -> "held"
      [] vault[id] = None /\ WasFunded(id) ->
            (IF task[id].status = "Paid" THEN "paid" ELSE "returned")
      [] OTHER -> "none"

Custody == INSTANCE EscrowCustody WITH
    Ids          <- TaskIds,
    Parties      <- Keys,
    Rent         <- VaultRent,
    InitialPurse <- InitialWallets,
    phase        <- [id \in TaskIds |-> CustodyPhase(id)],
    terms        <- [id \in TaskIds |->
                       IF WasFunded(id)
                       THEN [creator |-> task[id].creator,
                             worker  |-> task[id].worker,
                             reward  |-> task[id].reward_amount]
                       ELSE None],
    held         <- vaultBalance,
    purse        <- wallet

(* Six instructions can release a vault, after arbitrary races: together   *)
(* with fund_task they are one deposit and at most one release,            *)
(* to the worker or to the creator, on the terms fixed at the deposit.     *)
ImplementsCustody == Custody!Spec
=============================================================================
