---------------------------- MODULE PropertyModel ----------------------------
(***************************************************************************)
(* The reference model that the repository's property tests run random     *)
(* sequences of actions on (struct Model in                                *)
(* tests/property_state_machine.rs): one task, built from the same account *)
(* methods as the program but without accounts constraints, lamports and   *)
(* transactions.  A failed action leaves it as it was.                     *)
(*                                                                         *)
(* The test fixes one worker to select and one arbitrator; here they are   *)
(* sets, so that the model can be compared with the program.               *)
(***************************************************************************)
EXTENDS TaskAccounts

CONSTANTS
    Creator,       \* Party::Creator
    Selectable,    \* the keys Action::Assign selects from (the test: worker_a)
    Arbitrators,   \* the keys named as arbitrator (the test: arbitrator)
    RewardAmounts, \* the reward of the task (the test: DEFAULT_REWARD)
    References     \* the references submitted and rejected with

(* None is no account; the parties are keys and the reward is a u64. *)
ASSUME ModelAssumption ==
    /\ None \notin WorkerAssignment \cup TaskResolution
    /\ Creator \in Keys
    /\ Selectable \subseteq Pubkeys
    /\ Arbitrators \subseteq Pubkeys
    /\ RewardAmounts \subseteq Nat

VARIABLES
    task,
    assignment,
    resolution,
    vault_liability,
    now,
    worker_received,
    payout_count,
    refund_count,
    vault_close_count,
    dispute_finish_count,
    panicked           \* an unwrap() has met an Err

subject  == <<task, assignment, resolution, vault_liability>>
counters == <<worker_received, payout_count, refund_count, vault_close_count,
              dispute_finish_count>>
modelVars == <<subject, now, counters, panicked>>

ModelInit ==
    /\ \E reward \in RewardAmounts : task = NewTask(Creator, reward)
    /\ assignment = None
    /\ resolution = None
    /\ vault_liability = None
    /\ now = 0
    /\ worker_received = 0
    /\ payout_count = 0
    /\ refund_count = 0
    /\ vault_close_count = 0
    /\ dispute_finish_count = 0
    /\ panicked = FALSE

Calm == UNCHANGED <<now, panicked>>

(* The rest of an action whose method's result is unwrapped. *)
Unwrap(ok, step) ==
    IF ok THEN step /\ Calm
    ELSE panicked' = TRUE /\ UNCHANGED <<subject, now, counters>>

-----------------------------------------------------------------------------
Assign(selected) ==
    /\ assignment = None
    /\ TaskCanAssignWorker(task, selected)
    /\ task' = TaskAssignWorker(task)
    /\ assignment' = NewAssignment(selected)
    /\ UNCHANGED <<resolution, vault_liability, counters>>
    /\ Calm

ModelAcceptAssignment(worker) ==
    /\ assignment # None
    /\ assignment.selected_worker = worker
    /\ assignment.accepted_at = None
    /\ task.status = "Assigned"
    /\ task.worker = None
    /\ Unwrap(AssignmentCanAccept(assignment, worker)
                /\ TaskCanAcceptAssignment(task, worker),
              /\ assignment' = AssignmentAccept(assignment, now)
              /\ task' = TaskAcceptAssignment(task, worker)
              /\ UNCHANGED <<resolution, vault_liability, counters>>)

ModelAcceptTask(worker) ==
    /\ TaskCanAccept(task, worker)
    /\ task' = TaskAccept(task, worker)
    /\ UNCHANGED <<assignment, resolution, vault_liability, counters>>
    /\ Calm

InitializeResolution(authority) ==
    /\ resolution = None
    /\ task.status = "Open"
    /\ resolution' = NewResolution(authority)
    /\ UNCHANGED <<task, assignment, vault_liability, counters>>
    /\ Calm

Fund ==
    /\ vault_liability = None
    /\ TaskCanFund(task, now)
    /\ task' = TaskFund(task, now)
    /\ vault_liability' = task.reward_amount
    /\ UNCHANGED <<assignment, resolution, counters>>
    /\ Calm

Submit(worker, reference) ==
    /\ TaskCanSubmit(task, worker, reference, now)
    /\ task' = TaskSubmit(task, reference, now)
    /\ UNCHANGED <<assignment, resolution, vault_liability, counters>>
    /\ Calm

Cancel ==
    /\ TaskCanCancel(task)
    /\ task' = TaskCancel(task)
    /\ UNCHANGED <<assignment, resolution, vault_liability, counters>>
    /\ Calm

CloseVault(outcome) ==
    /\ vault_liability' = None
    /\ vault_close_count' = vault_close_count + 1
    /\ IF outcome = "PayWorker"
       THEN /\ worker_received' = worker_received + vault_liability
            /\ payout_count' = payout_count + 1
            /\ UNCHANGED refund_count
       ELSE /\ refund_count' = refund_count + 1
            /\ UNCHANGED <<worker_received, payout_count>>

(* The release of an escrow without a dispute. *)
Close(t, outcome) ==
    /\ task' = t
    /\ CloseVault(outcome)
    /\ UNCHANGED <<assignment, resolution, dispute_finish_count>>
    /\ Calm

Pay ==
    /\ vault_liability # None
    /\ TaskCanPay(task)
    /\ Close(TaskPay(task), "PayWorker")

RefundAfterTimeout ==
    /\ vault_liability # None
    /\ TaskCanRefundAfterTimeout(task, now)
    /\ Close(TaskRefundAfterTimeout(task), "RefundCreator")

(* The resolution, if there is one, is always looked at. *)
ModelSettleTask ==
    /\ vault_liability # None
    /\ resolution # None => resolution.state = "Ready"
    /\ TaskCanPayAfterTimeout(task, now)
    /\ Close(TaskPay(task), "PayWorker")

\* Mutant: only the task learns of the dispute.
RejectTaskOnly(reference) ==
    /\ resolution # None
    /\ resolution.state = "Ready"
    /\ task.status = "Submitted"
    /\ Unwrap(TaskCanRejectSubmission(task, now),
              /\ task' = TaskRejectSubmission(task)
              /\ UNCHANGED <<resolution, assignment, vault_liability, counters>>)

Reject(reference) ==
    /\ resolution # None
    /\ resolution.state = "Ready"
    /\ task.status = "Submitted"
    /\ Unwrap(TaskCanRejectSubmission(task, now)
                /\ ResolutionCanOpenDispute(resolution, now, reference),
              /\ task' = TaskRejectSubmission(task)
              /\ resolution' = ResolutionOpenDispute(resolution, now, reference)
              /\ UNCHANGED <<assignment, vault_liability, counters>>)

(* The end of a dispute, decided one way or another. *)
Finish(outcome) ==
    Unwrap(TaskCanResolveDispute(task, outcome),
           /\ resolution' = ResolutionFinish(resolution, outcome)
           /\ task' = TaskResolveDispute(task, outcome)
           /\ dispute_finish_count' = dispute_finish_count + 1
           /\ CloseVault(outcome)
           /\ UNCHANGED assignment)

(* Only Party::Arbitrator passes, the key every resolution names: nobody *)
(* compares it with the worker.                                          *)
Resolve(outcome) ==
    /\ vault_liability # None
    /\ resolution # None
    /\ ResolutionCanResolve(resolution, outcome, now)
    /\ Finish(outcome)

ResolveByAgreement(outcome) ==
    /\ vault_liability # None
    /\ resolution # None
    /\ ResolutionCanResolveByAgreement(resolution, outcome)
    /\ Finish(outcome)

ModelSettleDispute ==
    /\ vault_liability # None
    /\ resolution # None
    /\ ResolutionCanSettleAfterTimeout(resolution, now)
    /\ Finish("PayWorker")

-----------------------------------------------------------------------------
(* Bound: the test's clock ends at MaxTimestamp. *)
AdvanceOneSecond ==
    /\ now < MaxTimestamp
    /\ now' = now + 1
    /\ UNCHANGED <<subject, counters, panicked>>

(* AdvanceTo{Submission,Review,Arbitration}Deadline: also backwards. *)
AdvanceTo(deadline) ==
    /\ deadline # None
    /\ now' = deadline
    /\ UNCHANGED <<subject, counters, panicked>>

ModelNext ==
    /\ ~panicked
    /\ \/ \E w \in Selectable : Assign(w)
       \/ \E w \in Keys : \/ ModelAcceptAssignment(w)
                          \/ ModelAcceptTask(w)
                          \/ \E e \in References : Submit(w, e)
       \/ \E a \in Arbitrators : InitializeResolution(a)
       \/ Fund \/ Cancel \/ Pay \/ RefundAfterTimeout \/ ModelSettleTask
       \/ \E e \in References : Reject(e)
       \/ \E outcome \in DisputeOutcome : Resolve(outcome) \/ ResolveByAgreement(outcome)
       \/ ModelSettleDispute
       \/ AdvanceOneSecond
       \/ AdvanceTo(task.submission_deadline)
       \/ AdvanceTo(task.review_deadline)
       \/ resolution # None /\ AdvanceTo(resolution.arbitration_deadline)

ModelSpec == ModelInit /\ [][ModelNext]_modelVars

-----------------------------------------------------------------------------
(* The test's own assert_invariants, for every sequence of actions rather  *)
(* than for random ones: accounts fit the status, and the escrow is        *)
(* released at most once, for at most the reward, whatever the clock does. *)
AssertInvariants ==
    /\ task.status \in {"Open", "Assigned"} => task.worker = None
    /\ task.status = "Accepted" => task.worker # None
    /\ task.status = "Funded" => task.funded_at # None
    /\ task.status = "Submitted" => task.submission_reference # None
    /\ task.status = "Disputed" =>
         resolution # None /\ resolution.state = "Disputed"
    /\ vault_liability # None => vault_liability = task.reward_amount
    /\ worker_received <= task.reward_amount
    /\ payout_count <= 1
    /\ refund_count <= 1
    /\ vault_close_count <= 1
    /\ dispute_finish_count <= 1

(* The assertions of check_model_sequence.  apply() returns true exactly if *)
(* the action changes the task, its accounts or its vault: "!success" says  *)
(* here that these and the counters stay, and only the clock may move.      *)
(*   1. No action succeeds on a finished task (lines 489-492, and 503-513,  *)
(*      where the action that finished it is tried again).                  *)
(*   2. No Pay and no SettleTaskAfterTimeout succeeds on a disputed task    *)
(*      (493-495): it leaves Disputed only by the end of its dispute.       *)
(*   3. AcceptAssignment succeeds for the selected worker only (496-500,    *)
(*      where that is WorkerA): nobody else becomes worker of a task with   *)
(*      an assignment, by this action or by any other.                      *)
AssertSequences ==
    [][/\ task.status \in {"Paid", "Refunded", "Cancelled"} =>
             UNCHANGED <<subject, counters>>
       /\ (task.status = "Disputed" /\ task'.status # "Disputed") =>
             dispute_finish_count' = dispute_finish_count + 1
       /\ (assignment # None /\ task'.worker # task.worker) =>
             task'.worker = assignment.selected_worker]_modelVars

(* "self.task.reject_submission(self.now).unwrap()": the test takes a      *)
(* rejection by the creator of a Submitted task, and every other call      *)
(* whose result it unwraps, to succeed whenever its own guards pass.       *)
UnwrapsAreSafe == ~panicked
=============================================================================
