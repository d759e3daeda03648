------------------------- MODULE PropertyModelProofs -------------------------
(***************************************************************************)
(* Proofs about the property tests' model (struct Model in                 *)
(* tests/property_state_machine.rs), for all values of the constants: what *)
(* the random tests assert after every action holds after every sequence   *)
(* of actions, of whatever length, timeouts and reward.                    *)
(***************************************************************************)
EXTENDS PropertyModel, AccountProofs

USE DEF Option, Timestamps, Pubkeys

-----------------------------------------------------------------------------
(***************************************************************************)
(* The inductive invariant                                                 *)
(***************************************************************************)

ModelTypeOK ==
    /\ task \in Task
    /\ assignment \in Option(WorkerAssignment)
    /\ resolution \in Option(TaskResolution)
    /\ vault_liability \in Option(Nat)
    /\ now \in Timestamps
    /\ worker_received \in Nat
    /\ payout_count \in Nat
    /\ refund_count \in Nat
    /\ vault_close_count \in Nat
    /\ dispute_finish_count \in Nat
    /\ panicked \in BOOLEAN

(* The vault exists exactly in the three statuses of an escrow and owes the *)
(* reward.                                                                  *)
VaultMatches ==
    /\ vault_liability # None <=> task.status \in {"Funded", "Submitted", "Disputed"}
    /\ vault_liability # None => vault_liability = task.reward_amount

ResolutionIs(state) == resolution # None /\ resolution.state = state

(* A dispute is open in both accounts or in neither. *)
DisputeMatches == task.status = "Disputed" <=> ResolutionIs("Disputed")

(* The counters can be read off the status of the task and of its resolution, *)
(* but for the refund, which a cancelled task may or may not have had.        *)
CountersMatch ==
    /\ payout_count = (IF task.status = "Paid" THEN 1 ELSE 0)
    /\ worker_received = (IF task.status = "Paid" THEN task.reward_amount ELSE 0)
    /\ refund_count \in {0, 1}
    /\ refund_count = 1 => task.status \in {"Refunded", "Cancelled"}
    /\ vault_close_count = payout_count + refund_count
    /\ dispute_finish_count = (IF ResolutionIs("Resolved") THEN 1 ELSE 0)

(* A worker is selected when the task leaves Open for Assigned. *)
AssignmentMatches == assignment # None => task.status # "Open"

ModelInv ==
    /\ ModelTypeOK
    /\ TaskValid(task)
    /\ AssignmentMatches
    /\ VaultMatches
    /\ DisputeMatches
    /\ CountersMatch

(* Nobody but the selected worker gets a task with an assignment. *)
SelectedWorkerOnly ==
    (assignment # None /\ task'.worker # task.worker) =>
        task'.worker = assignment.selected_worker

(* The step that check_model_sequence compares before and after an action. *)
SequenceKept ==
    /\ task.status \in {"Paid", "Refunded", "Cancelled"} =>
         UNCHANGED <<subject, counters>>
    /\ (task.status = "Disputed" /\ task'.status # "Disputed") =>
         dispute_finish_count' = dispute_finish_count + 1
    /\ SelectedWorkerOnly

-----------------------------------------------------------------------------
(***************************************************************************)
(* Each action keeps it                                                    *)
(***************************************************************************)

(* The subject and the counters stay: only the clock moves, or the test    *)
(* panics.                                                                 *)
LEMMA SubjectStays ==
    ASSUME ModelInv, UNCHANGED <<subject, counters>>,
           now' \in Timestamps, panicked' \in BOOLEAN
    PROVE  ModelInv' /\ SequenceKept
BY DEF ModelInv, ModelTypeOK, AssignmentMatches, VaultMatches, DisputeMatches, ResolutionIs,
       CountersMatch, SequenceKept, SelectedWorkerOnly, subject, counters

(* Nothing is in escrow yet: hiring a worker, and cancelling. *)
LEMMA BeforeEscrow ==
    ASSUME ModelInv, task.status \in {"Open", "Assigned", "Accepted"},
           task' \in Task, TaskValid(task)', task'.reward_amount = task.reward_amount,
           task'.status \in {"Assigned", "Accepted", "Cancelled"},
           assignment' \in Option(WorkerAssignment), SelectedWorkerOnly,
           UNCHANGED <<resolution, vault_liability, counters>>, Calm
    PROVE  ModelInv' /\ SequenceKept
<1>1. ModelTypeOK'
  BY DEF ModelInv, ModelTypeOK, counters, Calm
<1>2. AssignmentMatches' /\ VaultMatches' /\ DisputeMatches' /\ CountersMatch'
  BY DEF ModelInv, AssignmentMatches, VaultMatches, DisputeMatches, ResolutionIs,
         CountersMatch, counters
<1>3. SequenceKept
  BY DEF SequenceKept
<1> QED BY <1>1, <1>2, <1>3 DEF ModelInv

(* An escrow is released: the status, the vault and the counters move in   *)
(* one step.                                                               *)
LEMMA VaultClosed ==
    ASSUME ModelInv, vault_liability # None, NEW outcome \in DisputeOutcome,
           CloseVault(outcome), task' \in Task, TaskValid(task)',
           task'.reward_amount = task.reward_amount, task'.worker = task.worker,
           task'.status \in IF outcome = "PayWorker" THEN {"Paid"}
                            ELSE {"Refunded", "Cancelled"},
           resolution' \in Option(TaskResolution),
           UNCHANGED assignment, Calm,
           \/ task.status # "Disputed" /\ UNCHANGED <<resolution, dispute_finish_count>>
           \/ /\ task.status = "Disputed"
              /\ resolution' # None
              /\ resolution'.state = "Resolved"
              /\ dispute_finish_count' = dispute_finish_count + 1
    PROVE  ModelInv' /\ SequenceKept
<1>1. /\ task.status \in {"Funded", "Submitted", "Disputed"}
      /\ vault_liability = task.reward_amount
  BY DEF ModelInv, VaultMatches
<1>2. /\ payout_count = 0
      /\ worker_received = 0
      /\ refund_count = 0
      /\ vault_close_count = 0
  BY <1>1 DEF ModelInv, ModelTypeOK, CountersMatch
<1>3. task.reward_amount \in Nat
  BY DEF ModelInv, ModelTypeOK, Task
<1>4. /\ vault_liability' = None
      /\ vault_close_count' = 1
      /\ payout_count' = (IF outcome = "PayWorker" THEN 1 ELSE 0)
      /\ refund_count' = (IF outcome = "PayWorker" THEN 0 ELSE 1)
      /\ worker_received' = (IF outcome = "PayWorker" THEN task.reward_amount ELSE 0)
  BY <1>1, <1>2, <1>3 DEF CloseVault
<1>5. task'.status \in {"Paid", "Refunded", "Cancelled"}
  OBVIOUS
<1>6. task'.status = "Paid" <=> outcome = "PayWorker"
  OBVIOUS
<1>7. dispute_finish_count' = (IF ResolutionIs("Resolved")' THEN 1 ELSE 0)
  BY <1>1 DEF ModelInv, DisputeMatches, CountersMatch, ResolutionIs
<1>8. ~ResolutionIs("Disputed")'
  BY <1>1 DEF ModelInv, DisputeMatches, ResolutionIs
<1>9. ModelTypeOK'
  BY <1>3, <1>4, <1>7 DEF ModelInv, ModelTypeOK, Calm
<1>10. AssignmentMatches' /\ VaultMatches' /\ DisputeMatches'
  BY <1>4, <1>5, <1>8 DEF AssignmentMatches, VaultMatches, DisputeMatches, ResolutionIs
<1>11. CountersMatch'
  BY <1>4, <1>5, <1>6, <1>7 DEF CountersMatch, ResolutionIs
<1>12. SequenceKept
  BY <1>1 DEF SequenceKept, SelectedWorkerOnly
<1> QED BY <1>9, <1>10, <1>11, <1>12 DEF ModelInv

(* Hiring a worker, and cancelling. *)
LEMMA HiringKeeps ==
    ASSUME ModelInv,
           \/ \E w \in Selectable : Assign(w)
           \/ \E w \in Keys : ModelAcceptAssignment(w) \/ ModelAcceptTask(w)
           \/ Cancel
    PROVE  ModelInv' /\ SequenceKept
<1>1. /\ task \in Task
      /\ assignment \in Option(WorkerAssignment)
      /\ now \in Timestamps
  BY DEF ModelInv, ModelTypeOK
<1>2. CASE \E w \in Selectable : Assign(w)
  <2> PICK w \in Selectable : Assign(w) BY <1>2
  <2>1. TaskAssignWorker(task) \in Task
    BY <1>1, TaskMethodsTyped
  <2>2. NewAssignment(w) \in WorkerAssignment
    BY ModelAssumption DEF NewAssignment, WorkerAssignment
  <2>3. /\ task' = TaskAssignWorker(task)
        /\ assignment' = NewAssignment(w)
        /\ TaskValid(TaskAssignWorker(task))
        /\ task.status = "Open"
        /\ UNCHANGED <<resolution, vault_liability, counters>> /\ Calm
    BY DEF Assign, TaskCanAssignWorker
  <2>4. /\ task'.status = "Assigned"
        /\ task'.reward_amount = task.reward_amount
        /\ SelectedWorkerOnly
    BY <1>1, <2>3 DEF TaskAssignWorker, Task, SelectedWorkerOnly
  <2> QED BY <2>1, <2>2, <2>3, <2>4, BeforeEscrow
<1>3. CASE \E w \in Keys : ModelAcceptAssignment(w)
  <2> PICK w \in Keys : ModelAcceptAssignment(w) BY <1>3
  <2>1. TaskAcceptAssignment(task, w) \in Task
    BY <1>1, TaskMethodsTyped
  <2>2. assignment \in WorkerAssignment /\ task.status = "Assigned"
    BY <1>1 DEF ModelAcceptAssignment
  <2>3. AssignmentAccept(assignment, now) \in WorkerAssignment
    BY <1>1, <2>2 DEF AssignmentAccept, WorkerAssignment
  <2>4. CASE panicked' = TRUE /\ UNCHANGED <<subject, now, counters>>
    BY <1>1, <2>4, SubjectStays
  <2>5. CASE /\ AssignmentCanAccept(assignment, w)
             /\ TaskCanAcceptAssignment(task, w)
             /\ assignment' = AssignmentAccept(assignment, now)
             /\ task' = TaskAcceptAssignment(task, w)
             /\ UNCHANGED <<resolution, vault_liability, counters>>
             /\ Calm
    <3>1. TaskValid(TaskAcceptAssignment(task, w))
      BY <2>5 DEF TaskCanAcceptAssignment
    <3>2. /\ task'.status = "Accepted"
          /\ task'.reward_amount = task.reward_amount
          /\ task'.worker = w
      BY <1>1, <2>5 DEF TaskAcceptAssignment, Task
    <3>3. SelectedWorkerOnly
      BY <3>2 DEF ModelAcceptAssignment, SelectedWorkerOnly
    <3> QED BY <2>1, <2>2, <2>3, <2>5, <3>1, <3>2, <3>3, BeforeEscrow
  <2> QED BY <2>4, <2>5 DEF ModelAcceptAssignment, Unwrap
<1>4. CASE \E w \in Keys : ModelAcceptTask(w)
  <2> PICK w \in Keys : ModelAcceptTask(w) BY <1>4
  <2>1. TaskAccept(task, w) \in Task
    BY <1>1, TaskMethodsTyped
  <2>2. /\ task' = TaskAccept(task, w)
        /\ TaskValid(TaskAccept(task, w))
        /\ task.status = "Open"
        /\ UNCHANGED <<assignment, resolution, vault_liability, counters>> /\ Calm
    BY DEF ModelAcceptTask, TaskCanAccept
  <2>3. /\ task'.status = "Accepted"
        /\ task'.reward_amount = task.reward_amount
        /\ SelectedWorkerOnly
    BY <1>1, <2>2 DEF TaskAccept, Task, ModelInv, AssignmentMatches, SelectedWorkerOnly
  <2> QED BY <1>1, <2>1, <2>2, <2>3, BeforeEscrow
<1>5. CASE Cancel
  <2>1. TaskCancel(task) \in Task
    BY <1>1, TaskMethodsTyped
  <2>2. /\ task' = TaskCancel(task)
        /\ TaskValid(TaskCancel(task))
        /\ task.status \in {"Open", "Assigned", "Accepted"}
        /\ UNCHANGED <<assignment, resolution, vault_liability, counters>> /\ Calm
    BY <1>5 DEF Cancel, TaskCanCancel
  <2>3. /\ task'.status = "Cancelled"
        /\ task'.reward_amount = task.reward_amount
        /\ SelectedWorkerOnly
    BY <1>1, <2>2 DEF TaskCancel, Task, SelectedWorkerOnly
  <2> QED BY <1>1, <2>1, <2>2, <2>3, BeforeEscrow
<1> QED BY <1>2, <1>3, <1>4, <1>5

(* The resolution of an Open task says nothing of a dispute yet. *)
LEMMA InitializeResolutionKeeps ==
    ASSUME ModelInv, NEW a \in Arbitrators, InitializeResolution(a)
    PROVE  ModelInv' /\ SequenceKept
<1>1. NewResolution(a) \in TaskResolution
  BY ModelAssumption DEF NewResolution, TaskResolution, ResolutionState
<1>2. /\ resolution = None
      /\ resolution' = NewResolution(a)
      /\ resolution'.state = "Ready"
      /\ task.status = "Open"
      /\ UNCHANGED <<task, assignment, vault_liability, counters>> /\ Calm
  BY DEF InitializeResolution, NewResolution
<1>3. ModelTypeOK'
  BY <1>1, <1>2 DEF ModelInv, ModelTypeOK, counters, Calm
<1>4. /\ AssignmentMatches' /\ VaultMatches' /\ DisputeMatches' /\ CountersMatch'
      /\ TaskValid(task)'
  BY <1>2 DEF ModelInv, AssignmentMatches, VaultMatches, DisputeMatches, ResolutionIs,
              CountersMatch, counters
<1>5. SequenceKept
  BY <1>2 DEF SequenceKept, SelectedWorkerOnly
<1> QED BY <1>3, <1>4, <1>5 DEF ModelInv

(* Funding makes the vault and submitting leaves it alone. *)
LEMMA EscrowingKeeps ==
    ASSUME ModelInv, Fund \/ \E w \in Keys, e \in References : Submit(w, e)
    PROVE  ModelInv' /\ SequenceKept
<1>1. /\ task \in Task
      /\ task.reward_amount \in Nat
      /\ now \in Timestamps
  BY DEF ModelInv, ModelTypeOK, Task
<1>2. SUFFICES /\ task.status \in {"Accepted", "Funded"}
               /\ task' \in Task
               /\ TaskValid(task)'
               /\ task'.status \in {"Funded", "Submitted"}
               /\ task'.reward_amount = task.reward_amount
               /\ task'.worker = task.worker
               /\ vault_liability' = task.reward_amount
               /\ UNCHANGED <<assignment, resolution, counters>> /\ Calm
  <2>1. ModelTypeOK'
    BY <1>1, <1>2 DEF ModelInv, ModelTypeOK, counters, Calm
  <2>2. vault_liability' # None
    BY <1>1, <1>2, AccountsAssumption
  <2>3. AssignmentMatches' /\ VaultMatches' /\ DisputeMatches' /\ CountersMatch'
    BY <1>2, <2>2
    DEF ModelInv, AssignmentMatches, VaultMatches, DisputeMatches, ResolutionIs,
        CountersMatch, counters
  <2>4. SequenceKept
    BY <1>2 DEF SequenceKept, SelectedWorkerOnly
  <2> QED BY <1>2, <2>1, <2>3, <2>4 DEF ModelInv
<1>3. CASE Fund
  <2>1. /\ task.status = "Accepted"
        /\ TaskCanFund(task, now)
        /\ TaskValid(TaskFund(task, now))
        /\ task' = TaskFund(task, now)
        /\ vault_liability' = task.reward_amount
        /\ UNCHANGED <<assignment, resolution, counters>> /\ Calm
    BY <1>3 DEF Fund, TaskCanFund
  <2>2. TaskFund(task, now) \in Task
    BY <1>1, <2>1, TaskMethodsTyped
  <2>3. /\ task'.status = "Funded"
        /\ task'.reward_amount = task.reward_amount
        /\ task'.worker = task.worker
    BY <1>1, <2>1 DEF TaskFund, Task
  <2> QED BY <2>1, <2>2, <2>3
<1>4. CASE \E w \in Keys, e \in References : Submit(w, e)
  <2> PICK w \in Keys, e \in References : Submit(w, e) BY <1>4
  <2>1. /\ task.status = "Funded"
        /\ e \in Texts
        /\ TaskCanSubmit(task, w, e, now)
        /\ TaskValid(TaskSubmit(task, e, now))
        /\ task' = TaskSubmit(task, e, now)
        /\ UNCHANGED <<assignment, resolution, vault_liability, counters>> /\ Calm
    BY AccountsAssumption DEF Submit, TaskCanSubmit
  <2>2. TaskSubmit(task, e, now) \in Task
    BY <1>1, <2>1, TaskMethodsTyped
  <2>3. /\ task'.status = "Submitted"
        /\ task'.reward_amount = task.reward_amount
        /\ task'.worker = task.worker
    BY <1>1, <2>1 DEF TaskSubmit, Task
  <2>4. vault_liability = task.reward_amount
    BY <2>1 DEF ModelInv, VaultMatches
  <2> QED BY <2>1, <2>2, <2>3, <2>4
<1> QED BY <1>3, <1>4

(* The releases without a dispute: approval and the two timeouts. *)
LEMMA ReleaseKeeps ==
    ASSUME ModelInv, Pay \/ RefundAfterTimeout \/ ModelSettleTask
    PROVE  ModelInv' /\ SequenceKept
<1>1. /\ task \in Task
      /\ resolution \in Option(TaskResolution)
      /\ now \in Timestamps
  BY DEF ModelInv, ModelTypeOK
<1>2. CASE Pay \/ ModelSettleTask
  <2>1. /\ vault_liability # None
        /\ task.status = "Submitted"
        /\ TaskValid(TaskPay(task))
        /\ task' = TaskPay(task)
        /\ CloseVault("PayWorker")
        /\ UNCHANGED <<assignment, resolution, dispute_finish_count>> /\ Calm
    BY <1>2 DEF Pay, ModelSettleTask, TaskCanPayAfterTimeout, TaskCanPay, Close
  <2>2. TaskPay(task) \in Task
    BY <1>1, TaskMethodsTyped
  <2>3. /\ task'.status = "Paid"
        /\ task'.reward_amount = task.reward_amount
        /\ task'.worker = task.worker
    BY <1>1, <2>1 DEF TaskPay, Task
  <2>4. "PayWorker" \in DisputeOutcome
    BY DEF DisputeOutcome
  <2> QED BY <1>1, <2>1, <2>2, <2>3, <2>4, VaultClosed
<1>3. CASE RefundAfterTimeout
  <2>1. /\ vault_liability # None
        /\ task.status = "Funded"
        /\ TaskValid(TaskRefundAfterTimeout(task))
        /\ task' = TaskRefundAfterTimeout(task)
        /\ CloseVault("RefundCreator")
        /\ UNCHANGED <<assignment, resolution, dispute_finish_count>> /\ Calm
    BY <1>3 DEF RefundAfterTimeout, TaskCanRefundAfterTimeout, Close
  <2>2. TaskRefundAfterTimeout(task) \in Task
    BY <1>1, TaskMethodsTyped
  <2>3. /\ task'.status = "Cancelled"
        /\ task'.reward_amount = task.reward_amount
        /\ task'.worker = task.worker
    BY <1>1, <2>1 DEF TaskRefundAfterTimeout, Task
  <2>4. "RefundCreator" \in DisputeOutcome
    BY DEF DisputeOutcome
  <2> QED BY <1>1, <2>1, <2>2, <2>3, <2>4, VaultClosed
<1> QED BY <1>2, <1>3

(* A rejection opens the dispute in both accounts, or the test panics. *)
LEMMA RejectKeeps ==
    ASSUME ModelInv, NEW e \in References, Reject(e)
    PROVE  ModelInv' /\ SequenceKept
<1>1. /\ task \in Task
      /\ now \in Timestamps
      /\ resolution \in TaskResolution
      /\ resolution # None
      /\ resolution.state = "Ready"
      /\ task.status = "Submitted"
  BY DEF ModelInv, ModelTypeOK, Reject
<1>2. CASE panicked' = TRUE /\ UNCHANGED <<subject, now, counters>>
  BY <1>1, <1>2, SubjectStays
<1>3. CASE /\ TaskCanRejectSubmission(task, now)
           /\ ResolutionCanOpenDispute(resolution, now, e)
           /\ task' = TaskRejectSubmission(task)
           /\ resolution' = ResolutionOpenDispute(resolution, now, e)
           /\ UNCHANGED <<assignment, vault_liability, counters>>
           /\ Calm
  <2>1. TaskValid(TaskRejectSubmission(task)) /\ e \in Texts
    BY <1>3, AccountsAssumption DEF TaskCanRejectSubmission, ResolutionCanOpenDispute
  <2>2. TaskRejectSubmission(task) \in Task
    BY <1>1, TaskMethodsTyped
  <2>3. ResolutionOpenDispute(resolution, now, e) \in TaskResolution
    BY <1>1, <1>3, <2>1, ResolutionMethodsTyped
  <2>4. /\ task'.status = "Disputed"
        /\ task'.reward_amount = task.reward_amount
        /\ task'.worker = task.worker
    BY <1>1, <1>3 DEF TaskRejectSubmission, Task
  <2>5. resolution'.state = "Disputed"
    BY <1>1, <1>3 DEF ResolutionOpenDispute, TaskResolution
  <2>6. resolution' # None
    BY <1>3, <2>3, ModelAssumption
  <2>7. ModelTypeOK'
    BY <1>3, <2>2, <2>3 DEF ModelInv, ModelTypeOK, counters, Calm
  <2>8. AssignmentMatches' /\ VaultMatches' /\ DisputeMatches' /\ CountersMatch'
    BY <1>1, <1>3, <2>4, <2>5, <2>6
    DEF ModelInv, AssignmentMatches, VaultMatches, DisputeMatches, ResolutionIs,
        CountersMatch, counters
  <2>9. SequenceKept
    BY <1>1, <2>4 DEF SequenceKept, SelectedWorkerOnly
  <2> QED BY <1>3, <2>1, <2>7, <2>8, <2>9 DEF ModelInv
<1> QED BY <1>2, <1>3 DEF Reject, Unwrap

(* The three ends of a dispute finish both accounts and close the vault. *)
LEMMA DisputeKeeps ==
    ASSUME ModelInv, NEW outcome \in DisputeOutcome, vault_liability # None,
           resolution # None, RequireDisputed(resolution), Finish(outcome)
    PROVE  ModelInv' /\ SequenceKept
<1>1. /\ task \in Task
      /\ now \in Timestamps
      /\ resolution \in TaskResolution
  BY DEF ModelInv, ModelTypeOK
<1>2. CASE panicked' = TRUE /\ UNCHANGED <<subject, now, counters>>
  BY <1>1, <1>2, SubjectStays
<1>3. CASE /\ TaskCanResolveDispute(task, outcome)
           /\ resolution' = ResolutionFinish(resolution, outcome)
           /\ task' = TaskResolveDispute(task, outcome)
           /\ dispute_finish_count' = dispute_finish_count + 1
           /\ CloseVault(outcome)
           /\ UNCHANGED assignment
           /\ Calm
  <2>1. TaskValid(TaskResolveDispute(task, outcome)) /\ task.status = "Disputed"
    BY <1>3 DEF TaskCanResolveDispute
  <2>2. TaskResolveDispute(task, outcome) \in Task
    BY <1>1, TaskMethodsTyped
  <2>3. ResolutionFinish(resolution, outcome) \in TaskResolution
    BY <1>1, ResolutionMethodsTyped
  <2>4. /\ task'.status = (IF outcome = "PayWorker" THEN "Paid" ELSE "Refunded")
        /\ task'.reward_amount = task.reward_amount
        /\ task'.worker = task.worker
    BY <1>1, <1>3 DEF TaskResolveDispute, Task
  <2>5. resolution'.state = "Resolved"
    BY <1>1, <1>3 DEF ResolutionFinish, TaskResolution
  <2>6. resolution' # None
    BY <1>3, <2>3, ModelAssumption
  <2> QED BY <1>3, <2>1, <2>2, <2>3, <2>4, <2>5, <2>6, VaultClosed
<1> QED BY <1>2, <1>3 DEF Finish, Unwrap

(* The clock moves to any deadline of the task, forwards or backwards. *)
LEMMA ClockKeeps ==
    ASSUME ModelInv,
           \/ AdvanceOneSecond
           \/ AdvanceTo(task.submission_deadline)
           \/ AdvanceTo(task.review_deadline)
           \/ resolution # None /\ AdvanceTo(resolution.arbitration_deadline)
    PROVE  ModelInv' /\ SequenceKept
<1>1. now' \in Timestamps
  BY AccountsAssumption
  DEF ModelInv, ModelTypeOK, Task, TaskResolution, AdvanceOneSecond, AdvanceTo
<1>2. UNCHANGED <<subject, counters>> /\ panicked' \in BOOLEAN
  BY DEF AdvanceOneSecond, AdvanceTo, ModelInv, ModelTypeOK
<1> QED BY <1>1, <1>2, SubjectStays

-----------------------------------------------------------------------------
(***************************************************************************)
(* All sequences of actions                                                *)
(***************************************************************************)

(* The model starts with an Open task and all counters at zero. *)
LEMMA ModelInitHolds == ModelInit => ModelInv
<1> SUFFICES ASSUME ModelInit PROVE ModelInv OBVIOUS
<1>1. PICK reward \in RewardAmounts : task = NewTask(Creator, reward)
  BY DEF ModelInit
<1>2. NewTask(Creator, reward) \in Task
  BY ModelAssumption DEF NewTask, Task, TaskStatus
<1>3. TaskValid(task) /\ task.status = "Open"
  BY <1>1 DEF NewTask, TaskValid
<1>4. ModelTypeOK
  <2>1. task \in Task
    BY <1>1, <1>2
  <2>2. 0 \in Timestamps
    BY AccountsAssumption
  <2>3. panicked \in BOOLEAN
    BY DEF ModelInit
  <2> QED BY <2>1, <2>2, <2>3 DEF ModelInit, ModelTypeOK
<1>5. AssignmentMatches /\ VaultMatches /\ DisputeMatches /\ CountersMatch
  BY <1>3 DEF ModelInit, AssignmentMatches, VaultMatches, DisputeMatches, ResolutionIs,
              CountersMatch
<1> QED BY <1>3, <1>4, <1>5 DEF ModelInv

(* Every action of the test keeps the invariant and the assertions about   *)
(* it.                                                                     *)
LEMMA ModelNextKeeps == ModelInv /\ [ModelNext]_modelVars => ModelInv' /\ SequenceKept
<1> SUFFICES ASSUME ModelInv, [ModelNext]_modelVars PROVE ModelInv' /\ SequenceKept
  OBVIOUS
<1>1. CASE \/ \E w \in Selectable : Assign(w)
           \/ \E w \in Keys : ModelAcceptAssignment(w) \/ ModelAcceptTask(w)
           \/ Cancel
  BY <1>1, HiringKeeps
<1>2. CASE \E a \in Arbitrators : InitializeResolution(a)
  BY <1>2, InitializeResolutionKeeps
<1>3. CASE Fund \/ \E w \in Keys, e \in References : Submit(w, e)
  BY <1>3, EscrowingKeeps
<1>4. CASE Pay \/ RefundAfterTimeout \/ ModelSettleTask
  BY <1>4, ReleaseKeeps
<1>5. CASE \E e \in References : Reject(e)
  BY <1>5, RejectKeeps
<1>6. CASE \E outcome \in DisputeOutcome : Resolve(outcome) \/ ResolveByAgreement(outcome)
  BY <1>6, DisputeKeeps
  DEF Resolve, ResolveByAgreement, ResolutionCanResolve, ResolutionCanResolveByAgreement
<1>7. CASE ModelSettleDispute
  <2>1. "PayWorker" \in DisputeOutcome
    BY DEF DisputeOutcome
  <2> QED BY <1>7, <2>1, DisputeKeeps
          DEF ModelSettleDispute, ResolutionCanSettleAfterTimeout
<1>8. CASE \/ AdvanceOneSecond
           \/ AdvanceTo(task.submission_deadline)
           \/ AdvanceTo(task.review_deadline)
           \/ resolution # None /\ AdvanceTo(resolution.arbitration_deadline)
  BY <1>8, ClockKeeps
<1>9. CASE UNCHANGED modelVars
  BY <1>9, SubjectStays DEF ModelInv, ModelTypeOK, modelVars
<1> QED BY <1>1, <1>2, <1>3, <1>4, <1>5, <1>6, <1>7, <1>8, <1>9 DEF ModelNext

(* The inductive invariant: the accounts of the model agree, and its       *)
(* counters can be read off them.                                          *)
THEOREM ModelAlwaysAgrees == ModelSpec => []ModelInv
<1>1. ModelInv /\ [ModelNext]_modelVars => ModelInv'
  BY ModelNextKeeps
<1> QED BY ModelInitHolds, <1>1, PTL DEF ModelSpec

(* assert_invariants of the property tests holds after every sequence of   *)
(* actions, of any length: the escrow is released at most once, for at     *)
(* most the reward.                                                        *)
THEOREM AssertionsHold == ModelSpec => []AssertInvariants
<1>1. ModelInv => AssertInvariants
  BY AccountsAssumption
  DEF ModelInv, ModelTypeOK, TaskValid, VaultMatches, DisputeMatches, ResolutionIs,
      CountersMatch, AssertInvariants, Task
<1> QED BY <1>1, ModelAlwaysAgrees, PTL

(* The assertions of check_model_sequence hold of every action after       *)
(* every sequence: a finished task never moves again, a dispute ends only  *)
(* by being finished, and an assigned task goes to the selected worker.    *)
THEOREM SequencesHold == ModelSpec => AssertSequences
<1>1. ModelInv /\ [ModelNext]_modelVars => SequenceKept
  BY ModelNextKeeps
<1>2. SequenceKept =>
        [/\ task.status \in {"Paid", "Refunded", "Cancelled"} =>
              UNCHANGED <<subject, counters>>
         /\ (task.status = "Disputed" /\ task'.status # "Disputed") =>
              dispute_finish_count' = dispute_finish_count + 1
         /\ (assignment # None /\ task'.worker # task.worker) =>
              task'.worker = assignment.selected_worker]_modelVars
  BY DEF SequenceKept, SelectedWorkerOnly
<1> QED BY <1>1, <1>2, ModelAlwaysAgrees, PTL DEF ModelSpec, AssertSequences
=============================================================================
