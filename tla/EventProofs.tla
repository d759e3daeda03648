----------------------------- MODULE EventProofs -----------------------------
(***************************************************************************)
(* What a reader of the events may rely on, proved for every behaviour of  *)
(* the program with its log.  An event is judged when it is emitted        *)
(* (Announces, one case per instruction) and again after every later step: *)
(* it stays true because the accounts it quotes are written at most once,  *)
(* which is what MarketplaceSteps proves of them.                          *)
(***************************************************************************)
EXTENDS EventProperties, MarketplaceSteps

USE DEF Option, Timestamps, Pubkeys

(* The events that are put into the log of a task. *)
TaskEvents == {"TaskCreated", "TaskResolutionInitialized", "WorkerAssigned",
               "AssignmentAccepted", "TaskAccepted", "TaskFunded", "TaskSubmitted",
               "SubmissionRejected"} \cup Final

TaskEvent ==
    [event      : TaskEvents,
     creator    : Keys,
     actor      : Keys,
     at         : Timestamps,
     worker     : Option(Keys),
     arbitrator : Option(Keys),
     deadline   : Option(Timestamps),
     reward     : Option(Nat),
     outcome    : Option(DisputeOutcome)]

Deadlined == {"TaskFunded", "TaskSubmitted", "SubmissionRejected",
              "TaskRefundedAfterTimeout", "TaskSettledAfterTimeout"}

(* The accounts that an event quotes exist, and the amounts and deadlines  *)
(* that its kind announces are there.                                      *)
Backed(e, id) ==
    /\ e.arbitrator # None \/ e.outcome # None \/ e.event = "SubmissionRejected" =>
         resolution[id] # None
    /\ e.event \in {"WorkerAssigned", "AssignmentAccepted"} => assignment[id] # None
    /\ e.event \in Deadlined => e.deadline # None
    /\ e.event \in Releasing \cup {"TaskFunded"} => e.reward # None
    /\ e.event = "TaskCancelled" => HasStatus(id, {"Cancelled"})

(* How far a task has come, as the rank of the last event it can have. *)
Stage(id) ==
    CASE StatusOf(id) = "Absent"    -> 0
      [] StatusOf(id) = "Open"      -> (IF resolution[id] = None THEN 1 ELSE 2)
      [] StatusOf(id) = "Assigned"  -> 3
      [] StatusOf(id) = "Accepted"  -> 4
      [] StatusOf(id) = "Funded"    -> 5
      [] StatusOf(id) = "Submitted" -> 6
      [] StatusOf(id) = "Disputed"  -> 7
      [] StatusOf(id) \in Terminal  -> 8

(* The log of a task tells no less and no more than its accounts. *)
LogAgrees(id) ==
    LET log == taskLog[id]
    IN /\ Exists(id) <=> log # <<>>
       /\ Exists(id) => task[id].status = StatusAfter(log[Len(log)])
       /\ \A i \in DOMAIN log : Rank(log[i]) <= Stage(id) /\ log[i].at <= now
       /\ \A i, j \in DOMAIN log : i < j =>
             Rank(log[i]) < Rank(log[j]) /\ log[i].at <= log[j].at
       /\ \A e \in Entries(id) : EventIsTrue(e, id) /\ Backed(e, id)
       /\ WasFunded(id) <=> \E e \in Entries(id) : e.event = "TaskFunded"
       /\ (WasFunded(id) /\ vault[id] = None) <=>
             \E e \in Entries(id) : e.event \in Releasing

LogInv ==
    /\ taskLog \in [TaskIds -> Seq(TaskEvent)]
    /\ \A id \in TaskIds : LogAgrees(id)

-----------------------------------------------------------------------------
(***************************************************************************)
(* The program with its log is the program                                 *)
(***************************************************************************)

(* A step that emits an event is the step of the instruction that emits it. *)
LEMMA LogStepIsStep ==
    ASSUME [LogNext]_<<vars, logs>>
    PROVE  [Next]_vars
<1>1. LogSetup => Setup
  BY DEF LogSetup, Setup, EmittingCreateCreatorProfile, EmittingCreateTask
<1>2. ASSUME NEW id \in TaskIds PROVE LogPreparation(id) => Preparation(id)
  BY DEF LogPreparation, Preparation, EmittingInitializeTaskResolution,
         EmittingAssignWorker, EmittingAcceptAssignment, EmittingAcceptTask,
         EmittingCancelTask
<1>3. ASSUME NEW id \in TaskIds PROVE LogDelivery(id) => Delivery(id)
  BY DEF LogDelivery, Delivery, EmittingFundTask, EmittingSubmitTask,
         EmittingRefundTaskAfterTimeout, EmittingPayTask, EmittingSettleTaskAfterTimeout
<1>4. ASSUME NEW id \in TaskIds PROVE LogDispute(id) => Dispute(id)
  BY DEF LogDispute, Dispute, EmittingRejectSubmission, EmittingResolveDispute,
         EmittingResolveDisputeByAgreement, EmittingSettleDisputeAfterTimeout
<1> QED BY <1>1, <1>2, <1>3, <1>4 DEF LogNext, Next, Silent

-----------------------------------------------------------------------------
(***************************************************************************)
(* The accounts an event quotes                                            *)
(***************************************************************************)

(* An assignment stays, with its worker and the time it was accepted. *)
LEMMA AssignmentStays ==
    ASSUME IInv, [Next]_vars, NEW id \in TaskIds, assignment[id] # None
    PROVE  /\ assignment'[id] # None
           /\ assignment'[id].selected_worker = assignment[id].selected_worker
           /\ SetOnce(assignment[id].accepted_at, assignment'[id].accepted_at)
<1>0. /\ TypeOK /\ AccountsAgree(id)
      /\ assignment[id] \in WorkerAssignment
  BY DEF IInv, TypeOK
<1>1. CASE assignment'[id] = assignment[id]
  BY <1>1 DEF SetOnce
<1>2. CASE Hires(id)
  <2>1. /\ Exists(id) /\ task[id].worker = None
        /\ \/ assignment'[id] = assignment[id]
           \/ assignment'[id] = AssignmentAccept(assignment[id], now)
    BY <1>0, <1>2, Written DEF Hires, HasStatus
  <2>2. assignment[id].accepted_at = None
    BY <1>0, <2>1 DEF AccountsAgree, AssignmentAgrees
  <2>3. CASE assignment'[id] = AssignmentAccept(assignment[id], now)
    <3>1. assignment'[id] \in WorkerAssignment
      BY <1>0, <2>3 DEF AssignmentAccept, WorkerAssignment, TypeOK
    <3> QED BY <1>0, <2>2, <2>3, <3>1, MarketplaceAssumption
        DEF AssignmentAccept, WorkerAssignment, SetOnce
  <2> QED BY <1>1, <2>1, <2>3
<1> QED BY <1>0, <1>1, <1>2, StepOfTask, Written
    DEF Instruction, Creates, NamesArbitrator, SelectsWorker, Cancels, Funds, Submits,
        PaysSubmission, Refunds, Rejects, Settles

(* A resolution account is never closed. *)
LEMMA ResolutionStays ==
    ASSUME IInv, [Next]_vars, NEW id \in TaskIds, resolution[id] # None
    PROVE  resolution'[id] # None
<1>0. TypeOK /\ AccountsAgree(id)
  BY DEF IInv
<1>1. CASE task[id].status # "Open"
  <2>1. Exists(id)
    BY <1>0 DEF AccountsAgree, ResolutionAgrees
  <2> QED BY <1>1, <2>1, ArbitratorKept DEF KeepsArbitrator
<1>2. CASE task[id].status = "Open"
  <2>1. CASE \/ Creates(id) \/ NamesArbitrator(id) \/ SelectsWorker(id) \/ Hires(id)
             \/ Cancels(id)
    BY <1>0, <2>1, Written
    DEF Creates, NamesArbitrator, SelectsWorker, Hires, Cancels
  <2> QED BY <1>2, <2>1, StepOfTask
      DEF Instruction, Funds, Submits, PaysSubmission, Refunds, Rejects, Settles, HasStatus
<1> QED BY <1>1, <1>2

(* A task is never closed, and its creator and its reward never change. *)
LEMMA TermsStay ==
    ASSUME IInv, [Next]_vars, NEW id \in TaskIds, Exists(id)
    PROVE  /\ Exists(id)'
           /\ task'[id].creator = task[id].creator
           /\ task'[id].reward_amount = task[id].reward_amount
<1>0. TypeOK /\ task[id] \in Task
  BY DEF IInv, TypeOK, Exists
<1>1. CASE task'[id] = task[id]
  BY <1>1 DEF Exists
<1>2. CASE Instruction(id)
  <2>1. Exists(id)'
    BY <1>2, TasksStay DEF Creates
  <2>2. \/ task'[id] = task[id]
        \/ task'[id] = TaskAssignWorker(task[id])
        \/ \E w \in Keys : task'[id] = TaskAccept(task[id], w)
        \/ task'[id] = TaskCancel(task[id])
        \/ task'[id] = TaskFund(task[id], now)
        \/ \E reference \in ValidTexts : task'[id] = TaskSubmit(task[id], reference, now)
        \/ task'[id] = TaskPay(task[id])
        \/ task'[id] = TaskRefundAfterTimeout(task[id])
        \/ task'[id] = TaskRejectSubmission(task[id])
        \/ \E outcome \in DisputeOutcome : task'[id] = TaskResolveDispute(task[id], outcome)
    BY <1>0, <1>2, Written
    DEF Instruction, Creates, NamesArbitrator, SelectsWorker, Hires, Cancels, Funds,
        Submits, PaysSubmission, Refunds, Rejects, Settles
  <2> QED BY <1>0, <2>1, <2>2
      DEF Task, TaskAssignWorker, TaskAccept, TaskCancel, TaskFund, TaskSubmit, TaskPay,
          TaskRefundAfterTimeout, TaskRejectSubmission, TaskResolveDispute
<1> QED BY <1>1, <1>2, StepOfTask

(* What an event says of the accounts, once true, is true after any step. *)
LEMMA EventStaysTrue ==
    ASSUME IInv, [Next]_vars, NEW id \in TaskIds, Exists(id), NEW e \in TaskEvent,
           EventIsTrue(e, id), Backed(e, id)
    PROVE  EventIsTrue(e, id)' /\ Backed(e, id)'
<1> USE AccountsAssumption
<1>1. KeepsEvidence(id) /\ KeepsArbitrator(id)
  BY EvidenceKept, ArbitratorKept
<1>2. /\ Exists(id)' /\ e.creator = task'[id].creator
      /\ e.reward # None => e.reward = task'[id].reward_amount
  BY TermsStay DEF EventIsTrue
<1>3. e.event \in {"WorkerAssigned", "AssignmentAccepted"} =>
         /\ assignment'[id] # None
         /\ e.event = "WorkerAssigned" => e.worker = assignment'[id].selected_worker
         /\ e.event = "AssignmentAccepted" => e.at = assignment'[id].accepted_at
  BY AssignmentStays DEF EventIsTrue, Backed, RecordedTime, TaskEvent, SetOnce
<1>4. e.event = "TaskCancelled" => HasStatus(id, {"Cancelled"})' /\ e.worker = task'[id].worker
  BY SettledStays DEF EventIsTrue, Backed, HasStatus, Terminal, StaysSettled, Exists
<1>5. e.event # "WorkerAssigned" /\ e.worker # None => e.worker = task'[id].worker
  BY <1>1 DEF EventIsTrue, KeepsEvidence, SetOnce
<1>6. e.arbitrator # None \/ e.outcome # None \/ e.event = "SubmissionRejected" =>
         /\ resolution'[id] # None
         /\ e.arbitrator # None => e.arbitrator = resolution'[id].arbitration_authority
         /\ e.outcome # None => e.outcome = resolution'[id].outcome
         /\ e.event = "SubmissionRejected" =>
              /\ e.deadline = resolution'[id].arbitration_deadline
              /\ e.at = resolution'[id].opened_at
  BY <1>1, ResolutionStays
  DEF EventIsTrue, Backed, KeepsEvidence, KeepsArbitrator, SetOnce, DeadlineOf, RecordedTime,
      Deadlined, TaskEvent
<1>7. e.deadline = DeadlineOf(e, id)'
  BY <1>1, <1>6 DEF EventIsTrue, Backed, DeadlineOf, Deadlined, KeepsEvidence, SetOnce
<1>8. e.at = RecordedTime(e, id)'
  BY <1>1, <1>3, <1>6, <1>7
  DEF EventIsTrue, RecordedTime, Backed, DeadlineOf, Deadlined, KeepsEvidence, SetOnce, TaskEvent
<1>9. EventIsTrue(e, id)'
  BY <1>2, <1>3, <1>4, <1>5, <1>6, <1>7, <1>8 DEF EventIsTrue
<1>10. Backed(e, id)'
  BY <1>3, <1>4, <1>6 DEF Backed
<1> QED BY <1>9, <1>10

-----------------------------------------------------------------------------
(***************************************************************************)
(* What an instruction announces                                           *)
(***************************************************************************)

(* The vault is emptied, towards the parties and in the amounts of e. *)
Releases(id, e) ==
    /\ WasFunded(id)
    /\ vault[id] # None /\ vault'[id] = None
    /\ wallet' = [wallet EXCEPT
                    ![e.worker]  = @ + PaidOut(e),
                    ![e.creator] = @ + (vaultBalance[id] - PaidOut(e))]

(* The vault is as full as before, or filled. *)
Retains(id) ==
    /\ (WasFunded(id)' /\ vault'[id] = None) <=> (WasFunded(id) /\ vault[id] = None)
    /\ vaultBalance'[id] >= vaultBalance[id]

(* The instruction takes the task to a later stage, and its event is true. *)
Announces(id, e) ==
    /\ Instruction(id)
    /\ e \in TaskEvent /\ e.at = now
    /\ Exists(id)' /\ task'[id].status = StatusAfter(e)
    /\ Stage(id) < Rank(e) /\ Rank(e) = Stage(id)'
    /\ EventIsTrue(e, id)' /\ Backed(e, id)'
    /\ WasFunded(id)' <=> WasFunded(id) \/ e.event = "TaskFunded"
    /\ IF e.event \in Releasing THEN Releases(id, e) ELSE Retains(id)

(* An instruction that leaves the money alone retains every vault. *)
LEMMA MoneyRetained ==
    ASSUME TypeOK, NEW id \in TaskIds, WasFunded(id)' <=> WasFunded(id),
           UNCHANGED <<vault, vaultBalance>>
    PROVE  Retains(id)
BY DEF Retains, TypeOK

(* A new task is announced with the creator and the reward it was          *)
(* created with.                                                           *)
LEMMA CreationAnnounced ==
    ASSUME IInv, NEW k \in Creators, NEW n \in 1 .. MaxTaskCount,
           NEW title \in Texts, NEW description \in Texts, NEW r \in Rewards,
           EmittingCreateTask(k, n, title, description, r)
    PROVE  \E id \in TaskIds : \E e : Emit(id, e) /\ Announces(id, e)
<1> USE AccountsAssumption
<1> DEFINE id == <<k, n>>
<1>0. id \in TaskIds /\ k \in Keys /\ TypeOK /\ now \in Timestamps
  BY MarketplaceAssumption DEF TaskIds, IInv, TypeOK
<1>1. CreateTask(k, n, title, description, r) /\ ~Exists(id)
  BY DEF EmittingCreateTask, CreateTask, CanCreateTask
<1>2. task'[id] = NewTask(k, r) /\ task'[id] # None
  <2>1. NewTask(k, r) \in Task
    BY <1>0, MarketplaceAssumption DEF NewTask, Task, TaskStatus
  <2> QED BY <1>0, <1>1, <2>1, MarketplaceAssumption DEF CreateTask, TypeOK
<1>3. PICK e : e = TaskCreated(k, r)
  OBVIOUS
<1>4. Emit(id, e)
  BY <1>3 DEF EmittingCreateTask
<1> HIDE DEF id
<1>5. resolution[id] = None /\ UNCHANGED <<resolution, vault, vaultBalance>>
  BY <1>0, <1>1 DEF CreateTask, IInv, AccountsAgree, ResolutionAgrees
<1>6. /\ e \in TaskEvent /\ e.at = now
      /\ e.event = "TaskCreated" /\ e.creator = k /\ e.reward = r
      /\ e.worker = None /\ e.arbitrator = None /\ e.outcome = None /\ e.deadline = None
  BY <1>0, <1>3, MarketplaceAssumption DEF TaskCreated, Event, TaskEvent, TaskEvents
<1>7. StatusAfter(e) = "Open" /\ Rank(e) = 1
  BY <1>6 DEF StatusAfter, Rank, Final, Releasing, DisputeOutcome
<1>8. Stage(id) = 0 /\ Stage(id)' = 1 /\ Exists(id)' /\ task'[id].status = "Open"
  <2>1. StatusOf(id) = "Absent" /\ StatusOf(id)' = "Open" /\ resolution'[id] = None
    BY <1>1, <1>2, <1>5 DEF StatusOf, Exists, NewTask
  <2>2. Stage(id) = 0 /\ Stage(id)' = 1
    BY <2>1 DEF Stage, Terminal
  <2> QED BY <1>2, <2>2 DEF Exists, NewTask
<1>9. EventIsTrue(e, id)' /\ Backed(e, id)'
  BY <1>2, <1>6
  DEF EventIsTrue, Backed, DeadlineOf, RecordedTime, Deadlined, Releasing, NewTask
<1>10. ~WasFunded(id) /\ ~WasFunded(id)'
  BY <1>1, <1>2 DEF WasFunded, NewTask
<1>11. Instruction(id)
  <2>1. [Next]_vars
    BY <1>1 DEF Next, Setup
  <2> QED BY <1>0, <1>1, <1>2, <2>1, StepOfTask DEF Exists
<1> QED BY <1>0, <1>4, <1>5, <1>6, <1>7, <1>8, <1>9, <1>10, <1>11, MoneyRetained
    DEF Announces, Releasing

(* The instructions before the escrow announce what their accounts then    *)
(* say.                                                                    *)
LEMMA PreparationAnnounced ==
    ASSUME IInv, NEW id \in TaskIds, LogPreparation(id)
    PROVE  \E e : Emit(id, e) /\ Announces(id, e)
<1> USE AccountsAssumption
<1>0. /\ TypeOK /\ now \in Timestamps
      /\ Exists(id) => AccountsAgree(id) /\ task[id] \in Task
  BY DEF IInv, TypeOK, Exists
<1>a. Preparation(id) /\ Instruction(id)
  <2>1. Preparation(id)
    BY DEF LogPreparation, Preparation, EmittingInitializeTaskResolution,
           EmittingAssignWorker, EmittingAcceptAssignment, EmittingAcceptTask,
           EmittingCancelTask
  <2> QED BY <2>1, PreparationStep
<1>1. ASSUME NEW k \in Keys, NEW p \in Pubkeys, EmittingInitializeTaskResolution(k, id, p)
      PROVE  \E e : Emit(id, e) /\ Announces(id, e)
  <2>1. PICK e : e = TaskResolutionInitialized(k, p)
    OBVIOUS
  <2>2. Emit(id, e)
    BY <1>1, <2>1 DEF EmittingInitializeTaskResolution
  <2>3. /\ Exists(id) /\ task[id].status = "Open" /\ task[id].creator = k
        /\ resolution[id] = None /\ p \in Keys
        /\ resolution' = [resolution EXCEPT ![id] = NewResolution(p)]
        /\ UNCHANGED <<task, vault, vaultBalance>>
    BY <1>1 DEF EmittingInitializeTaskResolution, InitializeTaskResolution,
                CanInitializeTaskResolution, SignedByCreator
  <2>4. resolution'[id] = NewResolution(p) /\ resolution'[id] # None
    <3>1. NewResolution(p) \in TaskResolution
      BY <2>3 DEF NewResolution, TaskResolution, ResolutionState
    <3> QED BY <1>0, <2>3, <3>1, MarketplaceAssumption DEF TypeOK
  <2>5. /\ e \in TaskEvent /\ e.at = now
        /\ e.event = "TaskResolutionInitialized" /\ e.creator = k /\ e.arbitrator = p
        /\ e.worker = None /\ e.deadline = None /\ e.reward = None /\ e.outcome = None
    BY <1>0, <2>1, <2>3 DEF TaskResolutionInitialized, Event, TaskEvent, TaskEvents
  <2>6. StatusAfter(e) = "Open" /\ Rank(e) = 2
    BY <2>5 DEF StatusAfter, Rank, Final, Releasing, DisputeOutcome
  <2>7. Stage(id) = 1 /\ Stage(id)' = 2
    BY <2>3, <2>4 DEF Stage, StatusOf, Exists, Terminal
  <2>8. EventIsTrue(e, id)' /\ Backed(e, id)'
    BY <2>3, <2>4, <2>5
    DEF EventIsTrue, Backed, DeadlineOf, RecordedTime, Deadlined, Releasing, NewResolution
  <2>9. WasFunded(id)' <=> WasFunded(id)
    BY <2>3 DEF WasFunded, Exists
  <2> QED BY <1>0, <1>a, <2>2, <2>3, <2>5, <2>6, <2>7, <2>8, <2>9, MoneyRetained
      DEF Announces, Releasing, Exists
<1>2. ASSUME NEW k \in Keys, NEW p \in Pubkeys, EmittingAssignWorker(k, id, p)
      PROVE  \E e : Emit(id, e) /\ Announces(id, e)
  <2>1. PICK e : e = WorkerAssigned(k, p)
    OBVIOUS
  <2>2. Emit(id, e)
    BY <1>2, <2>1 DEF EmittingAssignWorker
  <2>3. /\ Exists(id) /\ task[id].status = "Open" /\ task[id].creator = k /\ p \in Keys
        /\ task' = [task EXCEPT ![id] = TaskAssignWorker(@)]
        /\ assignment' = [assignment EXCEPT ![id] = NewAssignment(p)]
        /\ UNCHANGED <<resolution, vault, vaultBalance>>
    BY <1>2 DEF EmittingAssignWorker, AssignWorker, CanAssignWorker, TaskCanAssignWorker, SignedByCreator
  <2>4. assignment'[id] = NewAssignment(p) /\ assignment'[id] # None
    <3>1. NewAssignment(p) \in WorkerAssignment
      BY <2>3 DEF NewAssignment, WorkerAssignment
    <3> QED BY <1>0, <2>3, <3>1, MarketplaceAssumption DEF TypeOK
  <2>5. /\ Exists(id)' /\ task'[id].status = "Assigned" /\ task'[id].creator = k
        /\ task'[id].funded_at = task[id].funded_at
    <3>1. task'[id] = TaskAssignWorker(task[id]) /\ task'[id] \in Task
      BY <1>0, <2>3 DEF TypeOK, TaskAssignWorker, Task, TaskStatus
    <3> QED BY <1>0, <2>3, <3>1, MarketplaceAssumption DEF Exists, TaskAssignWorker, Task
  <2>6. /\ e \in TaskEvent /\ e.at = now
        /\ e.event = "WorkerAssigned" /\ e.creator = k /\ e.worker = p
        /\ e.arbitrator = None /\ e.deadline = None /\ e.reward = None /\ e.outcome = None
    BY <1>0, <2>1, <2>3 DEF WorkerAssigned, Event, TaskEvent, TaskEvents
  <2>7. StatusAfter(e) = "Assigned" /\ Rank(e) = 3
    BY <2>6 DEF StatusAfter, Rank, Final, Releasing, DisputeOutcome
  <2>8. Stage(id) < 3 /\ Stage(id)' = 3
    BY <2>3, <2>5 DEF Stage, StatusOf, Terminal
  <2>9. EventIsTrue(e, id)' /\ Backed(e, id)'
    BY <2>4, <2>5, <2>6
    DEF EventIsTrue, Backed, DeadlineOf, RecordedTime, Deadlined, Releasing, NewAssignment
  <2>10. WasFunded(id)' <=> WasFunded(id)
    BY <2>3, <2>5 DEF WasFunded
  <2> QED BY <1>0, <1>a, <2>2, <2>3, <2>5, <2>6, <2>7, <2>8, <2>9, <2>10, MoneyRetained
      DEF Announces, Releasing
<1>3. ASSUME NEW w \in Keys,
             EmittingAcceptAssignment(w, id) \/ EmittingAcceptTask(w, id)
      PROVE  \E e : Emit(id, e) /\ Announces(id, e)
  <2>1. PICK e : \/ /\ AcceptAssignment(w, id) /\ Emit(id, e)
                    /\ e = AssignmentAccepted(task'[id].creator, w)
                 \/ /\ AcceptTask(w, id) /\ Emit(id, e)
                    /\ e = TaskAccepted(task'[id].creator, w)
    BY <1>3 DEF EmittingAcceptAssignment, EmittingAcceptTask
  <2>2. /\ Exists(id) /\ task[id].status \in {"Open", "Assigned"}
        /\ task' = [task EXCEPT ![id] = TaskAccept(@, w)]
        /\ UNCHANGED <<resolution, vault, vaultBalance>>
    BY <2>1 DEF AcceptAssignment, CanAcceptAssignment, AcceptTask, TaskCanAcceptAssignment, TaskCanAccept,
                TaskAcceptAssignment, TaskAccept
  <2>3. /\ Exists(id)' /\ task'[id].status = "Accepted" /\ task'[id].worker = w
        /\ task'[id].creator = task[id].creator
        /\ task'[id].funded_at = task[id].funded_at
    <3>1. task[id] \in Task /\ task'[id] = TaskAccept(task[id], w)
      BY <1>0, <2>2 DEF TypeOK
    <3>2. task'[id] \in Task
      BY <3>1 DEF TaskAccept, Task, TaskStatus
    <3>3. Exists(id)'
      BY <3>2, MarketplaceAssumption DEF Exists
    <3> QED BY <3>1, <3>3 DEF TaskAccept, Task
  <2>4. /\ e \in TaskEvent /\ e.at = now
        /\ e.event \in {"AssignmentAccepted", "TaskAccepted"}
        /\ e.event = "AssignmentAccepted" => AcceptAssignment(w, id)
        /\ e.creator = task'[id].creator /\ e.worker = w
        /\ e.arbitrator = None /\ e.deadline = None /\ e.reward = None /\ e.outcome = None
    <3>1. task'[id].creator \in Keys
      BY <1>0, <2>2, <2>3 DEF Task
    <3> QED BY <1>0, <2>1, <3>1
        DEF AssignmentAccepted, TaskAccepted, Event, TaskEvent, TaskEvents
  <2>5. StatusAfter(e) = "Accepted" /\ Rank(e) = 4
    BY <2>4 DEF StatusAfter, Rank, Final, Releasing, DisputeOutcome
  <2>6. Stage(id) < 4 /\ Stage(id)' = 4
    BY <2>2, <2>3 DEF Stage, StatusOf, Terminal
  <2>7. AcceptAssignment(w, id) =>
           assignment'[id] # None /\ assignment'[id].accepted_at = now
    <3> SUFFICES ASSUME AcceptAssignment(w, id)
                 PROVE  assignment'[id] # None /\ assignment'[id].accepted_at = now
      OBVIOUS
    <3>1. /\ assignment[id] \in WorkerAssignment
          /\ assignment'[id] = AssignmentAccept(assignment[id], now)
      BY <1>0 DEF AcceptAssignment, CanAcceptAssignment, TypeOK
    <3>2. assignment'[id] \in WorkerAssignment
      BY <1>0, <3>1 DEF AssignmentAccept, WorkerAssignment
    <3> QED BY <3>1, <3>2, MarketplaceAssumption DEF AssignmentAccept, WorkerAssignment
  <2>8. EventIsTrue(e, id)' /\ Backed(e, id)'
    BY <2>3, <2>4, <2>7
    DEF EventIsTrue, Backed, DeadlineOf, RecordedTime, Deadlined, Releasing
  <2>9. WasFunded(id)' <=> WasFunded(id)
    BY <2>2, <2>3 DEF WasFunded
  <2> QED BY <1>0, <1>a, <2>1, <2>2, <2>3, <2>4, <2>5, <2>6, <2>8, <2>9, MoneyRetained
      DEF Announces, Releasing
<1>4. ASSUME NEW k \in Keys, EmittingCancelTask(k, id)
      PROVE  \E e : Emit(id, e) /\ Announces(id, e)
  <2>1. PICK e : e = TaskCancelled(task'[id].creator, task'[id].worker)
    OBVIOUS
  <2>2. Emit(id, e)
    BY <1>4, <2>1 DEF EmittingCancelTask
  <2>3. /\ Exists(id) /\ task[id].status \in {"Open", "Assigned", "Accepted"}
        /\ task' = [task EXCEPT ![id] = TaskCancel(@)]
        /\ UNCHANGED <<resolution, vault, vaultBalance>>
    BY <1>4 DEF EmittingCancelTask, CancelTask, TaskCanCancel, SignedByCreator
  <2>4. /\ Exists(id)' /\ task'[id].status = "Cancelled"
        /\ task'[id].creator \in Keys /\ task'[id].worker \in Option(Keys)
        /\ task'[id].funded_at = task[id].funded_at
    <3>1. task'[id] = TaskCancel(task[id]) /\ task'[id] \in Task
      BY <1>0, <2>3 DEF TypeOK, TaskCancel, Task, TaskStatus
    <3> QED BY <1>0, <2>3, <3>1, MarketplaceAssumption DEF Exists, TaskCancel, Task
  <2>5. /\ e \in TaskEvent /\ e.at = now
        /\ e.event = "TaskCancelled"
        /\ e.creator = task'[id].creator /\ e.worker = task'[id].worker
        /\ e.arbitrator = None /\ e.deadline = None /\ e.reward = None /\ e.outcome = None
    BY <1>0, <2>1, <2>4 DEF TaskCancelled, Event, TaskEvent, TaskEvents, Final
  <2>6. StatusAfter(e) = "Cancelled" /\ Rank(e) = 8
    BY <2>5 DEF StatusAfter, Rank, Final, Releasing, DisputeOutcome
  <2>7. Stage(id) < 8 /\ Stage(id)' = 8
    BY <2>3, <2>4 DEF Stage, StatusOf, Terminal
  <2>8. EventIsTrue(e, id)' /\ Backed(e, id)'
    BY <2>4, <2>5
    DEF EventIsTrue, Backed, DeadlineOf, RecordedTime, Deadlined, Releasing, HasStatus
  <2>9. WasFunded(id)' <=> WasFunded(id)
    BY <2>3, <2>4 DEF WasFunded
  <2> QED BY <1>0, <1>a, <2>2, <2>3, <2>4, <2>5, <2>6, <2>7, <2>8, <2>9, MoneyRetained
      DEF Announces, Releasing
<1> QED BY <1>1, <1>2, <1>3, <1>4 DEF LogPreparation

(* The six events that announce the end of an escrow differ in what they   *)
(* say, not in what makes them true.                                       *)
LEMMA ReleaseAnnounced ==
    ASSUME IInv, NEW id \in TaskIds, Instruction(id), HasStatus(id, InCustody),
           NEW e \in TaskEvent, e.event \in Releasing, e.at = now,
           e.creator = task[id].creator, e.worker = task[id].worker,
           e.arbitrator = None, e.reward = vault[id], e.deadline = DeadlineOf(e, id),
           e.outcome # None => resolution'[id] # None /\ e.outcome = resolution'[id].outcome,
           task' = [task EXCEPT ![id] = [@ EXCEPT !.status = StatusAfter(e)]],
           StatusAfter(e) \in Terminal,
           IF StatusAfter(e) = "Paid" THEN PayOut(id) ELSE Return(id),
           e.event = "TaskSettledAfterTimeout" => task[id].review_deadline # None
    PROVE  Announces(id, e)
<1> USE AccountsAssumption
<1>1. /\ TypeOK /\ AccountsAgree(id) /\ task[id] \in Task /\ Exists(id)
      /\ wallet \in [Keys -> Nat] /\ vaultBalance[id] \in Nat
  BY DEF IInv, TypeOK, HasStatus, Exists
<1>2. /\ task[id].worker \in Keys /\ task[id].creator \in Keys
      /\ vault[id] \in Nat /\ vault[id] = task[id].reward_amount
      /\ task[id].funded_at # None /\ task[id].submission_deadline # None
  BY <1>1 DEF AccountsAgree, TaskShaped, TaskValid, CustodyMatches, HasStatus, InCustody, Task
<1>3. /\ Exists(id)' /\ task'[id].status = StatusAfter(e)
      /\ task'[id].creator = task[id].creator /\ task'[id].worker = task[id].worker
      /\ task'[id].reward_amount = task[id].reward_amount
      /\ task'[id].funded_at = task[id].funded_at
      /\ task'[id].submission_deadline = task[id].submission_deadline
      /\ task'[id].review_deadline = task[id].review_deadline
  <2>1. task'[id] = [task[id] EXCEPT !.status = StatusAfter(e)]
    BY <1>1 DEF TypeOK
  <2>2. task'[id] \in Task
    BY <1>1, <2>1 DEF Task, TaskStatus, Terminal
  <2>3. Exists(id)'
    BY <2>2, MarketplaceAssumption DEF Exists
  <2> QED BY <1>1, <2>1, <2>3 DEF Task
<1>4. Stage(id) < 8 /\ Stage(id)' = 8
  BY <1>1, <1>3 DEF Stage, StatusOf, Terminal, HasStatus, InCustody
<1>5. Rank(e) = 8
  BY DEF Rank, Final, Releasing
<1>6. EventIsTrue(e, id)'
  <2>1. e.deadline = DeadlineOf(e, id)'
    BY <1>3 DEF DeadlineOf, Releasing
  <2>2. e.at = RecordedTime(e, id)'
    BY DEF RecordedTime, Releasing
  <2> QED BY <1>2, <1>3, <2>1, <2>2 DEF EventIsTrue, Releasing
<1>7. Backed(e, id)'
  BY <1>2 DEF Backed, Deadlined, Releasing, DeadlineOf
<1>8. WasFunded(id) /\ WasFunded(id)'
  BY <1>1, <1>2, <1>3 DEF WasFunded
<1>9. Releases(id, e)
  <2>1. vault'[id] = None
    BY <1>1, Released
  <2>2. CASE StatusAfter(e) = "Paid"
    BY <1>1, <1>2, <1>8, <2>1, <2>2 DEF Releases, PayOut, WorkerAmount, PaidOut
  <2>3. CASE StatusAfter(e) # "Paid"
    <3>1. /\ wallet = [wallet EXCEPT ![task[id].worker] = @ + 0]
          /\ vaultBalance[id] - 0 = vaultBalance[id]
      BY <1>1, <1>2
    <3>2. wallet' = [wallet EXCEPT ![task[id].worker] = @ + 0,
                                   ![task[id].creator] = @ + (vaultBalance[id] - 0)]
      BY <2>3, <3>1 DEF Return
    <3> QED BY <1>2, <1>8, <2>1, <2>3, <3>2 DEF Releases, PaidOut
  <2> QED BY <2>2, <2>3
<1> QED BY <1>3, <1>4, <1>5, <1>6, <1>7, <1>8, <1>9 DEF Announces

(* Funding, submitting and the releases without a dispute announce what    *)
(* they did.                                                               *)
LEMMA DeliveryAnnounced ==
    ASSUME IInv, NEW id \in TaskIds, LogDelivery(id)
    PROVE  \E e : Emit(id, e) /\ Announces(id, e)
<1> USE AccountsAssumption
<1>0. /\ TypeOK /\ now \in Timestamps /\ MaxTimestamp \in Nat
      /\ Exists(id) => AccountsAgree(id) /\ task[id] \in Task
      /\ vault[id] \in Option(Nat) /\ vaultBalance[id] \in Nat
  BY DEF IInv, TypeOK, Exists
<1>a. Instruction(id)
  <2>1. Delivery(id)
    BY DEF LogDelivery, Delivery, EmittingFundTask, EmittingSubmitTask,
           EmittingRefundTaskAfterTimeout, EmittingPayTask, EmittingSettleTaskAfterTimeout
  <2> QED BY <2>1, DeliveryStep
<1>1. ASSUME NEW k \in Keys, EmittingFundTask(k, id)
      PROVE  \E e : Emit(id, e) /\ Announces(id, e)
  <2>1. PICK e : e = TaskFunded(k, task'[id].worker, task'[id].submission_deadline,
                                task[id].reward_amount)
    OBVIOUS
  <2>2. Emit(id, e)
    BY <1>1, <2>1 DEF EmittingFundTask
  <2>3. /\ FundTask(k, id) /\ Exists(id) /\ task[id].creator = k
        /\ TaskCanFund(task[id], now)
        /\ task[id] \in Task
        /\ task' = [task EXCEPT ![id] = TaskFund(@, now)]
    BY <1>0, <1>1 DEF EmittingFundTask, FundTask, CanFundTask, SignedByCreator
  <2>4. /\ task[id].status = "Accepted" /\ task[id].funded_at = None
        /\ task[id].worker \in Keys
    BY <2>3 DEF TaskCanFund, Task
  <2>5. /\ Exists(id)' /\ task'[id].status = "Funded"
        /\ task'[id].creator = k /\ task'[id].worker = task[id].worker
        /\ task'[id].reward_amount = task[id].reward_amount
        /\ task'[id].funded_at = now
        /\ task'[id].submission_deadline = now + SubmissionTimeout
        /\ now + SubmissionTimeout \in Timestamps
    <3>1. task'[id] = TaskFund(task[id], now) /\ task'[id] \in Task
      BY <1>0, <2>3, TaskMethodsTyped DEF TypeOK
    <3>2. Exists(id)'
      BY <3>1, MarketplaceAssumption DEF Exists
    <3>3. now + SubmissionTimeout \in Timestamps
      BY <1>0, <2>3 DEF TaskCanFund, FitsTimestamp
    <3>4. task[id] \in Task /\ task[id].creator = k
      BY <2>3
    <3> QED BY <3>1, <3>2, <3>3, <3>4 DEF TaskFund, Task
  <2>6. /\ e \in TaskEvent /\ e.at = now
        /\ e.event = "TaskFunded" /\ e.creator = k /\ e.worker = task[id].worker
        /\ e.deadline = now + SubmissionTimeout /\ e.reward = task[id].reward_amount
        /\ e.arbitrator = None /\ e.outcome = None
    <3>1. task[id].reward_amount \in Nat
      BY <2>3 DEF Task
    <3>2. PICK deadline \in Timestamps : deadline = now + SubmissionTimeout
      BY <2>5
    <3>3. e = TaskFunded(k, task[id].worker, deadline, task[id].reward_amount)
      BY <2>1, <2>5, <3>2
    <3> QED BY <1>0, <2>4, <3>1, <3>2, <3>3 DEF TaskFunded, Event, TaskEvent, TaskEvents
  <2>7. StatusAfter(e) = "Funded" /\ Rank(e) = 5
    BY <2>6 DEF StatusAfter, Rank, Final, Releasing, DisputeOutcome
  <2>8. Stage(id) < 5 /\ Stage(id)' = 5
    BY <2>3, <2>4, <2>5 DEF Stage, StatusOf, Terminal
  <2>9. e.reward # None /\ e.deadline # None /\ now # None
    <3>1. task[id].reward_amount \in Nat /\ now \in Nat /\ now + SubmissionTimeout \in Nat
      BY <1>0, <2>3 DEF Task
    <3> QED BY <2>6, <3>1
  <2>10. EventIsTrue(e, id)' /\ Backed(e, id)'
    BY <2>5, <2>6, <2>9 DEF EventIsTrue, Backed, DeadlineOf, RecordedTime
  <2>11. WasFunded(id)' /\ ~WasFunded(id)
    BY <2>4, <2>5, <2>9 DEF WasFunded
  <2>12. Retains(id)
    <3> DEFINE reward == task[id].reward_amount
    <3>1. reward \in Nat
      BY <2>3 DEF Task
    <3>2. /\ vault'[id] = reward
          /\ vaultBalance'[id] = FundedBalance(vaultBalance[id], reward)
      BY <1>0, <2>3 DEF FundTask, CanFundTask, TypeOK
    <3>3. FundedBalance(vaultBalance[id], reward) >= vaultBalance[id]
      BY <1>0, <3>1, EscrowAssumption DEF FundedBalance, FundingCost, InitShortfall
    <3> QED BY <2>11, <3>1, <3>2, <3>3 DEF Retains
  <2> QED BY <1>a, <2>2, <2>5, <2>6, <2>7, <2>8, <2>10, <2>11, <2>12
      DEF Announces, Releasing
<1>2. ASSUME NEW w \in Keys, NEW reference \in Texts, EmittingSubmitTask(w, id, reference)
      PROVE  \E e : Emit(id, e) /\ Announces(id, e)
  <2>1. PICK e : e = TaskSubmitted(task'[id].creator, w, task'[id].review_deadline)
    OBVIOUS
  <2>2. Emit(id, e)
    BY <1>2, <2>1 DEF EmittingSubmitTask
  <2>3. /\ Exists(id) /\ TaskCanSubmit(task[id], w, reference, now)
        /\ task[id] \in Task
        /\ task' = [task EXCEPT ![id] = TaskSubmit(@, reference, now)]
        /\ UNCHANGED <<vault, vaultBalance>>
    BY <1>0, <1>2 DEF EmittingSubmitTask, SubmitTask, CanSubmitTask
  <2>4. task[id].status = "Funded" /\ task[id].worker = w
    BY <2>3 DEF TaskCanSubmit
  <2>5. /\ Exists(id)' /\ task'[id].status = "Submitted"
        /\ task'[id].creator = task[id].creator /\ task'[id].creator \in Keys
        /\ task'[id].worker = w
        /\ task'[id].funded_at = task[id].funded_at
        /\ task'[id].review_deadline = now + ReviewTimeout
        /\ now + ReviewTimeout \in Timestamps
    <3>1. task'[id] = TaskSubmit(task[id], reference, now) /\ task'[id] \in Task
      BY <1>0, <2>3, TaskMethodsTyped DEF TypeOK
    <3>2. Exists(id)'
      BY <3>1, MarketplaceAssumption DEF Exists
    <3>3. now + ReviewTimeout \in Timestamps
      BY <1>0, <2>3 DEF TaskCanSubmit, FitsTimestamp
    <3>4. task[id] \in Task
      BY <2>3
    <3> QED BY <2>4, <3>1, <3>2, <3>3, <3>4 DEF TaskSubmit, Task
  <2>6. /\ e \in TaskEvent /\ e.at = now
        /\ e.event = "TaskSubmitted" /\ e.creator = task'[id].creator /\ e.worker = w
        /\ e.deadline = now + ReviewTimeout /\ e.deadline # None
        /\ e.reward = None /\ e.arbitrator = None /\ e.outcome = None
    <3>1. PICK deadline \in Timestamps : deadline = now + ReviewTimeout
      BY <2>5
    <3>2. PICK creator \in Keys : creator = task'[id].creator
      BY <2>5
    <3>3. e = TaskSubmitted(creator, w, deadline)
      BY <2>1, <2>5, <3>1, <3>2
    <3>4. deadline # None
      BY <1>0, <3>1
    <3> QED BY <1>0, <3>1, <3>2, <3>3, <3>4 DEF TaskSubmitted, Event, TaskEvent, TaskEvents
  <2>7. StatusAfter(e) = "Submitted" /\ Rank(e) = 6
    BY <2>6 DEF StatusAfter, Rank, Final, Releasing, DisputeOutcome
  <2>8. Stage(id) < 6 /\ Stage(id)' = 6
    BY <2>3, <2>4, <2>5 DEF Stage, StatusOf, Terminal
  <2>9. now = (now + ReviewTimeout) - ReviewTimeout
    BY <1>0
  <2>10. EventIsTrue(e, id)' /\ Backed(e, id)'
    BY <2>5, <2>6, <2>9 DEF EventIsTrue, Backed, DeadlineOf, RecordedTime, Releasing
  <2>11. WasFunded(id)' <=> WasFunded(id)
    BY <2>3, <2>5 DEF WasFunded
  <2> QED BY <1>0, <1>a, <2>2, <2>3, <2>5, <2>6, <2>7, <2>8, <2>10, <2>11, MoneyRetained
      DEF Announces, Releasing
<1>3. ASSUME NEW k \in Keys, EmittingRefundTaskAfterTimeout(k, id)
      PROVE  \E e : Emit(id, e) /\ Announces(id, e)
  <2>1. PICK e : e = TaskRefundedAfterTimeout(k, task[id].worker,
                        task[id].submission_deadline, vault[id])
    OBVIOUS
  <2>2. Emit(id, e)
    BY <1>3, <2>1 DEF EmittingRefundTaskAfterTimeout
  <2>3. /\ task[id] \in Task /\ k = task[id].creator /\ HasStatus(id, {"Funded"})
        /\ task' = [task EXCEPT ![id] = [@ EXCEPT !.status = "Cancelled"]]
        /\ Return(id)
    BY <1>0, <1>3
    DEF EmittingRefundTaskAfterTimeout, RefundTaskAfterTimeout, CanRefundTaskAfterTimeout,
        SignedByCreator, TaskCanRefundAfterTimeout, TaskRefundAfterTimeout, HasStatus
  <2>4. /\ task[id].worker \in Option(Keys)
        /\ task[id].submission_deadline \in Option(Timestamps)
    BY <2>3 DEF Task
  <2>5. /\ e \in TaskEvent /\ e.at = now /\ e.event = "TaskRefundedAfterTimeout"
        /\ e.creator = task[id].creator /\ e.worker = task[id].worker
        /\ e.deadline = task[id].submission_deadline /\ e.reward = vault[id]
        /\ e.arbitrator = None /\ e.outcome = None
    BY <1>0, <2>1, <2>3, <2>4
    DEF TaskRefundedAfterTimeout, Event, TaskEvent, TaskEvents, Final, Releasing
  <2>6. StatusAfter(e) = "Cancelled"
    BY <2>5 DEF StatusAfter, DisputeOutcome
  <2>7. e.deadline = DeadlineOf(e, id) /\ e.event \in Releasing
    BY <2>5 DEF DeadlineOf, Releasing
  <2>8. HasStatus(id, InCustody)
    BY <2>3 DEF HasStatus, InCustody
  <2>9. Announces(id, e)
    BY <1>a, <2>3, <2>5, <2>6, <2>7, <2>8, ReleaseAnnounced DEF Terminal
  <2> QED BY <2>2, <2>9
<1>4. ASSUME NEW k \in Keys, NEW w \in Keys, NEW actor \in Keys, NEW pass \in BOOLEAN,
             \/ EmittingPayTask(k, id, w)
             \/ EmittingSettleTaskAfterTimeout(id, k, w, actor, pass)
      PROVE  \E e : Emit(id, e) /\ Announces(id, e)
  <2>1. PICK e :
           \/ e = TaskPaid(k, w, vault[id]) /\ Emit(id, e)
           \/ /\ e = TaskSettledAfterTimeout(k, w, actor, task[id].review_deadline, vault[id])
              /\ Emit(id, e)
    BY <1>4 DEF EmittingPayTask, EmittingSettleTaskAfterTimeout, PayTask, CanPayTask
  <2>2. /\ Exists(id) /\ k = task[id].creator /\ w = task[id].worker
        /\ TaskCanPay(task[id])
        /\ task' = [task EXCEPT ![id] = TaskPay(@)]
        /\ PayOut(id)
    BY <1>4
    DEF EmittingPayTask, EmittingSettleTaskAfterTimeout, PayTask, CanPayTask,
        SettleTaskAfterTimeout, CanSettleTaskAfterTimeout, SignedByCreator,
        TaskCanPayAfterTimeout
  <2>3. /\ task[id].review_deadline \in Option(Timestamps)
        /\ task[id].review_deadline # None
    BY <1>0, <2>2 DEF Task, TaskCanPay
  <2>4. /\ e \in TaskEvent /\ e.at = now
        /\ e.event \in {"TaskPaid", "TaskSettledAfterTimeout"}
        /\ e.creator = k /\ e.worker = w /\ e.reward = vault[id]
        /\ e.deadline = IF e.event = "TaskPaid" THEN None ELSE task[id].review_deadline
        /\ e.arbitrator = None /\ e.outcome = None
    BY <1>0, <2>1, <2>3
    DEF TaskPaid, TaskSettledAfterTimeout, Event, TaskEvent, TaskEvents, Final, Releasing
  <2>5. StatusAfter(e) = "Paid"
    BY <2>4 DEF StatusAfter, DisputeOutcome
  <2>6. e.deadline = DeadlineOf(e, id) /\ e.event \in Releasing
    BY <2>4 DEF DeadlineOf, Releasing
  <2>7. HasStatus(id, InCustody)
    BY <2>2 DEF HasStatus, InCustody, TaskCanPay
  <2>8. task' = [task EXCEPT ![id] = [@ EXCEPT !.status = "Paid"]]
    BY <2>2 DEF TaskPay
  <2>9. Announces(id, e)
    BY <1>a, <2>2, <2>3, <2>4, <2>5, <2>6, <2>7, <2>8, ReleaseAnnounced DEF Terminal
  <2> QED BY <2>1, <2>9
<1> QED BY <1>1, <1>2, <1>3, <1>4 DEF LogDelivery

(* So do the rejection and the three ends of a dispute. *)
LEMMA DisputeAnnounced ==
    ASSUME IInv, NEW id \in TaskIds, LogDispute(id)
    PROVE  \E e : Emit(id, e) /\ Announces(id, e)
<1> USE AccountsAssumption
<1>0. /\ TypeOK /\ now \in Timestamps /\ MaxTimestamp \in Nat
      /\ Exists(id) => AccountsAgree(id) /\ task[id] \in Task
      /\ resolution[id] # None => resolution[id] \in TaskResolution
      /\ vault[id] \in Option(Nat)
  BY DEF IInv, TypeOK, Exists
<1>a. Instruction(id)
  <2>1. Dispute(id)
    BY DEF LogDispute, Dispute, EmittingRejectSubmission, EmittingResolveDispute,
           EmittingResolveDisputeByAgreement, EmittingSettleDisputeAfterTimeout
  <2> QED BY <2>1, DisputeStep
<1>1. ASSUME NEW k \in Keys, NEW reference \in Texts, EmittingRejectSubmission(k, id, reference)
      PROVE  \E e : Emit(id, e) /\ Announces(id, e)
  <2>1. PICK e : e = SubmissionRejected(k, task'[id].worker,
                                        resolution'[id].arbitration_deadline)
    OBVIOUS
  <2>2. Emit(id, e)
    BY <1>1, <2>1 DEF EmittingRejectSubmission
  <2>3. /\ Exists(id) /\ k = task[id].creator /\ task[id] \in Task
        /\ task[id].status = "Submitted" /\ task[id].worker # None
        /\ resolution[id] \in TaskResolution
        /\ ResolutionCanOpenDispute(resolution[id], now, reference)
        /\ task' = [task EXCEPT ![id] = TaskRejectSubmission(@)]
        /\ resolution' = [resolution EXCEPT ![id] = ResolutionOpenDispute(@, now, reference)]
        /\ UNCHANGED <<vault, vaultBalance>>
    BY <1>0, <1>1
    DEF EmittingRejectSubmission, RejectSubmission, CanRejectSubmission, SignedByCreator,
        TaskCanRejectSubmission, TaskResolutionValid
  <2>4. /\ Exists(id)' /\ task'[id].status = "Disputed"
        /\ task'[id].creator = k /\ task'[id].worker = task[id].worker
        /\ task'[id].funded_at = task[id].funded_at
        /\ task'[id].worker \in Keys
    <3>1. task'[id] = TaskRejectSubmission(task[id]) /\ task'[id] \in Task
      BY <1>0, <2>3, TaskMethodsTyped DEF TypeOK
    <3>2. Exists(id)'
      BY <3>1, MarketplaceAssumption DEF Exists
    <3> QED BY <2>3, <3>1, <3>2 DEF TaskRejectSubmission, Task
  <2>5. PICK deadline \in Timestamps : deadline = now + ArbitrationTimeout
    BY <1>0, <2>3 DEF ResolutionCanOpenDispute, FitsTimestamp
  <2>6. /\ resolution'[id] # None
        /\ resolution'[id].arbitration_deadline = deadline
        /\ resolution'[id].opened_at = now
    <3>1. resolution'[id] = ResolutionOpenDispute(resolution[id], now, reference)
      BY <1>0, <2>3 DEF TypeOK
    <3>2. resolution'[id] \in TaskResolution
      BY <1>0, <2>3, <3>1, ResolutionMethodsTyped
    <3>3. resolution'[id] # None /\ resolution[id] \in TaskResolution
      BY <2>3, <3>2, MarketplaceAssumption
    <3> QED BY <2>5, <3>1, <3>3 DEF ResolutionOpenDispute, TaskResolution
  <2>7. /\ e \in TaskEvent /\ e.at = now
        /\ e.event = "SubmissionRejected" /\ e.creator = k /\ e.worker = task[id].worker
        /\ e.deadline = deadline /\ e.deadline # None
        /\ e.reward = None /\ e.arbitrator = None /\ e.outcome = None
    <3>1. PICK worker \in Keys : worker = task'[id].worker
      BY <2>4
    <3>2. e = SubmissionRejected(k, worker, deadline) /\ deadline # None
      BY <1>0, <2>1, <2>5, <2>6, <3>1
    <3> QED BY <1>0, <2>4, <2>5, <3>1, <3>2
        DEF SubmissionRejected, Event, TaskEvent, TaskEvents
  <2>8. StatusAfter(e) = "Disputed" /\ Rank(e) = 7
    BY <2>7 DEF StatusAfter, Rank, Final, Releasing, DisputeOutcome
  <2>9. Stage(id) < 7 /\ Stage(id)' = 7
    BY <2>3, <2>4 DEF Stage, StatusOf, Terminal
  <2>10. EventIsTrue(e, id)' /\ Backed(e, id)'
    BY <2>4, <2>6, <2>7 DEF EventIsTrue, Backed, DeadlineOf, RecordedTime, Releasing
  <2>11. WasFunded(id)' <=> WasFunded(id)
    BY <2>3, <2>4 DEF WasFunded
  <2> QED BY <1>0, <1>a, <2>2, <2>3, <2>4, <2>7, <2>8, <2>9, <2>10, <2>11, MoneyRetained
      DEF Announces, Releasing
<1>2. ASSUME NEW k \in Keys, NEW w \in Keys, NEW a \in Keys, NEW outcome \in DisputeOutcome,
             \/ EmittingResolveDispute(a, id, k, w, outcome)
             \/ EmittingResolveDisputeByAgreement(k, w, id, outcome)
             \/ EmittingSettleDisputeAfterTimeout(id, k, w, a) /\ outcome = "PayWorker"
      PROVE  \E e : Emit(id, e) /\ Announces(id, e)
  <2>1. PICK e :
           /\ \/ e = DisputeResolved(k, w, a, vault[id], outcome)
              \/ e = DisputeResolvedByAgreement(k, w, vault[id], outcome)
              \/ e = DisputeSettledAfterTimeout(k, w, a, vault[id]) /\ outcome = "PayWorker"
           /\ Emit(id, e)
    BY <1>2 DEF EmittingResolveDispute, EmittingResolveDisputeByAgreement,
                EmittingSettleDisputeAfterTimeout
  <2>2. /\ DisputeAccountsValid(id, k, w)
        /\ CanSettleDispute(id, outcome)
        /\ SettleDispute(id, outcome)
    BY <1>2
    DEF EmittingResolveDispute, EmittingResolveDisputeByAgreement,
        EmittingSettleDisputeAfterTimeout, ResolveDispute, CanResolveDispute,
        ResolveDisputeByAgreement, CanResolveDisputeByAgreement, SettleDisputeAfterTimeout,
        CanSettleDisputeAfterTimeout
  <2>3. /\ Exists(id) /\ k = task[id].creator /\ w = task[id].worker
        /\ resolution[id] \in TaskResolution
        /\ HasStatus(id, {"Disputed"})
    BY <1>0, <2>2 DEF DisputeAccountsValid, TaskResolutionValid, CanSettleDispute,
                      TaskCanResolveDispute, HasStatus
  <2>4. /\ e \in TaskEvent /\ e.at = now
        /\ e.event \in {"DisputeResolved", "DisputeResolvedByAgreement",
                        "DisputeSettledAfterTimeout"}
        /\ e.creator = k /\ e.worker = w /\ e.reward = vault[id] /\ e.outcome = outcome
        /\ e.arbitrator = None /\ e.deadline = None
    BY <1>0, <2>1
    DEF DisputeResolved, DisputeResolvedByAgreement, DisputeSettledAfterTimeout, Event,
        TaskEvent, TaskEvents, Final, Releasing
  <2>5. StatusAfter(e) = IF outcome = "PayWorker" THEN "Paid" ELSE "Refunded"
    BY <2>4 DEF StatusAfter, DisputeOutcome
  <2>6. e.deadline = DeadlineOf(e, id) /\ e.event \in Releasing
    BY <2>4 DEF DeadlineOf, Releasing
  <2>7. resolution'[id] # None /\ resolution'[id].outcome = outcome
    <3>1. resolution'[id] = ResolutionFinish(resolution[id], outcome)
      BY <1>0, <2>2 DEF SettleDispute, TypeOK
    <3>2. resolution'[id] \in TaskResolution
      BY <1>0, <2>3, <3>1, ResolutionMethodsTyped
    <3> QED BY <2>3, <3>1, <3>2, MarketplaceAssumption DEF ResolutionFinish, TaskResolution
  <2>8. /\ task' = [task EXCEPT ![id] = [@ EXCEPT !.status = StatusAfter(e)]]
        /\ IF StatusAfter(e) = "Paid" THEN PayOut(id) ELSE Return(id)
    BY <2>2, <2>5 DEF SettleDispute, TaskResolveDispute
  <2>9. HasStatus(id, InCustody) /\ StatusAfter(e) \in Terminal
    BY <2>3, <2>5 DEF HasStatus, InCustody, Terminal
  <2>10. Announces(id, e)
    BY <1>a, <2>3, <2>4, <2>6, <2>7, <2>8, <2>9, ReleaseAnnounced
  <2> QED BY <2>1, <2>10
<1> QED BY <1>1, <1>2 DEF LogDispute, DisputeOutcome

-----------------------------------------------------------------------------
(***************************************************************************)
(* The log agrees with the accounts                                        *)
(***************************************************************************)

(* A step that writes no account of a task and takes nothing from a vault. *)
Quiet ==
    /\ UNCHANGED <<task, assignment, resolution, vault, taskLog>>
    /\ now' >= now
    /\ \A id \in TaskIds : vaultBalance'[id] >= vaultBalance[id]

(* Every step is quiet, or an instruction that announces what it does. *)
LEMMA LogStep ==
    ASSUME IInv, [LogNext]_<<vars, logs>>
    PROVE  Quiet \/ \E id \in TaskIds : \E e : Emit(id, e) /\ Announces(id, e)
<1>0. vaultBalance \in [TaskIds -> Nat] /\ now \in Nat
  BY AccountsAssumption DEF IInv, TypeOK
<1>1. ASSUME NEW k \in Creators, EmittingCreateCreatorProfile(k) PROVE Quiet
  BY <1>0, <1>1 DEF EmittingCreateCreatorProfile, CreateCreatorProfile, CanCreateCreatorProfile, Quiet
<1>2. ASSUME AdvanceClock, UNCHANGED logs PROVE Quiet
  BY <1>0, <1>2 DEF AdvanceClock, accounts, money, logs, Quiet
<1>3. ASSUME NEW k \in Keys, NEW id \in TaskIds, NEW amount \in Donations,
             Donate(k, id, amount), UNCHANGED logs
      PROVE  Quiet
  <2>1. amount \in Nat
    BY MarketplaceAssumption
  <2>2. \A j \in TaskIds : vaultBalance'[j] >= vaultBalance[j]
    BY <1>0, <1>3, <2>1 DEF Donate
  <2> QED BY <1>0, <1>3, <2>2 DEF Donate, accounts, logs, Quiet
<1>4. ASSUME NEW k \in Keys, NEW to \in Keys, NEW amount \in Transfers,
             Transfer(k, to, amount), UNCHANGED logs
      PROVE  Quiet
  BY <1>0, <1>4 DEF Transfer, accounts, logs, Quiet
<1>5. ASSUME UNCHANGED <<vars, logs>> PROVE Quiet
  BY <1>0, <1>5 DEF vars, logs, Quiet
<1>6. Silent => Quiet
  BY <1>2, <1>3, <1>4 DEF Silent
<1>7. LogSetup => Quiet \/ \E id \in TaskIds : \E e : Emit(id, e) /\ Announces(id, e)
  BY <1>1, CreationAnnounced DEF LogSetup
<1> QED BY <1>5, <1>6, <1>7, PreparationAnnounced, DeliveryAnnounced, DisputeAnnounced
    DEF LogNext

(* The log of a task agrees with its accounts while neither is written. *)
LEMMA LogUntouched ==
    ASSUME TypeOK, TypeOK', LogInv, NEW id \in TaskIds,
           taskLog'[id] = taskLog[id], task'[id] = task[id],
           assignment'[id] = assignment[id], resolution'[id] = resolution[id],
           vault'[id] = vault[id], now' >= now
    PROVE  LogAgrees(id)'
<1> DEFINE log == taskLog[id]
<1>0. /\ LogAgrees(id) /\ log \in Seq(TaskEvent)
      /\ now \in Nat /\ now' \in Nat
      /\ \A i \in DOMAIN log : log[i].at \in Nat
  <2>1. LogAgrees(id) /\ log \in Seq(TaskEvent)
    BY DEF LogInv
  <2>2. \A i \in DOMAIN log : log[i] \in TaskEvent
    BY <2>1
  <2>3. \A e \in TaskEvent : e.at \in Nat
    BY AccountsAssumption DEF TaskEvent
  <2>4. now \in Nat /\ now' \in Nat
    BY AccountsAssumption DEF TypeOK
  <2> QED BY <2>1, <2>2, <2>3, <2>4
<1>1. /\ Stage(id)' = Stage(id) /\ Entries(id)' = Entries(id)
      /\ Exists(id)' <=> Exists(id)
      /\ WasFunded(id)' <=> WasFunded(id)
  BY DEF Stage, StatusOf, Exists, Entries, WasFunded
<1>2. \A e : EventIsTrue(e, id)' <=> EventIsTrue(e, id)
  BY DEF EventIsTrue, DeadlineOf, RecordedTime
<1>3. \A e : Backed(e, id)' <=> Backed(e, id)
  BY DEF Backed, HasStatus, Exists
<1>4. \A i \in DOMAIN log : log[i].at <= now'
  BY <1>0 DEF LogAgrees
<1> QED BY <1>0, <1>1, <1>2, <1>3, <1>4 DEF LogAgrees

(* An instruction that announces what it does keeps the log truthful. *)
LEMMA LogExtended ==
    ASSUME IInv, IInv', [Next]_vars, LogInv, NEW id \in TaskIds, NEW e, Announces(id, e),
           Emit(id, e)
    PROVE  LogAgrees(id)'
<1> DEFINE log == taskLog[id]
           n == Len(log)
<1>0. /\ TypeOK /\ LogAgrees(id) /\ log \in Seq(TaskEvent) /\ e \in TaskEvent
      /\ n \in Nat /\ DOMAIN log = 1 .. n
  BY DEF LogInv, IInv, Announces
<1>1. /\ log' = Append(log, e) /\ log' \in Seq(TaskEvent)
      /\ Len(log') = n + 1 /\ DOMAIN log' = 1 .. n + 1
      /\ log'[n + 1] = e
      /\ \A i \in 1 .. n : log'[i] = log[i]
  BY <1>0 DEF LogInv, Emit
<1>2. Entries(id)' = Entries(id) \cup {e}
  BY <1>0, <1>1 DEF Entries
<1>3. /\ \A i \in 1 .. n : Rank(log[i]) <= Stage(id) /\ log[i].at <= now
      /\ \A i \in 1 .. n : log[i] \in TaskEvent
  BY <1>0 DEF LogAgrees
<1>4. /\ Rank(e) \in Nat /\ \A x \in TaskEvent : Rank(x) \in Nat /\ x.at \in Nat
  <2>1. \A x \in TaskEvent : Rank(x) \in Nat
    BY DEF TaskEvent, TaskEvents, Rank
  <2>2. \A x \in TaskEvent : x.at \in Nat
    BY AccountsAssumption DEF TaskEvent
  <2> QED BY <1>0, <2>1, <2>2
<1>5. Stage(id) \in Nat /\ Stage(id) < Rank(e) /\ Rank(e) = Stage(id)' /\ e.at = now
  <2>1. Stage(id) \in Nat
    BY <1>0 DEF Stage, StatusOf, TypeOK, Exists, Task, TaskStatus, Terminal
  <2> QED BY <2>1 DEF Announces
<1>6. now' = now
  BY DEF Announces, Instruction, Creates, NamesArbitrator, SelectsWorker, Hires, Cancels,
         Funds, Submits, PaysSubmission, Refunds, Rejects, Settles, Writes
<1>7. log' # <<>> /\ Exists(id)' /\ task'[id].status = StatusAfter(log'[Len(log')])
  <2>1. Exists(id)' /\ task'[id].status = StatusAfter(e)
    BY DEF Announces
  <2>2. log' # <<>>
    BY <1>0, <1>1
  <2>3. log'[Len(log')] = e
    BY <1>1
  <2> QED BY <2>1, <2>2, <2>3
<1>8. \A i \in DOMAIN log' : Rank(log'[i]) <= Stage(id)' /\ log'[i].at <= now'
  <2> TAKE i \in DOMAIN log'
  <2>1. CASE i \in 1 .. n
    BY <1>1, <1>3, <1>4, <1>5, <1>6, <2>1
  <2>2. CASE i = n + 1
    BY <1>0, <1>1, <1>4, <1>5, <1>6, <2>2
  <2> QED BY <1>0, <1>1, <2>1, <2>2
<1>9. \A i, j \in DOMAIN log' : i < j =>
         Rank(log'[i]) < Rank(log'[j]) /\ log'[i].at <= log'[j].at
  <2> TAKE i, j \in DOMAIN log'
  <2> HAVE i < j
  <2>1. i \in 1 .. n
    BY <1>0, <1>1
  <2>2. CASE j \in 1 .. n
    BY <1>0, <1>1, <2>1, <2>2 DEF LogAgrees
  <2>3. CASE j = n + 1
    BY <1>1, <1>3, <1>4, <1>5, <2>1, <2>3
  <2> QED BY <1>0, <1>1, <2>2, <2>3
<1>10. \A x \in Entries(id)' : EventIsTrue(x, id)' /\ Backed(x, id)'
  <2>1. ASSUME NEW x \in Entries(id) PROVE EventIsTrue(x, id)' /\ Backed(x, id)'
    <3>1. x \in TaskEvent /\ Exists(id) /\ EventIsTrue(x, id) /\ Backed(x, id)
      BY <1>0, <2>1 DEF Entries, LogAgrees
    <3> QED BY <3>1, EventStaysTrue
  <2>2. EventIsTrue(e, id)' /\ Backed(e, id)'
    BY DEF Announces
  <2> QED BY <1>2, <2>1, <2>2
<1>11. WasFunded(id)' <=> \E x \in Entries(id)' : x.event = "TaskFunded"
  BY <1>0, <1>2 DEF LogAgrees, Announces
<1>12. (WasFunded(id)' /\ vault'[id] = None) <=>
          \E x \in Entries(id)' : x.event \in Releasing
  <2>1. (WasFunded(id)' /\ vault'[id] = None) <=>
           (WasFunded(id) /\ vault[id] = None) \/ e.event \in Releasing
    BY DEF Announces, Releases, Retains
  <2> QED BY <1>0, <1>2, <2>1 DEF LogAgrees
<1> HIDE DEF log, n
<1> QED BY <1>7, <1>8, <1>9, <1>10, <1>11, <1>12 DEF LogAgrees, log

(* Before any task there is no log. *)
LEMMA LogInitAgrees == LogInit => LogInv
<1> SUFFICES ASSUME LogInit PROVE LogInv
  OBVIOUS
<1>1. taskLog \in [TaskIds -> Seq(TaskEvent)]
  BY DEF LogInit
<1>2. ASSUME NEW id \in TaskIds PROVE LogAgrees(id)
  <2>1. taskLog[id] = <<>> /\ ~Exists(id)
    BY DEF LogInit, Init, Exists
  <2>2. DOMAIN taskLog[id] = {} /\ Entries(id) = {}
    BY <2>1 DEF Entries
  <2> QED BY <2>1, <2>2 DEF LogAgrees, WasFunded
<1> QED BY <1>1, <1>2 DEF LogInv

(* Every step of the program with its log keeps the log in agreement. *)
LEMMA LogNextAgrees ==
    ASSUME IInv, LogInv, [LogNext]_<<vars, logs>>
    PROVE  LogInv'
<1>1. [Next]_vars /\ IInv' /\ TypeOK /\ TypeOK'
  <2>1. [Next]_vars
    BY LogStepIsStep
  <2> QED BY <2>1, NextAgrees DEF IInv
<1>2. CASE Quiet
  <2>1. ASSUME NEW id \in TaskIds PROVE LogAgrees(id)'
    BY <1>1, <1>2, LogUntouched DEF Quiet
  <2> QED BY <1>2, <2>1 DEF LogInv, Quiet
<1>3. ASSUME NEW id \in TaskIds, NEW e, Emit(id, e), Announces(id, e) PROVE LogInv'
  <2>1. taskLog' \in [TaskIds -> Seq(TaskEvent)]
    BY <1>3 DEF Emit, Announces, LogInv
  <2>2. ASSUME NEW j \in TaskIds PROVE LogAgrees(j)'
    <3>1. CASE j = id
      BY <1>1, <1>3, <3>1, LogExtended
    <3>2. CASE j # id
      <4>1. Unchanged(j) /\ Instruction(id)
        BY <1>1, <1>3, <3>2, OthersUnchanged DEF Announces
      <4>2. taskLog'[j] = taskLog[j]
        BY <1>3, <3>2 DEF Emit, LogInv
      <4>3. now' = now /\ now \in Nat
        BY <1>1, <4>1, AccountsAssumption
        DEF TypeOK, Instruction, Creates, NamesArbitrator, SelectsWorker, Hires, Cancels,
            Funds, Submits, PaysSubmission, Refunds, Rejects, Settles, Writes
      <4> QED BY <1>1, <4>1, <4>2, <4>3, LogUntouched DEF Unchanged
    <3> QED BY <3>1, <3>2
  <2> QED BY <2>1, <2>2 DEF LogInv
<1> QED BY <1>2, <1>3, LogStep

(* The inductive invariant of the program with its log. *)
THEOREM LogAlwaysAgrees == LogSpec => [](IInv /\ LogInv)
<1>1. LogInit => IInv /\ LogInv
  BY InitAgrees, LogInitAgrees DEF LogInit
<1>2. IInv /\ LogInv /\ [LogNext]_<<vars, logs>> => IInv' /\ LogInv'
  BY LogNextAgrees, LogStepIsStep, NextAgrees
<1> QED BY <1>1, <1>2, PTL DEF LogSpec

(* Every kind of event comes at most once and in one order, so a reader    *)
(* can sort what arrives late, twice or out of order.                      *)
THEOREM ReadersCanReorder == LogSpec => []ReaderCanReorder
<1>1. LogInv => ReaderCanReorder
  BY DEF LogInv, LogAgrees, ReaderCanReorder
<1> QED BY <1>1, LogAlwaysAgrees, PTL

(* The last event of a task tells its status. *)
THEOREM LogsTellStatus == LogSpec => []LogTellsStatus
<1>1. LogInv => LogTellsStatus
  BY DEF LogInv, LogAgrees, LogTellsStatus
<1> QED BY <1>1, LogAlwaysAgrees, PTL

(* What an event says of the accounts is true forever, although accounts   *)
(* go on changing after it.                                                *)
THEOREM EventsAlwaysTrue == LogSpec => []EventsStayTrue
<1>1. LogInv => EventsStayTrue
  BY DEF LogInv, LogAgrees, EventsStayTrue
<1> QED BY <1>1, LogAlwaysAgrees, PTL

(* The rewards announced and not yet released are what the vaults owe. *)
THEOREM AuditorsKnowLiability == LogSpec => []AuditorKnowsLiability
<1>1. ASSUME IInv, LogInv, NEW id \in TaskIds
      PROVE  AnnouncedLiability(id) = IF vault[id] = None THEN {} ELSE {vault[id]}
  <2> DEFINE Announced(kinds) == {e.reward : e \in {x \in Entries(id) : x.event \in kinds}}
             reward == task[id].reward_amount
  <2>1. LogAgrees(id) /\ AccountsAgree(id) /\ TypeOK
    BY <1>1 DEF LogInv, IInv
  <2>2. \A e \in Entries(id) : e.event \in Releasing \cup {"TaskFunded"} => e.reward = reward
    BY <2>1 DEF LogAgrees, EventIsTrue, Backed
  <2>3. Announced({"TaskFunded"}) = IF WasFunded(id) THEN {reward} ELSE {}
    BY <2>1, <2>2 DEF LogAgrees
  <2>4. Announced(Releasing) = IF WasFunded(id) /\ vault[id] = None THEN {reward} ELSE {}
    BY <2>1, <2>2 DEF LogAgrees
  <2>5. vault[id] # None => WasFunded(id) /\ vault[id] = reward
    BY <2>1 DEF AccountsAgree, TaskShaped, TaskValid, CustodyMatches, HasStatus, InCustody,
                WasFunded
  <2>6. AnnouncedLiability(id) = Announced({"TaskFunded"}) \ Announced(Releasing)
    BY DEF AnnouncedLiability
  <2> HIDE DEF Announced
  <2> QED BY <2>3, <2>4, <2>5, <2>6
<1>2. IInv /\ LogInv => AuditorKnowsLiability
  BY <1>1 DEF AuditorKnowsLiability
<1> QED BY <1>2, LogAlwaysAgrees, PTL

(* What ReleaseIsAnnounced says of one task. *)
AnnouncesRelease(id) ==
    LET added == SubSeq(taskLog'[id], Len(taskLog[id]) + 1, Len(taskLog'[id]))
    IN /\ vaultBalance'[id] < vaultBalance[id] =>
            added # <<>> /\ added[1].event \in Releasing
       /\ (added # <<>> /\ added[1].event \in Releasing) =>
            LET e == added[1]
            IN /\ Len(added) = 1
               /\ vault[id] # None /\ vault'[id] = None
               /\ wallet' = [wallet EXCEPT
                    ![e.worker]  = @ + PaidOut(e),
                    ![e.creator] = @ + (vaultBalance[id] - PaidOut(e))]

(* Whoever empties a vault has to say so, to whom and how much. *)
THEOREM ReleasesAreAnnounced == LogSpec => ReleaseIsAnnounced
<1>1. ASSUME IInv, LogInv, [LogNext]_<<vars, logs>>, NEW id \in TaskIds
      PROVE  AnnouncesRelease(id)
  <2> DEFINE log == taskLog[id]
             added == SubSeq(log', Len(log) + 1, Len(log'))
  <2>1. TypeOK /\ TypeOK' /\ vaultBalance[id] \in Nat /\ vaultBalance'[id] \in Nat
    BY <1>1, LogStepIsStep, NextTyped DEF IInv, TypeOK
  <2>2. log \in Seq(TaskEvent) /\ Len(log) \in Nat
    BY <1>1 DEF LogInv
  <2>3. ASSUME log' = log, vaultBalance'[id] >= vaultBalance[id]
        PROVE  AnnouncesRelease(id)
    <3>1. added = <<>>
      BY <2>2, <2>3
    <3> QED BY <2>1, <2>3, <3>1 DEF AnnouncesRelease
  <2>4. ASSUME NEW e, Emit(id, e), Announces(id, e) PROVE AnnouncesRelease(id)
    <3>1. log' = Append(log, e)
      BY <1>1, <2>4 DEF Emit, LogInv
    <3>2. Len(added) = 1 /\ added # <<>> /\ added[1] = e
      BY <2>2, <2>4, <3>1 DEF Announces
    <3>3. IF e.event \in Releasing THEN Releases(id, e) ELSE vaultBalance'[id] >= vaultBalance[id]
      BY <2>4 DEF Announces, Retains
    <3>4. vaultBalance'[id] < vaultBalance[id] => e.event \in Releasing
      BY <2>1, <3>3
    <3>5. e.event \in Releasing =>
             /\ vault[id] # None /\ vault'[id] = None
             /\ wallet' = [wallet EXCEPT
                  ![e.worker]  = @ + PaidOut(e),
                  ![e.creator] = @ + (vaultBalance[id] - PaidOut(e))]
      BY <3>3 DEF Releases
    <3> QED BY <3>2, <3>4, <3>5 DEF AnnouncesRelease
  <2>5. ASSUME NEW j \in TaskIds \ {id}, NEW e, Emit(j, e), Announces(j, e)
        PROVE  AnnouncesRelease(id)
    <3>1. Unchanged(id)
      BY <2>1, <2>5, OthersUnchanged DEF Announces
    <3>2. log' = log
      BY <1>1, <2>5 DEF Emit, LogInv
    <3> QED BY <2>1, <2>3, <3>1, <3>2 DEF Unchanged
  <2>6. CASE Quiet
    BY <2>3, <2>6 DEF Quiet
  <2> QED BY <1>1, <2>4, <2>5, <2>6, LogStep
<1>2. IInv /\ LogInv /\ [LogNext]_<<vars, logs>> =>
        [\A id \in TaskIds : AnnouncesRelease(id)]_<<vars, logs>>
  BY <1>1
<1> QED BY <1>2, LogAlwaysAgrees, PTL DEF LogSpec, ReleaseIsAnnounced, AnnouncesRelease
=============================================================================
