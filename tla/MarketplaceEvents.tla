-------------------------- MODULE MarketplaceEvents --------------------------
(***************************************************************************)
(* The events the program logs for readers off chain (events.rs), and what *)
(* such a reader may conclude from them.                                   *)
(*                                                                         *)
(* Every instruction ends by emitting one event, so a transaction that     *)
(* succeeds adds exactly one to the log of its task (or of its creator's   *)
(* profile).  The events carry no sequence number: a reader that receives  *)
(* them late, twice, in another order or not all of them has only their    *)
(* contents.                                                               *)
(*                                                                         *)
(* One record stands for all event structs; a field its struct does not    *)
(* have is None.  `at` is the timestamp (created_at, accepted_at, ...),    *)
(* `deadline` the deadline it announces.  The constant version and the     *)
(* unused arbitration_fee_lamports are left out.                           *)
(***************************************************************************)
EXTENDS TaskMarketplace, Sequences

VARIABLES
    profileLog,   \* the events of every CreatorProfile, as the ledger has them
    taskLog       \* the events of every Task, as the ledger has them

logs == <<profileLog, taskLog>>

-----------------------------------------------------------------------------
(***************************************************************************)
(* The event structs                                                       *)
(***************************************************************************)

Event(kind, creator, actor) ==
    [event |-> kind, creator |-> creator, actor |-> actor, at |-> now,
     worker |-> None, arbitrator |-> None, deadline |-> None,
     reward |-> None, outcome |-> None]

CreatorProfileCreated(creator) ==
    Event("CreatorProfileCreated", creator, creator)

TaskCreated(creator, reward) ==
    [Event("TaskCreated", creator, creator) EXCEPT !.reward = reward]

TaskResolutionInitialized(creator, authority) ==
    [Event("TaskResolutionInitialized", creator, creator)
       EXCEPT !.arbitrator = authority]

WorkerAssigned(creator, worker) ==
    [Event("WorkerAssigned", creator, creator) EXCEPT !.worker = worker]

AssignmentAccepted(creator, worker) ==
    [Event("AssignmentAccepted", creator, worker) EXCEPT !.worker = worker]

TaskAccepted(creator, worker) ==
    [Event("TaskAccepted", creator, worker) EXCEPT !.worker = worker]

TaskCancelled(creator, worker) ==
    [Event("TaskCancelled", creator, creator) EXCEPT !.worker = worker]

TaskFunded(creator, worker, deadline, reward) ==
    [Event("TaskFunded", creator, creator)
       EXCEPT !.worker = worker, !.deadline = deadline, !.reward = reward]

TaskSubmitted(creator, worker, deadline) ==
    [Event("TaskSubmitted", creator, worker)
       EXCEPT !.worker = worker, !.deadline = deadline]

TaskPaid(creator, worker, reward) ==
    [Event("TaskPaid", creator, creator)
       EXCEPT !.worker = worker, !.reward = reward]

TaskRefundedAfterTimeout(creator, worker, deadline, reward) ==
    [Event("TaskRefundedAfterTimeout", creator, creator)
       EXCEPT !.worker = worker, !.deadline = deadline, !.reward = reward]

TaskSettledAfterTimeout(creator, worker, actor, deadline, reward) ==
    [Event("TaskSettledAfterTimeout", creator, actor)
       EXCEPT !.worker = worker, !.deadline = deadline, !.reward = reward]

SubmissionRejected(creator, worker, deadline) ==
    [Event("SubmissionRejected", creator, creator)
       EXCEPT !.worker = worker, !.deadline = deadline]

DisputeResolved(creator, worker, actor, reward, outcome) ==
    [Event("DisputeResolved", creator, actor)
       EXCEPT !.worker = worker, !.reward = reward, !.outcome = outcome]

DisputeResolvedByAgreement(creator, worker, reward, outcome) ==
    [Event("DisputeResolvedByAgreement", creator, creator)
       EXCEPT !.worker = worker, !.reward = reward, !.outcome = outcome]

DisputeSettledAfterTimeout(creator, worker, actor, reward) ==
    [Event("DisputeSettledAfterTimeout", creator, actor)
       EXCEPT !.worker = worker, !.reward = reward, !.outcome = "PayWorker"]

-----------------------------------------------------------------------------
(***************************************************************************)
(* The instructions with the events they emit.  A field the handler reads  *)
(* after it has changed the account is read from the changed account.      *)
(***************************************************************************)

Emit(id, e) ==
    /\ taskLog' = [taskLog EXCEPT ![id] = Append(@, e)]
    /\ UNCHANGED profileLog

EmittingCreateCreatorProfile(k) ==
    /\ CreateCreatorProfile(k)
    /\ profileLog' = [profileLog EXCEPT ![k] = Append(@, CreatorProfileCreated(k))]
    /\ UNCHANGED taskLog

EmittingCreateTask(k, n, title, description, r) ==
    /\ CreateTask(k, n, title, description, r)
    /\ Emit(<<k, n>>, TaskCreated(k, r))

EmittingInitializeTaskResolution(k, id, authority) ==
    /\ InitializeTaskResolution(k, id, authority)
    /\ Emit(id, TaskResolutionInitialized(k, authority))

EmittingAssignWorker(k, id, selected) ==
    /\ AssignWorker(k, id, selected)
    /\ Emit(id, WorkerAssigned(k, selected))

EmittingAcceptAssignment(w, id) ==
    /\ AcceptAssignment(w, id)
    /\ Emit(id, AssignmentAccepted(task'[id].creator, w))

EmittingAcceptTask(w, id) ==
    /\ AcceptTask(w, id)
    /\ Emit(id, TaskAccepted(task'[id].creator, w))

EmittingCancelTask(k, id) ==
    /\ CancelTask(k, id)
    /\ Emit(id, TaskCancelled(task'[id].creator, task'[id].worker))

EmittingFundTask(k, id) ==
    /\ FundTask(k, id)
    /\ Emit(id, TaskFunded(k, task'[id].worker, task'[id].submission_deadline,
                           task[id].reward_amount))

\* Mutant: the event announces the deadline of the wrong window.
EmittingSubmitTaskStale(w, id, reference) ==
    /\ SubmitTask(w, id, reference)
    /\ Emit(id, TaskSubmitted(task'[id].creator, w, task'[id].submission_deadline))

EmittingSubmitTask(w, id, reference) ==
    /\ SubmitTask(w, id, reference)
    /\ Emit(id, TaskSubmitted(task'[id].creator, w, task'[id].review_deadline))

EmittingPayTask(k, id, w) ==
    /\ PayTask(k, id, w)
    /\ Emit(id, TaskPaid(k, task[id].worker, vault[id]))

EmittingRefundTaskAfterTimeout(k, id) ==
    /\ RefundTaskAfterTimeout(k, id)
    /\ Emit(id, TaskRefundedAfterTimeout(k, task[id].worker,
                   task[id].submission_deadline, vault[id]))

\* Mutant: the amount is read after the vault was emptied.
EmittingSettleTaskAfterTimeoutLate(id, k, w, actor, pass) ==
    /\ SettleTaskAfterTimeout(id, k, w, pass)
    /\ Emit(id, TaskSettledAfterTimeout(k, w, actor, task[id].review_deadline,
                                        vaultBalance'[id]))

EmittingSettleTaskAfterTimeout(id, k, w, actor, pass) ==
    /\ SettleTaskAfterTimeout(id, k, w, pass)
    /\ Emit(id, TaskSettledAfterTimeout(k, w, actor, task[id].review_deadline,
                                        vault[id]))

EmittingRejectSubmission(k, id, reference) ==
    /\ RejectSubmission(k, id, reference)
    /\ Emit(id, SubmissionRejected(k, task'[id].worker,
                                   resolution'[id].arbitration_deadline))

EmittingResolveDispute(a, id, k, w, outcome) ==
    /\ ResolveDispute(a, id, k, w, outcome)
    /\ Emit(id, DisputeResolved(k, w, a, vault[id], outcome))

\* Mutant: an agreement is always announced as a payment.
EmittingResolveDisputeByAgreementPaid(k, w, id, outcome) ==
    /\ ResolveDisputeByAgreement(k, w, id, outcome)
    /\ Emit(id, DisputeResolvedByAgreement(k, w, vault[id], "PayWorker"))

EmittingResolveDisputeByAgreement(k, w, id, outcome) ==
    /\ ResolveDisputeByAgreement(k, w, id, outcome)
    /\ Emit(id, DisputeResolvedByAgreement(k, w, vault[id], outcome))

EmittingSettleDisputeAfterTimeout(id, k, w, actor) ==
    /\ SettleDisputeAfterTimeout(id, k, w)
    /\ Emit(id, DisputeSettledAfterTimeout(k, w, actor, vault[id]))

-----------------------------------------------------------------------------
LogInit ==
    /\ Init
    /\ profileLog = [c \in Creators |-> <<>>]
    /\ taskLog = [id \in TaskIds |-> <<>>]

LogSetup ==
    \E k \in Creators :
        \/ EmittingCreateCreatorProfile(k)
        \/ \E n \in 1 .. MaxTaskCount, title, description \in Texts, r \in Rewards :
              EmittingCreateTask(k, n, title, description, r)

LogPreparation(id) ==
    \E k \in Keys :
        \/ \E p \in Pubkeys : \/ EmittingInitializeTaskResolution(k, id, p)
                              \/ EmittingAssignWorker(k, id, p)
        \/ EmittingAcceptAssignment(k, id)
        \/ EmittingAcceptTask(k, id)
        \/ EmittingCancelTask(k, id)

LogDelivery(id) ==
    \E k \in Keys :
        \/ EmittingFundTask(k, id)
        \/ \E reference \in Texts : EmittingSubmitTask(k, id, reference)
        \/ EmittingRefundTaskAfterTimeout(k, id)
        \/ \E w \in Keys :
              \/ EmittingPayTask(k, id, w)
              \/ \E actor \in Keys, pass \in BOOLEAN :
                    EmittingSettleTaskAfterTimeout(id, k, w, actor, pass)

LogDispute(id) ==
    \E k \in Keys :
        \/ \E reference \in Texts : EmittingRejectSubmission(k, id, reference)
        \/ \E w \in Keys :
              \/ \E outcome \in DisputeOutcome :
                    \/ \E a \in Keys : EmittingResolveDispute(a, id, k, w, outcome)
                    \/ EmittingResolveDisputeByAgreement(k, w, id, outcome)
              \/ \E actor \in Keys : EmittingSettleDisputeAfterTimeout(id, k, w, actor)

(* Steps that are not the program's leave no event. *)
Silent ==
    /\ \/ AdvanceClock
       \/ \E k \in Keys, id \in TaskIds, amount \in Donations : Donate(k, id, amount)
       \/ \E k, to \in Keys, amount \in Transfers : Transfer(k, to, amount)
    /\ UNCHANGED logs

LogNext ==
    \/ LogSetup
    \/ \E id \in TaskIds : LogPreparation(id) \/ LogDelivery(id) \/ LogDispute(id)
    \/ Silent

LogSpec == LogInit /\ [][LogNext]_<<vars, logs>>
=============================================================================
