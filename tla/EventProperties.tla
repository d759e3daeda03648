--------------------------- MODULE EventProperties ---------------------------
(***************************************************************************)
(* What a reader of the program's events may rely on.  The reader does not *)
(* see the accounts and may get the events late, repeatedly, reordered or  *)
(* in part; each property says why that is enough.                         *)
(***************************************************************************)
EXTENDS MarketplaceEvents

Entries(id) == {taskLog[id][i] : i \in DOMAIN taskLog[id]}

(* The events that announce the end of an escrow. *)
Releasing == {"TaskPaid", "TaskSettledAfterTimeout", "TaskRefundedAfterTimeout",
              "DisputeResolved", "DisputeResolvedByAgreement",
              "DisputeSettledAfterTimeout"}

Final == Releasing \cup {"TaskCancelled"}

(* The place of an event in the life of its task. *)
Rank(e) ==
    CASE e.event = "TaskCreated" -> 1
      [] e.event = "TaskResolutionInitialized" -> 2
      [] e.event = "WorkerAssigned" -> 3
      [] e.event \in {"TaskAccepted", "AssignmentAccepted"} -> 4
      [] e.event = "TaskFunded" -> 5
      [] e.event = "TaskSubmitted" -> 6
      [] e.event = "SubmissionRejected" -> 7
      [] e.event \in Final -> 8

(* The status a reader concludes from an event. *)
StatusAfter(e) ==
    CASE e.event \in {"TaskCreated", "TaskResolutionInitialized"} -> "Open"
      [] e.event = "WorkerAssigned" -> "Assigned"
      [] e.event \in {"TaskAccepted", "AssignmentAccepted"} -> "Accepted"
      [] e.event = "TaskFunded" -> "Funded"
      [] e.event = "TaskSubmitted" -> "Submitted"
      [] e.event = "SubmissionRejected" -> "Disputed"
      [] e.event \in {"TaskPaid", "TaskSettledAfterTimeout"} -> "Paid"
      [] e.event \in {"TaskRefundedAfterTimeout", "TaskCancelled"} -> "Cancelled"
      [] e.outcome = "PayWorker" -> "Paid"
      [] e.outcome = "RefundCreator" -> "Refunded"

-----------------------------------------------------------------------------
(* The kind of an event alone gives its place in the log of its task: each *)
(* kind comes at most once and always after the kinds ranked below it, and *)
(* timestamps never run against that order (they may be equal, so they do  *)
(* not give it).  So duplicates are recognised and any set of events is    *)
(* put back into order, although no event has a sequence number.           *)
ReaderCanReorder ==
    \A id \in TaskIds : \A i, j \in DOMAIN taskLog[id] : i < j =>
        /\ Rank(taskLog[id][i]) < Rank(taskLog[id][j])
        /\ taskLog[id][i].at <= taskLog[id][j].at

(* The latest event of a task tells its status: no instruction moves a     *)
(* task silently, and none announces a move it did not make.               *)
LogTellsStatus ==
    \A id \in TaskIds :
        LET log == taskLog[id]
        IN /\ Exists(id) <=> log # <<>>
           /\ Exists(id) => task[id].status = StatusAfter(log[Len(log)])

(* The moment at which an event's deadline, if it has one, must lie. *)
DeadlineOf(e, id) ==
    CASE e.event \in {"TaskFunded", "TaskRefundedAfterTimeout"} ->
            task[id].submission_deadline
      [] e.event \in {"TaskSubmitted", "TaskSettledAfterTimeout"} ->
            task[id].review_deadline
      [] e.event = "SubmissionRejected" -> resolution[id].arbitration_deadline
      [] OTHER -> None

(* When the step an event announces happened, as far as an account tells. *)
RecordedTime(e, id) ==
    CASE e.event = "AssignmentAccepted" -> assignment[id].accepted_at
      [] e.event = "TaskFunded" -> task[id].funded_at
      [] e.event = "TaskSubmitted" -> task[id].review_deadline - ReviewTimeout
      [] e.event = "SubmissionRejected" -> resolution[id].opened_at
      [] OTHER -> e.at

(* What an event says of parties, deadlines, amounts and outcome agrees    *)
(* with the accounts when it is emitted and ever after: an event read late *)
(* is never out of date, whichever instructions came between.              *)
EventIsTrue(e, id) ==
    /\ e.creator = task[id].creator
    /\ e.event = "WorkerAssigned" => e.worker = assignment[id].selected_worker
    /\ (e.event # "WorkerAssigned" /\ e.worker # None) => e.worker = task[id].worker
    /\ e.event = "TaskCancelled" => e.worker = task[id].worker
    /\ e.arbitrator # None => e.arbitrator = resolution[id].arbitration_authority
    /\ e.reward # None => e.reward = task[id].reward_amount
    /\ e.outcome # None => e.outcome = resolution[id].outcome
    /\ e.deadline = DeadlineOf(e, id)
    /\ e.at = RecordedTime(e, id)

EventsStayTrue == \A id \in TaskIds : \A e \in Entries(id) : EventIsTrue(e, id)

(* A reader who adds up the rewards announced by TaskFunded and takes off  *)
(* those announced by releasing events knows what every vault owes.        *)
AnnouncedLiability(id) ==
    LET Announced(kinds) == {e.reward : e \in {x \in Entries(id) : x.event \in kinds}}
    IN Announced({"TaskFunded"}) \ Announced(Releasing)

AuditorKnowsLiability ==
    \A id \in TaskIds :
        AnnouncedLiability(id) = IF vault[id] = None THEN {} ELSE {vault[id]}

(* What a releasing event says was paid to the worker. *)
PaidOut(e) == IF StatusAfter(e) = "Paid" THEN e.reward ELSE 0

(* Lamports leave a vault in the very step that appends one releasing      *)
(* event, and go to the parties it names, in the amounts it announces.     *)
ReleaseIsAnnounced ==
    [][\A id \in TaskIds :
          LET added == SubSeq(taskLog'[id], Len(taskLog[id]) + 1, Len(taskLog'[id]))
          IN /\ vaultBalance'[id] < vaultBalance[id] =>
                  added # <<>> /\ added[1].event \in Releasing
             /\ (added # <<>> /\ added[1].event \in Releasing) =>
                  LET e == added[1]
                  IN /\ Len(added) = 1
                     /\ vault[id] # None /\ vault'[id] = None
                     /\ wallet' = [wallet EXCEPT
                          ![e.worker]  = @ + PaidOut(e),
                          ![e.creator] = @ + (vaultBalance[id] - PaidOut(e))]]_<<vars, logs>>
=============================================================================
