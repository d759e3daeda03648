---------------------------- MODULE TaskAccounts ----------------------------
(***************************************************************************)
(* The on-chain account types of state.rs and the methods that change      *)
(* them.  A method `m` that returns Result<()> is two operators: CanM, the *)
(* conjunction of its require!s, and M, the account it leaves behind.  The *)
(* runtime discards every write of a transaction that returns Err, so a    *)
(* failed method is simply a step that is not taken.                       *)
(*                                                                         *)
(* Every method of Task ends with validate_invariants on the new account.  *)
(* That trailing check is part of CanM.                                    *)
(*                                                                         *)
(* Abstracted: bump, version and reserved bytes (constants of an account   *)
(* derived from its seeds), title and description (never read again),      *)
(* arbitration_fee_lamports and assigned_at (stored, read by nothing).     *)
(***************************************************************************)
EXTENDS Integers

CONSTANTS
    Keys,                \* public keys that can sign a transaction
    DefaultKey,          \* Pubkey::default(), which signs nothing
    None,                \* Option::None, and an account that does not exist
    Texts,               \* strings passed as titles, references, ...
    ValidTexts,          \* those that are not blank and not too long
    SubmissionTimeout,   \* SUBMISSION_TIMEOUT_SECONDS, scaled
    ReviewTimeout,       \* REVIEW_TIMEOUT_SECONDS, scaled
    ArbitrationTimeout,  \* ARBITRATION_TIMEOUT_SECONDS, scaled
    MaxTimestamp         \* i64::MAX, scaled

Pubkeys == Keys \cup {DefaultKey}

Timestamps == 0 .. MaxTimestamp

Option(S) == S \cup {None}

TaskStatus == {"Open", "Assigned", "Accepted", "Funded", "Submitted",
               "Disputed", "Paid", "Refunded", "Cancelled"}

ResolutionState == {"Ready", "Disputed", "Resolved"}

DisputeOutcome == {"PayWorker", "RefundCreator"}

Task ==
    [creator              : Keys,
     worker               : Option(Keys),
     reward_amount        : Nat,
     status               : TaskStatus,
     submission_reference : Option(Texts),
     funded_at            : Option(Timestamps),
     submission_deadline  : Option(Timestamps),
     review_deadline      : Option(Timestamps)]

WorkerAssignment ==
    [selected_worker : Pubkeys,
     accepted_at     : Option(Timestamps)]

TaskResolution ==
    [arbitration_authority : Pubkeys,
     state                 : ResolutionState,
     opened_at             : Option(Timestamps),
     arbitration_deadline  : Option(Timestamps),
     rejection_reference   : Option(Texts),
     outcome               : Option(DisputeOutcome)]

(***************************************************************************)
(* None is neither a key, a string, a time nor an account, and             *)
(* the three timeouts are positive.                                        *)
(***************************************************************************)
ASSUME AccountsAssumption ==
    /\ None \notin Pubkeys \cup Texts \cup Nat \cup DisputeOutcome
    /\ DefaultKey \notin Keys
    /\ ValidTexts \subseteq Texts
    /\ SubmissionTimeout \in Nat \ {0}
    /\ ReviewTimeout \in Nat \ {0}
    /\ ArbitrationTimeout \in Nat \ {0}
    /\ MaxTimestamp \in Nat

(* `a.checked_add(b).ok_or(DeadlineOverflow)` succeeds. *)
FitsTimestamp(t) == t <= MaxTimestamp

(***************************************************************************)
(* Task                                                                    *)
(***************************************************************************)

(* The Task that create_task writes into the fresh account. *)
NewTask(creator, reward) ==
    [creator              |-> creator,
     worker               |-> None,
     reward_amount        |-> reward,
     status               |-> "Open",
     submission_reference |-> None,
     funded_at            |-> None,
     submission_deadline  |-> None,
     review_deadline      |-> None]

(* Task::validate_invariants. *)
TaskValid(t) ==
    /\ t.status = "Open" =>
         /\ t.worker = None
         /\ t.funded_at = None
         /\ t.submission_deadline = None
         /\ t.review_deadline = None
         /\ t.submission_reference = None
    /\ t.status = "Assigned" => t.worker = None
    /\ t.status = "Accepted" =>
         /\ t.worker # None
         /\ t.funded_at = None
         /\ t.submission_reference = None
    /\ t.status = "Funded" =>
         /\ t.worker # None
         /\ t.funded_at # None
         /\ t.submission_deadline # None
         /\ t.review_deadline = None
         /\ t.submission_reference = None
    /\ t.status \in {"Submitted", "Disputed"} =>
         /\ t.worker # None
         /\ t.funded_at # None
         /\ t.submission_deadline # None
         /\ t.review_deadline # None
         /\ t.submission_reference # None
    /\ t.status = "Paid" =>
         /\ t.worker # None
         /\ t.submission_reference # None
    /\ t.status = "Refunded" => t.worker # None
    /\ t.status = "Cancelled" =>
         /\ t.review_deadline = None
         /\ t.submission_reference = None
         /\ (t.funded_at # None) <=> (t.submission_deadline # None)
         /\ t.funded_at # None => t.worker # None

TaskAccept(t, worker) == [t EXCEPT !.worker = worker, !.status = "Accepted"]

\* Mutant: any task without a worker can be accepted (can_accept forgotten).
TaskCanAcceptAnyStatus(t, worker) ==
    /\ TaskValid(t)
    /\ t.worker = None
    /\ worker # t.creator
    /\ TaskValid(TaskAccept(t, worker))

\* Mutant: creators may work for themselves.
TaskCanAcceptOwn(t, worker) ==
    /\ TaskValid(t)
    /\ t.status = "Open"
    /\ t.worker = None

TaskCanAccept(t, worker) ==
    /\ TaskValid(t)
    /\ t.status = "Open"
    /\ t.worker = None
    /\ worker # t.creator
    /\ TaskValid(TaskAccept(t, worker))

TaskAssignWorker(t) == [t EXCEPT !.status = "Assigned"]

TaskCanAssignWorker(t, selected) ==
    /\ TaskValid(t)
    /\ t.status = "Open"
    /\ t.worker = None
    /\ selected # DefaultKey
    /\ selected # t.creator
    /\ TaskValid(TaskAssignWorker(t))

TaskAcceptAssignment(t, worker) ==
    [t EXCEPT !.worker = worker, !.status = "Accepted"]

TaskCanAcceptAssignment(t, worker) ==
    /\ TaskValid(t)
    /\ t.status = "Assigned"
    /\ t.worker = None
    /\ worker # t.creator
    /\ TaskValid(TaskAcceptAssignment(t, worker))

TaskFund(t, time) ==
    [t EXCEPT !.status = "Funded",
              !.funded_at = time,
              !.submission_deadline = time + SubmissionTimeout]

\* Mutant: the deadline is an unchecked sum.
TaskCanFundUnchecked(t, time) ==
    /\ TaskValid(t)
    /\ t.status = "Accepted"
    /\ t.reward_amount > 0
    /\ TaskValid(TaskFund(t, time))

TaskCanFund(t, time) ==
    /\ TaskValid(t)
    /\ t.status = "Accepted"
    /\ t.worker # None
    /\ t.funded_at = None
    /\ t.reward_amount > 0
    /\ t.submission_deadline = None
    /\ t.review_deadline = None
    /\ FitsTimestamp(time + SubmissionTimeout)
    /\ TaskValid(TaskFund(t, time))

TaskSubmit(t, reference, time) ==
    [t EXCEPT !.submission_reference = reference,
              !.review_deadline = time + ReviewTimeout,
              !.status = "Submitted"]

\* Mutant: the deadline itself still belongs to the submission window.
TaskCanSubmitAtDeadline(t, worker, reference, time) ==
    /\ TaskValid(t)
    /\ t.status = "Funded"
    /\ t.worker = worker
    /\ time <= t.submission_deadline
    /\ reference \in ValidTexts
    /\ FitsTimestamp(time + ReviewTimeout)

\* Mutant: the worker may replace a submission within the window.
TaskCanResubmit(t, worker, reference, time) ==
    /\ TaskValid(t)
    /\ t.status \in {"Funded", "Submitted"}
    /\ t.worker = worker
    /\ time < t.submission_deadline
    /\ reference \in ValidTexts
    /\ FitsTimestamp(time + ReviewTimeout)

TaskCanSubmit(t, worker, reference, time) ==
    /\ TaskValid(t)
    /\ t.status = "Funded"
    /\ t.worker = worker
    /\ time < t.submission_deadline
    /\ t.review_deadline = None
    /\ reference \in ValidTexts
    /\ FitsTimestamp(time + ReviewTimeout)
    /\ TaskValid(TaskSubmit(t, reference, time))

TaskPay(t) == [t EXCEPT !.status = "Paid"]

TaskCanPay(t) ==
    /\ TaskValid(t)
    /\ t.status = "Submitted"
    /\ t.worker # None
    /\ t.funded_at # None
    /\ t.submission_deadline # None
    /\ t.review_deadline # None
    /\ t.submission_reference # None
    /\ TaskValid(TaskPay(t))

\* Mutant: nobody may settle at the deadline itself.
TaskCanPayAfterDeadline(t, time) ==
    /\ TaskCanPay(t)
    /\ time > t.review_deadline

(* pay_after_timeout checks the deadline and then calls pay. *)
TaskCanPayAfterTimeout(t, time) ==
    /\ TaskCanPay(t)
    /\ time >= t.review_deadline

TaskRefundAfterTimeout(t) == [t EXCEPT !.status = "Cancelled"]

\* Mutant: the refund waits for the wrong deadline.
TaskCanRefundAfterReview(t, time) ==
    /\ TaskValid(t)
    /\ t.status = "Funded"
    /\ t.review_deadline # None
    /\ time >= t.review_deadline

TaskCanRefundAfterTimeout(t, time) ==
    /\ TaskValid(t)
    /\ t.status = "Funded"
    /\ t.worker # None
    /\ t.funded_at # None
    /\ t.submission_reference = None
    /\ t.review_deadline = None
    /\ t.submission_deadline # None
    /\ time >= t.submission_deadline
    /\ TaskValid(TaskRefundAfterTimeout(t))

TaskRejectSubmission(t) == [t EXCEPT !.status = "Disputed"]

\* Mutant: a submission can be rejected after the review window too.
TaskCanRejectLate(t, time) ==
    /\ TaskValid(t)
    /\ t.status = "Submitted"
    /\ TaskValid(TaskRejectSubmission(t))

TaskCanRejectSubmission(t, time) ==
    /\ TaskValid(t)
    /\ t.status = "Submitted"
    /\ t.worker # None
    /\ t.submission_reference # None
    /\ t.review_deadline # None
    /\ time < t.review_deadline
    /\ TaskValid(TaskRejectSubmission(t))

TaskResolveDispute(t, outcome) ==
    [t EXCEPT !.status = IF outcome = "PayWorker" THEN "Paid" ELSE "Refunded"]

TaskCanResolveDispute(t, outcome) ==
    /\ TaskValid(t)
    /\ t.status = "Disputed"
    /\ t.worker # None
    /\ t.funded_at # None
    /\ t.submission_reference # None
    /\ TaskValid(TaskResolveDispute(t, outcome))

TaskCancel(t) == [t EXCEPT !.status = "Cancelled"]

\* Mutant: a funded task can be cancelled like an accepted one.
TaskCanCancelFunded(t) ==
    /\ TaskValid(t)
    /\ t.status \in {"Open", "Assigned", "Accepted", "Funded"}
    /\ TaskValid(TaskCancel(t))

TaskCanCancel(t) ==
    /\ TaskValid(t)
    /\ t.status \in {"Open", "Assigned", "Accepted"}
    /\ TaskValid(TaskCancel(t))

(***************************************************************************)
(* WorkerAssignment                                                        *)
(***************************************************************************)
NewAssignment(selected) == [selected_worker |-> selected, accepted_at |-> None]

AssignmentValid(a) == a.selected_worker # DefaultKey

AssignmentAccept(a, time) == [a EXCEPT !.accepted_at = time]

AssignmentCanAccept(a, worker) ==
    /\ AssignmentValid(a)
    /\ worker = a.selected_worker
    /\ a.accepted_at = None

(***************************************************************************)
(* TaskResolution                                                          *)
(***************************************************************************)
NewResolution(authority) ==
    [arbitration_authority |-> authority,
     state                 |-> "Ready",
     opened_at             |-> None,
     arbitration_deadline  |-> None,
     rejection_reference   |-> None,
     outcome               |-> None]

(* TaskResolution::validate_invariants. *)
ResolutionValid(r) ==
    /\ r.arbitration_authority # DefaultKey
    /\ r.state = "Ready" => r.outcome = None
    /\ r.state = "Disputed" =>
         /\ r.opened_at # None
         /\ r.arbitration_deadline # None
    /\ r.state = "Resolved" => r.outcome # None

\* Mutant: the reason of the rejection is not stored.
ResolutionOpenDisputeUnreferenced(r, time, reference) ==
    [r EXCEPT !.state = "Disputed",
              !.opened_at = time,
              !.arbitration_deadline = time + ArbitrationTimeout]

ResolutionOpenDispute(r, time, reference) ==
    [r EXCEPT !.state = "Disputed",
              !.opened_at = time,
              !.arbitration_deadline = time + ArbitrationTimeout,
              !.rejection_reference = reference]

ResolutionCanOpenDispute(r, time, reference) ==
    /\ ResolutionValid(r)
    /\ r.state = "Ready"
    /\ r.opened_at = None
    /\ r.arbitration_deadline = None
    /\ r.outcome = None
    /\ reference \in ValidTexts
    /\ FitsTimestamp(time + ArbitrationTimeout)
    /\ ResolutionValid(ResolutionOpenDispute(r, time, reference))

RequireDisputed(r) ==
    /\ r.state = "Disputed"
    /\ r.opened_at # None
    /\ r.rejection_reference # None
    /\ r.outcome = None

\* Mutant: every resolution records the outcome of a timeout.
ResolutionFinishForWorker(r, outcome) ==
    [r EXCEPT !.state = "Resolved", !.outcome = "PayWorker"]

ResolutionFinish(r, outcome) ==
    [r EXCEPT !.state = "Resolved", !.outcome = outcome]

\* Mutant: the deadline itself still belongs to the arbitrator.
ResolutionCanResolveAtDeadline(r, outcome, time) ==
    /\ ResolutionValid(r)
    /\ RequireDisputed(r)
    /\ time <= r.arbitration_deadline

(* resolve: the arbitrator may decide strictly before the deadline. *)
ResolutionCanResolve(r, outcome, time) ==
    /\ ResolutionValid(r)
    /\ RequireDisputed(r)
    /\ r.arbitration_deadline # None
    /\ time < r.arbitration_deadline
    /\ ResolutionValid(ResolutionFinish(r, outcome))

(* resolve_by_agreement: the parties may agree at any time. *)
ResolutionCanResolveByAgreement(r, outcome) ==
    /\ ResolutionValid(r)
    /\ RequireDisputed(r)
    /\ ResolutionValid(ResolutionFinish(r, outcome))

(* settle_after_timeout: the worker wins at the deadline and later. *)
ResolutionCanSettleAfterTimeout(r, time) ==
    /\ ResolutionValid(r)
    /\ RequireDisputed(r)
    /\ r.arbitration_deadline # None
    /\ time >= r.arbitration_deadline
    /\ ResolutionValid(ResolutionFinish(r, "PayWorker"))
=============================================================================
