---------------------------- MODULE AccountProofs ----------------------------
(***************************************************************************)
(* What the methods of the account types leave behind, for every value of  *)
(* the constants: used for the program and for the property tests' model.  *)
(***************************************************************************)
EXTENDS TaskAccounts, TLAPS

USE DEF Option, Timestamps, Pubkeys

(* Each method of Task that may run returns a Task. *)
LEMMA TaskMethodsTyped ==
    ASSUME NEW t \in Task, NEW time \in Timestamps
    PROVE  /\ \A w \in Keys : TaskAccept(t, w) \in Task
           /\ \A w \in Keys : TaskAcceptAssignment(t, w) \in Task
           /\ TaskAssignWorker(t) \in Task
           /\ TaskCanFund(t, time) => TaskFund(t, time) \in Task
           /\ \A w \in Keys, reference \in Texts :
                TaskCanSubmit(t, w, reference, time) =>
                  TaskSubmit(t, reference, time) \in Task
           /\ TaskPay(t) \in Task
           /\ TaskRefundAfterTimeout(t) \in Task
           /\ TaskRejectSubmission(t) \in Task
           /\ \A outcome \in DisputeOutcome : TaskResolveDispute(t, outcome) \in Task
           /\ TaskCancel(t) \in Task
<1> USE AccountsAssumption DEF Task, TaskStatus
<1>1. \A w \in Keys : TaskAccept(t, w) \in Task /\ TaskAcceptAssignment(t, w) \in Task
  BY DEF TaskAccept, TaskAcceptAssignment
<1>2. TaskAssignWorker(t) \in Task
  BY DEF TaskAssignWorker
<1>3. TaskCanFund(t, time) => TaskFund(t, time) \in Task
  <2> SUFFICES ASSUME TaskCanFund(t, time) PROVE TaskFund(t, time) \in Task OBVIOUS
  <2>1. time + SubmissionTimeout \in 0 .. MaxTimestamp
    BY DEF TaskCanFund, FitsTimestamp
  <2> QED BY <2>1 DEF TaskFund
<1>4. \A w \in Keys, reference \in Texts :
         TaskCanSubmit(t, w, reference, time) => TaskSubmit(t, reference, time) \in Task
  <2> SUFFICES ASSUME NEW w \in Keys, NEW reference \in Texts,
                      TaskCanSubmit(t, w, reference, time)
               PROVE  TaskSubmit(t, reference, time) \in Task
    OBVIOUS
  <2>1. time + ReviewTimeout \in 0 .. MaxTimestamp
    BY DEF TaskCanSubmit, FitsTimestamp
  <2> QED BY <2>1 DEF TaskSubmit
<1>5. TaskPay(t) \in Task /\ TaskRefundAfterTimeout(t) \in Task
  BY DEF TaskPay, TaskRefundAfterTimeout
<1>6. TaskRejectSubmission(t) \in Task /\ TaskCancel(t) \in Task
  BY DEF TaskRejectSubmission, TaskCancel
<1>7. \A outcome \in DisputeOutcome : TaskResolveDispute(t, outcome) \in Task
  BY DEF TaskResolveDispute
<1> QED BY <1>1, <1>2, <1>3, <1>4, <1>5, <1>6, <1>7

(* Each method of TaskResolution that may run returns a TaskResolution. *)
LEMMA ResolutionMethodsTyped ==
    ASSUME NEW r \in TaskResolution, NEW time \in Timestamps
    PROVE  /\ \A reference \in Texts :
                ResolutionCanOpenDispute(r, time, reference) =>
                  ResolutionOpenDispute(r, time, reference) \in TaskResolution
           /\ \A outcome \in DisputeOutcome :
                ResolutionFinish(r, outcome) \in TaskResolution
<1> USE AccountsAssumption DEF TaskResolution, ResolutionState
<1>1. \A reference \in Texts : ResolutionCanOpenDispute(r, time, reference) =>
         ResolutionOpenDispute(r, time, reference) \in TaskResolution
  <2> SUFFICES ASSUME NEW reference \in Texts,
                      ResolutionCanOpenDispute(r, time, reference)
               PROVE  ResolutionOpenDispute(r, time, reference) \in TaskResolution
    OBVIOUS
  <2>1. time + ArbitrationTimeout \in 0 .. MaxTimestamp
    BY DEF ResolutionCanOpenDispute, FitsTimestamp
  <2> QED BY <2>1 DEF ResolutionOpenDispute
<1>2. \A outcome \in DisputeOutcome : ResolutionFinish(r, outcome) \in TaskResolution
  BY DEF ResolutionFinish
<1> QED BY <1>1, <1>2
=============================================================================
