----------------------------- MODULE SmokeProofs -----------------------------
(***************************************************************************)
(* Proofs about scripts/devnet-smoke-test.ts, for any number of runs: the  *)
(* runs and the people around them use the program as anybody may, so that *)
(* all that is proved of the program holds of their ledger, no two runs    *)
(* ever drive the same task, and a run that nobody interferes with does    *)
(* not fail.                                                               *)
(***************************************************************************)
EXTENDS SmokeTest, LamportProofs

USE DEF Option, Timestamps, Pubkeys

-----------------------------------------------------------------------------
(***************************************************************************)
(* The inductive invariant                                                 *)
(***************************************************************************)

Phases == {"check_balance", "find_profile", "fetch_profile", "simulate", "send",
           "confirm", "fetch", "see_vault", "read_before", "read_after",
           "see_no_vault"} \cup Ended

ClientTyped ==
    /\ phase \in [Runs -> Phases]
    /\ label \in [Runs -> Labels]
    /\ number \in [Runs -> Option(Nat)]

(* The run has seen its create_task land. *)
Driving(r) == HasCreated(r) \/ (label[r] = "create_task" /\ phase[r] = "fetch")

(* The task of the run is there, and nobody has been hired for it but the  *)
(* run's own worker, or a stranger who took it while it was open.          *)
Drives(r) ==
    LET id == TaskOf(r)
    IN /\ id \in TaskIds
       /\ Exists(id)
       /\ assignment[id] # None => assignment[id].selected_worker = WorkerOf[r]
       /\ task[id].worker \in {None, WorkerOf[r]} \cup Strangers

Early == {"check_balance", "find_profile", "fetch_profile"}

Reading == {"see_vault", "read_before", "read_after", "see_no_vault"}

InOrder(r) ==
    /\ phase[r] \in Early => label[r] = "create_creator_profile"
    /\ phase[r] = "fetch_profile" => profile[Operator] # None
    /\ phase[r] \in Reading => HasCreated(r)

(* A transaction in flight is the last that its run has sent, and the run  *)
(* still awaits it or has ended.                                           *)
Pending(r, l) == label[r] = l /\ phase[r] \in {"confirm"} \cup Ended

ClientInv ==
    /\ ClientTyped
    /\ \A r \in Runs : InOrder(r)
    /\ \A r \in Runs : Driving(r) => Drives(r)
    /\ \A r, s \in Runs : Driving(r) /\ Driving(s) /\ number[r] = number[s] => r = s
    /\ \A r \in Runs, l \in Labels : <<r, l>> \in inFlight => Pending(r, l)

-----------------------------------------------------------------------------
(***************************************************************************)
(* The ledger of the script is a ledger of the program                     *)
(***************************************************************************)

(* The keys and arguments of the script are among those anybody may use. *)
LEMMA ScriptArguments ==
    /\ Operator \in Creators /\ Operator \in Keys
    /\ WorkerOf \in [Runs -> Keys]
    /\ \A r \in Runs : WorkerOf[r] \in Keys /\ WorkerOf[r] \in Pubkeys
    /\ Strangers \subseteq Keys
    /\ SmokeText \in Texts
    /\ RewardLamports \in Rewards
BY SmokeAssumption, MarketplaceAssumption, AccountsAssumption

(* A transaction of the script is an instruction of the program. *)
LEMMA TransactionIsStep ==
    ASSUME IInv, ClientInv, NEW r \in Runs, NEW l \in Labels, <<r, l>> \in inFlight,
           Transaction(r, l)
    PROVE  Next
<1>1. Pending(r, l)
  BY DEF ClientInv
<1>2. CASE l = "create_creator_profile"
  <2>1. CreateCreatorProfile(Operator)
    BY <1>2 DEF Transaction
  <2> QED BY <2>1, ScriptArguments DEF Next, Setup
<1>3. CASE l = "create_task"
  <2>1. CreateTask(Operator, number[r], SmokeText, SmokeText, RewardLamports)
    BY <1>3 DEF Transaction
  <2>2. number[r] \in 1 .. MaxTaskCount
    BY <2>1, ScriptArguments, MarketplaceAssumption
    DEF CreateTask, CanCreateTask, IInv, TypeOK
  <2> QED BY <2>1, <2>2, ScriptArguments DEF Next, Setup
<1>4. CASE l \notin {"create_creator_profile", "create_task"}
  <2>1. TaskOf(r) \in TaskIds
    BY <1>1, <1>4 DEF ClientInv, Pending, Driving, HasCreated, Drives
  <2>2. Preparation(TaskOf(r)) \/ Delivery(TaskOf(r))
    BY <1>4, ScriptArguments DEF Transaction, Preparation, Delivery
  <2> QED BY <2>1, <2>2 DEF Next
<1> QED BY <1>2, <1>3, <1>4

(* So is whatever the others do, and nothing else moves the ledger. *)
LEMMA SmokeStepIsStep ==
    ASSUME IInv, ClientInv, [SmokeNext]_smokeVars
    PROVE  [Next]_vars
<1>1. ASSUME NEW r \in Runs, Script(r) \/ Abort(r) PROVE UNCHANGED vars
  BY <1>1
  DEF Script, CheckBalance, FindProfile, FetchProfile, Simulate, Send, FetchAndAssertTask,
      SeeVault, ReadBefore, ReadAfter, SeeNoVault, Reads, Abort, ledger
<1>2. ASSUME NEW r \in Runs, Network(r) PROVE [Next]_vars
  <2> PICK l \in Labels : Land(r, l) \/ Refuse(r, l) \/ Expire(r, l)
    BY <1>2 DEF Network
  <2>1. CASE Land(r, l)
    BY <2>1, TransactionIsStep DEF Land
  <2>2. CASE Refuse(r, l) \/ Expire(r, l)
    BY <2>2 DEF Refuse, Expire, Vanish, ledger
  <2> QED BY <2>1, <2>2
<1>3. CASE Others
  <2>1. ASSUME NEW id \in TaskIds,
               \/ CancelTask(Operator, id)
               \/ RefundTaskAfterTimeout(Operator, id)
               \/ \E w \in Keys : SettleTaskAfterTimeout(id, Operator, w, FALSE)
               \/ \E k \in Strangers : AcceptTask(k, id)
        PROVE  Preparation(id) \/ Delivery(id)
    BY <2>1, ScriptArguments DEF Preparation, Delivery
  <2> QED BY <1>3, <2>1, ScriptArguments DEF Others, Next
<1>4. CASE Time
  BY <1>4 DEF Time, Next
<1>5. CASE UNCHANGED smokeVars
  BY <1>5 DEF smokeVars
<1> QED BY <1>1, <1>2, <1>3, <1>4, <1>5 DEF SmokeNext

(* A profile is never closed. *)
LEMMA ProfileStays ==
    ASSUME IInv, [Next]_vars, profile[Operator] # None
    PROVE  profile'[Operator] # None
<1>1. profile \in [Creators -> Option(0 .. MaxTaskCount)]
  BY DEF IInv, TypeOK
<1>2. ASSUME NEW c \in Creators, OpensProfile(c) PROVE profile'[Operator] # None
  BY <1>1, <1>2, ScriptArguments, AccountsAssumption DEF OpensProfile
<1>3. ASSUME NEW id \in TaskIds, Creates(id) PROVE profile'[Operator] # None
  <2>1. id[2] \in Nat /\ id[1] \in Creators
    BY MarketplaceAssumption DEF TaskIds
  <2> QED BY <1>1, <1>3, <2>1, ScriptArguments, AccountsAssumption DEF Creates
<1> QED BY <1>2, <1>3, StepShape DEF Background, Instruction

-----------------------------------------------------------------------------
(***************************************************************************)
(* Who is hired                                                            *)
(***************************************************************************)

(* A step hires nobody for the task but strangers and the worker w. *)
HiresOnly(id, w) ==
    /\ Exists(id)'
    /\ assignment'[id] # None =>
         \/ assignment'[id].selected_worker = w
         \/ assignment[id] # None
            /\ assignment'[id].selected_worker = assignment[id].selected_worker
    /\ task'[id].worker \in {task[id].worker, w} \cup Strangers

(* A task that a step leaves as it was. *)
LEMMA NobodyIsHired ==
    ASSUME NEW id, NEW w, Exists(id),
           task'[id] \in Task, task'[id].worker = task[id].worker,
           assignment'[id] = assignment[id]
    PROVE  HiresOnly(id, w)
BY MarketplaceAssumption DEF HiresOnly, Exists

(* Most instructions do not hire. *)
LEMMA MostHireNobody ==
    ASSUME IInv, NEW j \in TaskIds, Exists(j), NEW id \in TaskIds, NEW k \in Keys, NEW w,
           \/ CreateCreatorProfile(k)
           \/ \E r \in Rewards : CreateTask(id[1], id[2], SmokeText, SmokeText, r)
           \/ CancelTask(k, id) \/ FundTask(k, id)
           \/ SubmitTask(k, id, SmokeText)
           \/ RefundTaskAfterTimeout(k, id)
           \/ \E p \in Keys : PayTask(k, id, p)
           \/ \E p \in Keys : SettleTaskAfterTimeout(id, k, p, FALSE)
           \/ \E amount \in Donations : Donate(k, id, amount)
           \/ \E to \in Keys, amount \in Transfers : Transfer(k, to, amount)
           \/ AdvanceClock \/ UNCHANGED vars
    PROVE  HiresOnly(j, w)
<1>1. /\ task \in [TaskIds -> Option(Task)]
      /\ task[j] \in Task
      /\ now \in Timestamps
      /\ id = <<id[1], id[2]>>
  BY DEF IInv, TypeOK, Exists, TaskIds
<1>2. CASE task' = task /\ assignment' = assignment
  BY <1>1, <1>2, NobodyIsHired
<1>3. ASSUME NEW t, task' = [task EXCEPT ![id] = t], assignment' = assignment,
             id = j => t \in Task /\ t.worker = task[j].worker
      PROVE  HiresOnly(j, w)
  BY <1>1, <1>3, NobodyIsHired
<1>4. CASE \/ CreateCreatorProfile(k)
           \/ \E amount \in Donations : Donate(k, id, amount)
           \/ \E to \in Keys, amount \in Transfers : Transfer(k, to, amount)
           \/ AdvanceClock \/ UNCHANGED vars
  BY <1>2, <1>4
  DEF CreateCreatorProfile, CanCreateCreatorProfile, Donate, Transfer, AdvanceClock, vars, accounts
<1>5. CASE \E r \in Rewards : CreateTask(id[1], id[2], SmokeText, SmokeText, r)
  <2> PICK r \in Rewards : CreateTask(id[1], id[2], SmokeText, SmokeText, r)
    BY <1>5
  <2>1. /\ ~Exists(id)
        /\ task' = [task EXCEPT ![id] = NewTask(id[1], r)]
        /\ assignment' = assignment
    BY <1>1 DEF CreateTask, CanCreateTask
  <2> QED BY <1>3, <2>1
<1>6. CASE CancelTask(k, id)
  <2>1. task' = [task EXCEPT ![id] = TaskCancel(task[id])] /\ assignment' = assignment
    BY <1>6 DEF CancelTask
  <2>2. TaskCancel(task[j]) \in Task
    BY <1>1, TaskMethodsTyped
  <2>3. TaskCancel(task[j]).worker = task[j].worker
    BY <1>1 DEF TaskCancel, Task
  <2> QED BY <1>3, <2>1, <2>2, <2>3
<1>7. CASE FundTask(k, id)
  <2>1. /\ task' = [task EXCEPT ![id] = TaskFund(task[id], now)]
        /\ assignment' = assignment
        /\ TaskCanFund(task[id], now)
    BY <1>7 DEF FundTask, CanFundTask
  <2>2. id = j => TaskFund(task[j], now) \in Task
    BY <1>1, <2>1, TaskMethodsTyped
  <2>3. TaskFund(task[j], now).worker = task[j].worker
    BY <1>1 DEF TaskFund, Task
  <2> QED BY <1>3, <2>1, <2>2, <2>3
<1>8. CASE SubmitTask(k, id, SmokeText)
  <2>1. /\ task' = [task EXCEPT ![id] = TaskSubmit(task[id], SmokeText, now)]
        /\ assignment' = assignment
        /\ TaskCanSubmit(task[id], k, SmokeText, now)
    BY <1>8 DEF SubmitTask, CanSubmitTask
  <2>2. id = j => TaskSubmit(task[j], SmokeText, now) \in Task
    BY <1>1, <2>1, TaskMethodsTyped, ScriptArguments
  <2>3. TaskSubmit(task[j], SmokeText, now).worker = task[j].worker
    BY <1>1 DEF TaskSubmit, Task
  <2> QED BY <1>3, <2>1, <2>2, <2>3
<1>9. CASE RefundTaskAfterTimeout(k, id)
  <2>1. /\ task' = [task EXCEPT ![id] = TaskRefundAfterTimeout(task[id])]
        /\ assignment' = assignment
    BY <1>9 DEF RefundTaskAfterTimeout
  <2>2. TaskRefundAfterTimeout(task[j]) \in Task
    BY <1>1, TaskMethodsTyped
  <2>3. TaskRefundAfterTimeout(task[j]).worker = task[j].worker
    BY <1>1 DEF TaskRefundAfterTimeout, Task
  <2> QED BY <1>3, <2>1, <2>2, <2>3
<1>10. CASE \/ \E p \in Keys : PayTask(k, id, p)
            \/ \E p \in Keys : SettleTaskAfterTimeout(id, k, p, FALSE)
  <2>1. task' = [task EXCEPT ![id] = TaskPay(task[id])] /\ assignment' = assignment
    BY <1>10 DEF PayTask, SettleTaskAfterTimeout
  <2>2. TaskPay(task[j]) \in Task
    BY <1>1, TaskMethodsTyped
  <2>3. TaskPay(task[j]).worker = task[j].worker
    BY <1>1 DEF TaskPay, Task
  <2> QED BY <1>3, <2>1, <2>2, <2>3
<1> QED BY <1>4, <1>5, <1>6, <1>7, <1>8, <1>9, <1>10

(* A worker who accepts is the one hired, of the task it accepts. *)
LEMMA AcceptingHires ==
    ASSUME IInv, NEW j \in TaskIds, Exists(j), NEW id \in TaskIds, NEW k \in Keys, NEW w,
           AcceptTask(k, id) \/ AcceptAssignment(k, id),
           id = j => k \in {w} \cup Strangers
    PROVE  HiresOnly(j, w)
<1>1. /\ task \in [TaskIds -> Option(Task)]
      /\ assignment \in [TaskIds -> Option(WorkerAssignment)]
      /\ task[j] \in Task /\ now \in Timestamps
  BY DEF IInv, TypeOK, Exists
<1>2. /\ TaskAccept(task[j], k) \in Task
      /\ TaskAcceptAssignment(task[j], k) \in Task
  BY <1>1, TaskMethodsTyped
<1>3. /\ TaskAccept(task[j], k).worker = k
      /\ TaskAcceptAssignment(task[j], k).worker = k
  BY <1>1 DEF TaskAccept, TaskAcceptAssignment, Task
<1>4. CASE id # j
  <2>1. task'[j] = task[j] /\ assignment'[j] = assignment[j]
    BY <1>1, <1>4 DEF AcceptTask, AcceptAssignment, CanAcceptAssignment
  <2> QED BY <1>1, <2>1, NobodyIsHired
<1>5. CASE id = j
  <2>1. task'[j] \in Task /\ task'[j].worker = k
    BY <1>1, <1>2, <1>3, <1>5 DEF AcceptTask, AcceptAssignment, CanAcceptAssignment
  <2>2. CASE AcceptTask(k, id)
    <3>1. assignment'[j] = assignment[j]
      BY <2>2 DEF AcceptTask
    <3> QED BY <1>5, <2>1, <3>1, MarketplaceAssumption DEF HiresOnly, Exists
  <2>3. CASE AcceptAssignment(k, id)
    <3>1. /\ assignment[j] \in WorkerAssignment /\ assignment[j] # None
          /\ assignment'[j] = AssignmentAccept(assignment[j], now)
      BY <1>1, <1>5, <2>3 DEF AcceptAssignment, CanAcceptAssignment
    <3>2. assignment'[j].selected_worker = assignment[j].selected_worker
      BY <3>1 DEF AssignmentAccept, WorkerAssignment
    <3> QED BY <1>5, <2>1, <3>1, <3>2, MarketplaceAssumption DEF HiresOnly, Exists
  <2> QED BY <2>2, <2>3
<1> QED BY <1>4, <1>5

(* A creator who assigns a task selects for that task only. *)
LEMMA AssigningSelects ==
    ASSUME IInv, NEW j \in TaskIds, Exists(j), NEW id \in TaskIds, NEW k, NEW p, NEW w,
           AssignWorker(k, id, p), id = j => p = w
    PROVE  HiresOnly(j, w)
<1>1. /\ task \in [TaskIds -> Option(Task)]
      /\ assignment \in [TaskIds -> Option(WorkerAssignment)]
      /\ task[j] \in Task /\ now \in Timestamps
  BY DEF IInv, TypeOK, Exists
<1>2. TaskAssignWorker(task[j]) \in Task
  BY <1>1, TaskMethodsTyped
<1>3. TaskAssignWorker(task[j]).worker = task[j].worker
  BY <1>1 DEF TaskAssignWorker, Task
<1>4. /\ task'[j] \in Task
      /\ task'[j].worker = task[j].worker
  BY <1>1, <1>2, <1>3 DEF AssignWorker, CanAssignWorker
<1>5. CASE id # j
  <2>1. assignment'[j] = assignment[j]
    BY <1>1, <1>5 DEF AssignWorker, CanAssignWorker
  <2> QED BY <1>4, <2>1, NobodyIsHired
<1>6. CASE id = j
  <2>1. assignment'[j].selected_worker = w
    BY <1>1, <1>6 DEF AssignWorker, CanAssignWorker, NewAssignment
  <2> QED BY <1>4, <2>1, MarketplaceAssumption DEF HiresOnly, Exists
<1> QED BY <1>5, <1>6

-----------------------------------------------------------------------------
(***************************************************************************)
(* The task of a run through the steps of everybody                        *)
(***************************************************************************)

(* A run whose transaction lands hires for its own task, and that is the   *)
(* task of no other run.                                                   *)
LEMMA TransactionsHire ==
    ASSUME IInv, ClientInv, NEW r \in Runs, NEW l \in Labels, <<r, l>> \in inFlight,
           Transaction(r, l), NEW s \in Runs, Driving(s)
    PROVE  HiresOnly(TaskOf(s), WorkerOf[s])
<1>1. /\ TaskOf(s) \in TaskIds /\ Exists(TaskOf(s))
      /\ Operator \in Creators /\ Operator \in Keys
      /\ WorkerOf[r] \in Keys
  BY ScriptArguments DEF ClientInv, Drives
<1>2. CASE l = "create_creator_profile"
  <2>1. CreateCreatorProfile(Operator)
    BY <1>2 DEF Transaction
  <2> QED BY <1>1, <2>1, MostHireNobody
<1>3. CASE l = "create_task"
  <2>1. CreateTask(Operator, number[r], SmokeText, SmokeText, RewardLamports)
    BY <1>3 DEF Transaction
  <2>2. number[r] \in 1 .. MaxTaskCount
    BY <2>1, <1>1, MarketplaceAssumption DEF CreateTask, CanCreateTask, IInv, TypeOK
  <2>3. /\ TaskOf(r) \in TaskIds
        /\ CreateTask(TaskOf(r)[1], TaskOf(r)[2], SmokeText, SmokeText, RewardLamports)
    BY <1>1, <2>1, <2>2 DEF TaskOf, TaskIds
  <2> QED BY <1>1, <2>3, ScriptArguments, MostHireNobody
<1>4. CASE l \notin {"create_creator_profile", "create_task"}
  <2>1. Driving(r)
    BY <1>4 DEF ClientInv, Pending, Driving, HasCreated
  <2>2. TaskOf(r) \in TaskIds
    BY <2>1 DEF ClientInv, Drives
  <2>3. TaskOf(r) = TaskOf(s) => WorkerOf[r] = WorkerOf[s]
    BY <2>1 DEF ClientInv, TaskOf
  <2>4. CASE AssignWorker(Operator, TaskOf(r), WorkerOf[r])
    BY <1>1, <2>2, <2>3, <2>4, AssigningSelects
  <2>5. CASE AcceptAssignment(WorkerOf[r], TaskOf(r))
    BY <1>1, <2>2, <2>3, <2>5, AcceptingHires
  <2>6. CASE \/ FundTask(Operator, TaskOf(r))
             \/ PayTask(Operator, TaskOf(r), WorkerOf[r])
    BY <1>1, <2>2, <2>6, MostHireNobody
  <2>7. CASE SubmitTask(WorkerOf[r], TaskOf(r), SmokeText)
    BY <1>1, <2>2, <2>7, MostHireNobody
  <2> QED BY <1>4, <2>4, <2>5, <2>6, <2>7 DEF Transaction
<1> QED BY <1>2, <1>3, <1>4

(* Whatever the script, the network and the others do, nobody is hired     *)
(* for the task of a run but its own worker or a stranger.                 *)
LEMMA SmokeStepsHire ==
    ASSUME IInv, ClientInv, [SmokeNext]_smokeVars, NEW s \in Runs, Driving(s)
    PROVE  HiresOnly(TaskOf(s), WorkerOf[s])
<1>1. /\ TaskOf(s) \in TaskIds /\ Exists(TaskOf(s))
      /\ Operator \in Keys
      /\ Strangers \subseteq Keys
  BY ScriptArguments DEF ClientInv, Drives
<1>2. CASE UNCHANGED vars
  BY <1>1, <1>2, MostHireNobody
<1>3. CASE AdvanceClock
  BY <1>1, <1>3, MostHireNobody
<1>4. ASSUME NEW r \in Runs, Script(r) \/ Abort(r) PROVE UNCHANGED vars
  BY <1>4
  DEF Script, CheckBalance, FindProfile, FetchProfile, Simulate, Send, FetchAndAssertTask,
      SeeVault, ReadBefore, ReadAfter, SeeNoVault, Reads, Abort, ledger
<1>5. ASSUME NEW r \in Runs, Network(r)
      PROVE  UNCHANGED vars \/ HiresOnly(TaskOf(s), WorkerOf[s])
  <2> PICK l \in Labels : Land(r, l) \/ Refuse(r, l) \/ Expire(r, l)
    BY <1>5 DEF Network
  <2>1. CASE Land(r, l)
    BY <2>1, TransactionsHire DEF Land
  <2>2. CASE Refuse(r, l) \/ Expire(r, l)
    BY <2>2 DEF Refuse, Expire, Vanish, ledger
  <2> QED BY <2>1, <2>2
<1>6. CASE Others
  <2>1. CASE \E id \in TaskIds :
               \/ CancelTask(Operator, id)
               \/ RefundTaskAfterTimeout(Operator, id)
               \/ \E w \in Keys : SettleTaskAfterTimeout(id, Operator, w, FALSE)
    BY <1>1, <2>1, MostHireNobody
  <2>2. CASE \E id \in TaskIds, k \in Strangers, amount \in Donations :
               Donate(k, id, amount)
    BY <1>1, <2>2, MostHireNobody
  <2>3. CASE \E k \in Strangers, to \in Keys, amount \in Transfers :
               Transfer(k, to, amount)
    BY <1>1, <2>3, MostHireNobody
  <2>4. CASE \E id \in TaskIds, k \in Strangers : AcceptTask(k, id)
    BY <1>1, <2>4, AcceptingHires
  <2> QED BY <1>6, <2>1, <2>2, <2>3, <2>4 DEF Others
<1> QED BY <1>2, <1>3, <1>4, <1>5, <1>6 DEF SmokeNext, Time, smokeVars

(* A run that drives its task goes on driving it. *)
LEMMA DrivesStays ==
    ASSUME IInv, ClientInv, [SmokeNext]_smokeVars, NEW s \in Runs, Driving(s),
           number'[s] = number[s]
    PROVE  Drives(s)'
<1>1. HiresOnly(TaskOf(s), WorkerOf[s])
  BY SmokeStepsHire
<1>2. Drives(s)
  BY DEF ClientInv
<1>3. (TaskOf(s))' = TaskOf(s)
  BY DEF TaskOf
<1> QED BY <1>1, <1>2, <1>3 DEF Drives, HiresOnly, Exists

-----------------------------------------------------------------------------
(***************************************************************************)
(* The invariant is kept                                                   *)
(***************************************************************************)

DrivingAt(p, l) ==
    \/ l \notin {"create_creator_profile", "create_task"}
    \/ l = "create_task" /\ p = "fetch"

(* One run r moves to the phase p and the transaction l.  It becomes the   *)
(* driver of a task only if nobody else is, and every other run stays      *)
(* where it is.                                                            *)
LEMMA OneRunMoves ==
    ASSUME IInv, ClientInv, [SmokeNext]_smokeVars, NEW r \in Runs,
           NEW p \in Phases, NEW l \in Labels,
           phase' = [phase EXCEPT ![r] = p], label' = [label EXCEPT ![r] = l],
           \/ number' = number
           \/ ~DrivingAt(p, l) /\ \E n \in Nat : number' = [number EXCEPT ![r] = n],
           p \in Early => l = "create_creator_profile",
           p = "fetch_profile" => profile'[Operator] # None,
           p \in Reading => DrivingAt("", l),
           DrivingAt(p, l) =>
             \/ Driving(r)
             \/ Drives(r)' /\ \A s \in Runs : Driving(s) => number[s] # number[r],
           \/ /\ phase[r] \notin {"confirm"} \cup Ended
              /\ inFlight' \subseteq inFlight \cup (IF p = "confirm" THEN {<<r, l>>} ELSE {})
           \/ p \in Ended /\ l = label[r] /\ inFlight' \subseteq inFlight
           \/ inFlight' \subseteq inFlight \ {<<r, label[r]>>}
    PROVE  ClientInv'
<1>1. ClientTyped
  BY DEF ClientInv
<1>2. /\ phase'[r] = p /\ label'[r] = l
      /\ \A s \in Runs \ {r} :
            phase'[s] = phase[s] /\ label'[s] = label[s] /\ number'[s] = number[s]
  BY <1>1 DEF ClientTyped
<1>3. ClientTyped'
  BY <1>1 DEF ClientTyped
<1>4. /\ Driving(r)' <=> DrivingAt(p, l)
      /\ \A s \in Runs \ {r} : Driving(s)' <=> Driving(s)
  BY <1>2 DEF Driving, HasCreated, DrivingAt
<1>5. DrivingAt(p, l) => number' = number
  OBVIOUS
<1>6. \A s \in Runs : InOrder(s)'
  <2>1. profile[Operator] # None => profile'[Operator] # None
    BY SmokeStepIsStep, ProfileStays
  <2>2. InOrder(r)'
    BY <1>2 DEF InOrder, HasCreated, DrivingAt
  <2>3. ASSUME NEW s \in Runs \ {r} PROVE InOrder(s)'
    BY <1>2, <2>1 DEF ClientInv, InOrder, HasCreated
  <2> QED BY <2>2, <2>3
<1>7. \A s \in Runs : Driving(s)' => Drives(s)'
  <2>1. Driving(r)' => Drives(r)'
    BY <1>4, <1>5, DrivesStays
  <2>2. ASSUME NEW s \in Runs \ {r} PROVE Driving(s)' => Drives(s)'
    BY <1>2, <1>4, DrivesStays
  <2> QED BY <2>1, <2>2
<1>8. \A s, t \in Runs :
         Driving(s)' /\ Driving(t)' /\ number'[s] = number'[t] => s = t
  <2>1. ASSUME NEW s \in Runs, NEW t \in Runs, Driving(s), Driving(t),
               number[s] = number[t]
        PROVE  s = t
    BY <2>1 DEF ClientInv
  <2>2. ASSUME NEW s \in Runs \ {r}, Driving(s)', Driving(r)' PROVE number'[s] # number'[r]
    BY <1>2, <1>4, <1>5, <2>1, <2>2
  <2> QED BY <1>2, <1>4, <2>1, <2>2
<1>9. ASSUME NEW s \in Runs, NEW m \in Labels, <<s, m>> \in inFlight'
      PROVE  Pending(s, m)'
  <2>1. <<s, m>> \in inFlight => Pending(s, m)
    BY DEF ClientInv
  <2>2. CASE s # r
    <3>1. <<s, m>> # <<r, l>>
      BY <2>2
    <3>2. <<s, m>> \in inFlight
      BY <1>9, <3>1
    <3> QED BY <1>2, <2>1, <2>2, <3>2 DEF Pending
  <2>3. CASE s = r /\ <<s, m>> \in inFlight
    <3>1. label[r] = m /\ phase[r] \in {"confirm"} \cup Ended
      BY <2>1, <2>3 DEF Pending
    <3>2. p \in Ended /\ l = label[r]
      BY <1>9, <2>3, <3>1
    <3> QED BY <1>2, <2>3, <3>1, <3>2 DEF Pending
  <2>4. CASE s = r /\ <<s, m>> \notin inFlight
    <3>1. p = "confirm" /\ <<s, m>> = <<r, l>>
      BY <1>9, <2>4
    <3> QED BY <1>2, <2>4, <3>1 DEF Pending
  <2> QED BY <2>2, <2>3, <2>4
<1> QED BY <1>3, <1>6, <1>7, <1>8, <1>9 DEF ClientInv

(* No run moves. *)
LEMMA NoRunMoves ==
    ASSUME IInv, ClientInv, [SmokeNext]_smokeVars, UNCHANGED <<phase, label, number, inFlight>>
    PROVE  ClientInv'
<1>1. profile[Operator] # None => profile'[Operator] # None
  BY SmokeStepIsStep, ProfileStays
<1>2. \A s \in Runs : Driving(s)' <=> Driving(s)
  BY DEF Driving, HasCreated
<1>3. \A s \in Runs : Driving(s) => Drives(s)'
  BY DrivesStays
<1>4. \A s \in Runs : InOrder(s)'
  BY <1>1 DEF ClientInv, InOrder, HasCreated
<1>5. ClientTyped'
  BY DEF ClientInv, ClientTyped
<1>6. \A r \in Runs, l \in Labels : <<r, l>> \in inFlight' => Pending(r, l)'
  BY DEF ClientInv, Pending
<1>7. \A r, s \in Runs : Driving(r) /\ Driving(s) /\ number'[r] = number'[s] => r = s
  BY DEF ClientInv
<1> QED BY <1>2, <1>3, <1>4, <1>5, <1>6, <1>7 DEF ClientInv

(* A read of the script: the run goes on, begins a transaction or fails. *)
LEMMA ReadingKeeps ==
    ASSUME IInv, ClientInv, [SmokeNext]_smokeVars, NEW r \in Runs,
           \/ CheckBalance(r) \/ FindProfile(r) \/ FetchProfile(r) \/ Simulate(r)
           \/ FetchAndAssertTask(r) \/ SeeVault(r) \/ ReadBefore(r) \/ ReadAfter(r)
           \/ SeeNoVault(r)
    PROVE  ClientInv'
<1>1. /\ phase \in [Runs -> Phases] /\ label \in [Runs -> Labels]
      /\ label[r] \in Labels
      /\ phase = [phase EXCEPT ![r] = phase[r]]
      /\ label = [label EXCEPT ![r] = label[r]]
      /\ InOrder(r)
  BY DEF ClientInv, ClientTyped
<1>2. /\ phase[r] \notin {"confirm"} \cup Ended
      /\ inFlight' = inFlight /\ profile' = profile
  BY DEF CheckBalance, FindProfile, FetchProfile, Simulate, FetchAndAssertTask, SeeVault,
         ReadBefore, ReadAfter, SeeNoVault, Reads, Ended, ledger, vars
<1>3. ASSUME NEW p \in Phases, NEW l \in Labels,
             phase' = [phase EXCEPT ![r] = p], label' = [label EXCEPT ![r] = l],
             \/ number' = number
             \/ ~DrivingAt(p, l) /\ \E n \in Nat : number' = [number EXCEPT ![r] = n],
             p \in Early => l = "create_creator_profile",
             p = "fetch_profile" => profile[Operator] # None,
             p \in Reading => DrivingAt("", l),
             DrivingAt(p, l) => Driving(r)
      PROVE  ClientInv'
  BY <1>2, <1>3, OneRunMoves
<1>4. ASSUME NEW l \in Labels, l \notin {"create_creator_profile", "create_task"} =>
               Driving(r), number' = number, Begin(r, l)
      PROVE  ClientInv'
  BY <1>3, <1>4 DEF Begin, Phases, Early, Reading, DrivingAt
<1>5. ASSUME number' = number, GoTo(r, "failed") PROVE ClientInv'
  <2>1. DrivingAt("failed", label[r]) => Driving(r)
    BY DEF DrivingAt, Driving, HasCreated
  <2> QED BY <1>1, <1>3, <1>5, <2>1 DEF GoTo, Phases, Ended, Early, Reading
<1>6. ASSUME NEW p \in Phases \ (Early \cup Reading \cup {"fetch"}),
             number' = number, GoTo(r, p)
      PROVE  ClientInv'
  <2>1. DrivingAt(p, label[r]) => Driving(r)
    BY DEF DrivingAt, Driving, HasCreated
  <2> QED BY <1>1, <1>3, <1>6, <2>1 DEF GoTo, Early
<1>7. ASSUME NEW p \in Reading, HasCreated(r), number' = number, GoTo(r, p)
      PROVE  ClientInv'
  <2>1. Driving(r) /\ DrivingAt("", label[r])
    BY <1>7 DEF DrivingAt, Driving, HasCreated
  <2> QED BY <1>1, <1>3, <1>7, <2>1 DEF GoTo, Phases, Early, Reading
<1>8. CASE CheckBalance(r)
  <2>1. label[r] = "create_creator_profile"
    BY <1>1, <1>8 DEF CheckBalance, Reads, InOrder, Early
  <2>2. \E p \in {"find_profile", "refused"} : GoTo(r, p) /\ number' = number
    BY <1>8 DEF CheckBalance
  <2> QED BY <1>1, <1>3, <2>1, <2>2 DEF GoTo, Phases, Ended, Early, Reading, DrivingAt
<1>9. CASE FindProfile(r)
  <2>1. label[r] = "create_creator_profile"
    BY <1>1, <1>9 DEF FindProfile, Reads, InOrder, Early
  <2>2. CASE profile[Operator] = None
    BY <1>4, <1>9, <2>2 DEF FindProfile, Labels
  <2>3. CASE profile[Operator] # None
    <3>1. GoTo(r, "fetch_profile") /\ number' = number
      BY <1>9, <2>3 DEF FindProfile
    <3> QED BY <1>1, <1>3, <2>1, <2>3, <3>1 DEF GoTo, Phases, Early, Reading, DrivingAt
  <2> QED BY <2>2, <2>3
<1>10. CASE FetchProfile(r)
  <2>1. profile[Operator] + 1 \in Nat
    <3>1. profile[Operator] # None
      BY <1>1, <1>10 DEF FetchProfile, Reads, InOrder
    <3> QED BY <3>1, ScriptArguments, MarketplaceAssumption DEF IInv, TypeOK
  <2>2. /\ number' = [number EXCEPT ![r] = profile[Operator] + 1]
        /\ Begin(r, "create_task")
    BY <1>10 DEF FetchProfile
  <2> QED BY <1>3, <2>1, <2>2 DEF Begin, Labels, Phases, Early, Reading, DrivingAt
<1>11. CASE Simulate(r)
  <2>1. number' = number /\ (GoTo(r, "send") \/ GoTo(r, "failed"))
    BY <1>11 DEF Simulate, Require
  <2> QED BY <1>5, <1>6, <2>1 DEF Phases, Early, Reading
<1>12. CASE FetchAndAssertTask(r)
  <2>1. number' = number /\ phase[r] = "fetch" /\ (Proceed(r) \/ GoTo(r, "failed"))
    BY <1>12 DEF FetchAndAssertTask, Require, Reads
  <2>2. CASE Proceed(r)
    <3>1. Driving(r) /\ (label[r] # "create_task" => HasCreated(r))
      BY <2>1, <2>2 DEF Proceed, Driving, HasCreated
    <3> QED BY <1>4, <1>7, <2>1, <2>2, <3>1 DEF Proceed, Labels, Reading
  <2> QED BY <1>5, <2>1, <2>2
<1>13. CASE SeeVault(r) \/ ReadBefore(r) \/ ReadAfter(r) \/ SeeNoVault(r)
  <2>1. HasCreated(r) /\ Driving(r)
    BY <1>1, <1>13
    DEF SeeVault, ReadBefore, ReadAfter, SeeNoVault, Reads, InOrder, Reading, Driving
  <2>2. /\ number' = number
        /\ \/ Begin(r, "submit_task") \/ Begin(r, "pay_task")
           \/ GoTo(r, "see_no_vault") \/ GoTo(r, "succeeded") \/ GoTo(r, "failed")
    BY <1>13 DEF SeeVault, ReadBefore, ReadAfter, SeeNoVault, Require
  <2> QED BY <1>4, <1>5, <1>6, <1>7, <2>1, <2>2 DEF Labels, Phases, Ended, Early, Reading
<1> QED BY <1>8, <1>9, <1>10, <1>11, <1>12, <1>13

(* A run that sends, and one that is interrupted. *)
LEMMA SendingKeeps ==
    ASSUME IInv, ClientInv, [SmokeNext]_smokeVars, NEW r \in Runs, Send(r) \/ Abort(r)
    PROVE  ClientInv'
<1>1. /\ phase \in [Runs -> Phases] /\ label \in [Runs -> Labels]
      /\ label[r] \in Labels
      /\ label = [label EXCEPT ![r] = label[r]]
  BY DEF ClientInv, ClientTyped
<1>2. CASE Send(r)
  <2>1. /\ phase[r] = "send"
        /\ inFlight' = inFlight \cup {<<r, label[r]>>}
        /\ phase' = [phase EXCEPT ![r] = "confirm"]
        /\ label' = [label EXCEPT ![r] = label[r]]
        /\ number' = number
    BY <1>1, <1>2 DEF Send, GoTo
  <2>2. DrivingAt("confirm", label[r]) => Driving(r)
    BY DEF DrivingAt, Driving, HasCreated
  <2>3. phase[r] \notin {"confirm"} \cup Ended
    BY <2>1 DEF Ended
  <2> QED BY <1>1, <2>1, <2>2, <2>3, OneRunMoves DEF Phases, Early, Reading
<1>3. CASE Abort(r)
  <2>1. /\ inFlight' = inFlight
        /\ phase' = [phase EXCEPT ![r] = "failed"]
        /\ label' = [label EXCEPT ![r] = label[r]]
        /\ number' = number
    BY <1>1, <1>3 DEF Abort, GoTo
  <2>2. DrivingAt("failed", label[r]) => Driving(r)
    BY DEF DrivingAt, Driving, HasCreated
  <2> QED BY <1>1, <2>1, <2>2, OneRunMoves DEF Phases, Ended, Early, Reading
<1> QED BY <1>2, <1>3

(* The create_task of a run lands only at a number that nobody drives.     *)
LEMMA CreationDrives ==
    ASSUME IInv, ClientInv, NEW r \in Runs, NEW reward,
           CreateTask(Operator, number[r], SmokeText, SmokeText, reward),
           reward \in Rewards, number' = number
    PROVE  /\ Drives(r)'
           /\ \A s \in Runs : Driving(s) => number[s] # number[r]
<1>1. /\ task \in [TaskIds -> Option(Task)]
      /\ Operator \in Creators
      /\ number[r] \in 1 .. MaxTaskCount
  BY ScriptArguments, MarketplaceAssumption DEF CreateTask, CanCreateTask, IInv, TypeOK
<1>2. TaskOf(r) \in TaskIds /\ (TaskOf(r))' = TaskOf(r)
  BY <1>1 DEF TaskOf, TaskIds
<1>3. ~Exists(TaskOf(r))
  BY DEF CreateTask, CanCreateTask, TaskOf
<1>4. task'[TaskOf(r)] = NewTask(Operator, reward)
  BY <1>1, <1>2 DEF CreateTask, TaskOf
<1>5. /\ NewTask(Operator, reward) \in Task
      /\ NewTask(Operator, reward).worker = None
  BY ScriptArguments, MarketplaceAssumption DEF NewTask, Task, TaskStatus
<1>6. assignment'[TaskOf(r)] = None
  BY <1>2, <1>3 DEF IInv, AccountsAgree, AssignmentAgrees, CreateTask, Exists
<1>7. Drives(r)'
  BY <1>2, <1>4, <1>5, <1>6, MarketplaceAssumption DEF Drives, Exists
<1>8. ASSUME NEW s \in Runs, Driving(s) PROVE number[s] # number[r]
  BY <1>3, <1>8 DEF ClientInv, Drives, TaskOf
<1> QED BY <1>7, <1>8

(* A transaction lands, is refused or expires, awaited or not. *)
LEMMA NetworkKeeps ==
    ASSUME IInv, ClientInv, [SmokeNext]_smokeVars, NEW r \in Runs, Network(r)
    PROVE  ClientInv'
<1> PICK l \in Labels : Land(r, l) \/ Refuse(r, l) \/ Expire(r, l)
  BY DEF Network
<1>1. /\ phase \in [Runs -> Phases] /\ label \in [Runs -> Labels]
      /\ phase[r] \in Phases
      /\ phase = [phase EXCEPT ![r] = phase[r]]
      /\ label = [label EXCEPT ![r] = label[r]]
      /\ InOrder(r)
  BY DEF ClientInv, ClientTyped
<1>2. <<r, l>> \in inFlight /\ Pending(r, l)
  BY DEF Land, Refuse, Expire, Vanish, ClientInv
<1>3. /\ label[r] = l /\ label' = label /\ number' = number
      /\ inFlight' = inFlight \ {<<r, l>>}
      /\ phase[r] \in {"confirm"} \cup Ended
  BY <1>2 DEF Land, Refuse, Expire, Vanish, Pending
<1>4. ASSUME NEW p \in Phases, phase' = [phase EXCEPT ![r] = p],
             p \notin Reading, p \in Early => l = "create_creator_profile",
             p = "fetch_profile" => profile'[Operator] # None,
             p = "fetch" /\ l = "create_task" =>
               Drives(r)' /\ \A s \in Runs : Driving(s) => number[s] # number[r]
      PROVE  ClientInv'
  <2>1. CASE p = "fetch" /\ l = "create_task"
    BY <1>1, <1>3, <1>4, <2>1, OneRunMoves DEF Reading
  <2>2. CASE ~(p = "fetch" /\ l = "create_task")
    <3>1. DrivingAt(p, l) => Driving(r)
      BY <1>3, <2>2 DEF DrivingAt, Driving, HasCreated
    <3> QED BY <1>1, <1>3, <1>4, <3>1, OneRunMoves
  <2> QED BY <2>1, <2>2
<1>5. CASE Awaits(r, l) = {}
  <2>1. phase' = [phase EXCEPT ![r] = phase[r]]
    BY <1>1, <1>5 DEF Land, Refuse, Expire, Vanish
  <2>2. phase[r] \notin Reading \cup Early \cup {"fetch"}
    BY <1>3 DEF Ended, Reading, Early
  <2> QED BY <1>1, <1>4, <2>1, <2>2 DEF Early
<1>6. CASE Awaits(r, l) = {r}
  <2>1. CASE Refuse(r, l) \/ Expire(r, l)
    <3>1. phase' = [phase EXCEPT ![r] = "failed"]
      BY <1>1, <1>6, <2>1 DEF Refuse, Expire, Vanish
    <3> QED BY <1>4, <3>1 DEF Phases, Ended, Early, Reading
  <2>2. CASE Land(r, l) /\ l = "create_creator_profile"
    <3>1. phase' = [phase EXCEPT ![r] = "fetch_profile"]
      BY <1>1, <1>6, <2>2 DEF Land
    <3>2. CreateCreatorProfile(Operator)
      BY <2>2 DEF Land, Transaction
    <3>3. profile'[Operator] # None
      BY <3>2, ScriptArguments, AccountsAssumption
      DEF CreateCreatorProfile, CanCreateCreatorProfile, IInv, TypeOK
    <3> QED BY <1>4, <2>2, <3>1, <3>3 DEF Phases, Early, Reading
  <2>3. CASE Land(r, l) /\ l # "create_creator_profile"
    <3>1. phase' = [phase EXCEPT ![r] = "fetch"]
      BY <1>1, <1>6, <2>3 DEF Land
    <3>2. l = "create_task" =>
            Drives(r)' /\ \A s \in Runs : Driving(s) => number[s] # number[r]
      BY <1>3, <2>3, ScriptArguments, CreationDrives DEF Land, Transaction
    <3> QED BY <1>4, <3>1, <3>2 DEF Phases, Early, Reading
  <2> QED BY <2>1, <2>2, <2>3
<1> QED BY <1>5, <1>6 DEF Awaits

-----------------------------------------------------------------------------
(* Initially no run drives a task. *)
LEMMA SmokeInitHolds == SmokeInit => IInv /\ ClientInv
<1> SUFFICES ASSUME SmokeInit PROVE IInv /\ ClientInv OBVIOUS
<1>1. IInv
  BY InitAgrees DEF SmokeInit
<1>2. ClientTyped
  BY DEF SmokeInit, ClientTyped, Phases, Labels
<1>3. \A r \in Runs : InOrder(r) /\ ~Driving(r)
  BY DEF SmokeInit, InOrder, Driving, HasCreated, Early, Reading
<1> QED BY <1>1, <1>2, <1>3 DEF ClientInv, SmokeInit

(* Every step of a run, of the network and of the others keeps the         *)
(* invariant.                                                              *)
LEMMA SmokeNextKeeps == IInv /\ ClientInv /\ [SmokeNext]_smokeVars => (IInv /\ ClientInv)'
<1> SUFFICES ASSUME IInv, ClientInv, [SmokeNext]_smokeVars PROVE (IInv /\ ClientInv)'
  OBVIOUS
<1>1. IInv'
  BY SmokeStepIsStep, NextAgrees
<1>2. ASSUME NEW r \in Runs, Script(r) \/ Network(r) \/ Abort(r) PROVE ClientInv'
  BY <1>2, ReadingKeeps, SendingKeeps, NetworkKeeps DEF Script
<1>3. CASE Others \/ Time \/ UNCHANGED smokeVars
  <2>1. UNCHANGED <<client, inFlight>>
    BY <1>3 DEF Others, Time, smokeVars
  <2>2. UNCHANGED <<phase, label, number, inFlight>>
    BY <2>1 DEF client
  <2> QED BY <1>1, <2>2, NoRunMoves
<1> QED BY <1>1, <1>2, <1>3 DEF SmokeNext

(* The inductive invariant of the script, together with that of the        *)
(* program it uses: a run past create_task has a task of its own, and      *)
(* what it has in flight is the last transaction it sent.                  *)
THEOREM ClientsAlwaysAgree == SmokeSpec => [](IInv /\ ClientInv)
BY SmokeInitHolds, SmokeNextKeeps, PTL DEF SmokeSpec

(* Runs of the script, transactions that land after their run was given    *)
(* up, the operator and strangers together do to the ledger only what      *)
(* the program allows anybody to do: every theorem about Spec holds of     *)
(* their ledger.                                                           *)
THEOREM ScriptUsesProgram == SmokeSpec => Spec
<1>1. SmokeInit => Init
  BY DEF SmokeInit
<1>2. IInv /\ ClientInv /\ [SmokeNext]_smokeVars => [Next]_vars
  BY SmokeStepIsStep
<1> QED BY <1>1, <1>2, ClientsAlwaysAgree, PTL DEF SmokeSpec, Spec

(* Two runs never drive the same task, though both may have read the       *)
(* same task_count, and nobody but the run, or a stranger who took the     *)
(* task while it was open, is hired for it.                                *)
THEOREM OneDriverEach == SmokeSpec => []OneDriverPerTask
<1>1. IInv /\ ClientInv => OneDriverPerTask
  BY DEF ClientInv, OneDriverPerTask, Driving, Drives
<1> QED BY <1>1, ClientsAlwaysAgree, PTL

-----------------------------------------------------------------------------
(***************************************************************************)
(* Undisturbed runs                                                        *)
(*                                                                         *)
(* What the ledger looks like to a run whose next transaction is l, as far *)
(* as somebody else's change would have been an interference: the profile, *)
(* the task, the vault, the operator's wallet and its worker's.            *)
(***************************************************************************)

(* What the operator still has to pay from the transaction l on. *)
Reserve(l) ==
    WalletMinimum +
    CASE l = "create_creator_profile" -> ScriptCost
      [] l = "create_task" -> ScriptCost - Rent["profile"]
      [] l = "assign_worker" -> Rent["assignment"] + VaultRent + RewardLamports
      [] l \in {"accept_assignment", "fund_task"} -> VaultRent + RewardLamports
      [] OTHER -> 0

TaskStands(r, status, worker) ==
    /\ TaskOf(r) \in TaskIds
    /\ Exists(TaskOf(r))
    /\ task[TaskOf(r)].status = status
    /\ task[TaskOf(r)].worker = worker
    /\ task[TaskOf(r)].reward_amount = RewardLamports
    /\ status \in {"Open", "Assigned", "Accepted"} =>
         /\ task[TaskOf(r)].funded_at = None
         /\ task[TaskOf(r)].submission_deadline = None
         /\ task[TaskOf(r)].submission_reference = None
    /\ status = "Funded" => now < task[TaskOf(r)].submission_deadline

Stands(r, l) ==
    CASE l = "create_creator_profile" -> profile[Operator] = None
      [] l = "create_task" -> profile[Operator] # None
                              /\ number[r] = profile[Operator] + 1
      [] l = "assign_worker" -> TaskStands(r, "Open", None)
      [] l = "accept_assignment" -> TaskStands(r, "Assigned", None)
      [] l = "fund_task" -> TaskStands(r, "Accepted", WorkerOf[r])
      [] l = "submit_task" -> TaskStands(r, "Funded", WorkerOf[r])
      [] l = "pay_task" -> TaskStands(r, "Submitted", WorkerOf[r])
      [] OTHER -> /\ TaskStands(r, "Paid", WorkerOf[r])
                  /\ vaultBalance[TaskOf(r)] = 0
                  /\ wallet[WorkerOf[r]] - before[r] = RewardLamports

Due(r, l) == Stands(r, l) /\ wallet[Operator] >= Reserve(l)

NextLabel(l) ==
    CASE l = "create_creator_profile" -> "create_task"
      [] l = "create_task" -> "assign_worker"
      [] l = "assign_worker" -> "accept_assignment"
      [] l = "accept_assignment" -> "fund_task"
      [] l = "fund_task" -> "submit_task"
      [] l = "submit_task" -> "pay_task"
      [] OTHER -> "done"

Sending == {"simulate", "send", "confirm"}

(* The ledger is as the run, at the phase p of its transaction l, expects. *)
LedgerFits(r, p, l) ==
    /\ p = "find_profile" => wallet[Operator] >= Reserve("create_creator_profile")
    /\ p = "fetch_profile" => wallet[Operator] >= Reserve("create_task")
    /\ p \in Sending =>
         /\ Due(r, l)
         /\ l = "pay_task" => before[r] = wallet[WorkerOf[r]]
    /\ p \in {"fetch"} \cup Reading => l # "create_creator_profile" /\ Due(r, NextLabel(l))
    /\ p = "see_vault" => l = "fund_task"
    /\ p = "read_before" => l = "submit_task"
    /\ p \in {"read_after", "see_no_vault"} => l = "pay_task"

TimeFits ==
    /\ now + SubmissionTimeout <= MaxTimestamp
    /\ now + ReviewTimeout <= MaxTimestamp

(* A run that nobody and nothing interfered with has not failed, and until *)
(* it ends the ledger and the clock are as it expects.                     *)
OnCourse(r) ==
    r \notin disturbed =>
        /\ phase[r] # "failed"
        /\ phase[r] \notin Ended => TimeFits /\ LedgerFits(r, phase[r], label[r])

(* Every number up to the count was the guess of some run, and a run       *)
(* guesses only once.                                                      *)
NumbersAreGuessed ==
    /\ \A r \in Runs : label[r] = "create_creator_profile" => number[r] = None
    /\ profile[Operator] # None =>
         \A n \in 1 .. profile[Operator] : \E r \in Runs : number[r] = n

CourseInv ==
    /\ before \in [Runs -> Option(Nat)]
    /\ NumbersAreGuessed
    /\ \A r \in Runs : OnCourse(r)

(* The lamports the script is about, and what the operator has to have. *)
LEMMA ReserveValues ==
    LET P == Rent["profile"]
        T == Rent["task"]
        A == Rent["assignment"]
        V == VaultRent
        R == RewardLamports
        W == WalletMinimum
    IN /\ P \in Nat /\ T \in Nat /\ A \in Nat /\ V \in Nat /\ R \in Nat /\ W \in Nat
       /\ R > 0 /\ R >= W /\ V >= W
       /\ Reserve("create_creator_profile") = W + P + T + A + V + R
       /\ MinCreatorBalance >= W + P + T + A + V + R
       /\ Reserve("create_task") = W + T + A + V + R
       /\ Reserve("assign_worker") = W + A + V + R
       /\ Reserve("accept_assignment") = W + V + R
       /\ Reserve("fund_task") = W + V + R
       /\ Reserve("submit_task") = W
       /\ Reserve("pay_task") = W
       /\ Reserve("done") = W
<1>1. /\ Rent["profile"] \in Nat /\ Rent["task"] \in Nat /\ Rent["assignment"] \in Nat
      /\ VaultRent \in Nat /\ WalletMinimum \in Nat /\ WalletMinimum <= VaultRent
      /\ RewardLamports \in Nat /\ RewardLamports > 0
  BY MarketplaceAssumption, SmokeAssumption, EscrowAssumption DEF PermanentAccounts
<1> QED BY <1>1, BudgetAssumption DEF Reserve, ScriptCost

(* A payment that leaves the minimum in a wallet is possible. *)
LEMMA ReserveIsSpendable ==
    ASSUME IInv, NEW k \in Keys, NEW amount \in Nat, wallet[k] >= amount + WalletMinimum
    PROVE  CanSpend(k, amount)
<1>1. wallet[k] \in Nat /\ WalletMinimum \in Nat
  BY EscrowAssumption DEF IInv, TypeOK
<1> QED BY <1>1 DEF CanSpend, RentExempt

(* There is a task number left for every run. *)
LEMMA RoomForTask ==
    ASSUME IInv, ClientInv, NumbersAreGuessed, NEW r \in Runs,
           Stands(r, "create_task")
    PROVE  profile[Operator] \in Nat /\ profile[Operator] + 1 <= MaxTaskCount
<1> DEFINE n == profile[Operator] + 1
           S == {q \in Runs : number[q] \in 1 .. n}
           f == [q \in S |-> number[q]]
<1>1. profile[Operator] \in Nat /\ number[r] = n
  BY ScriptArguments, MarketplaceAssumption DEF Stands, IInv, TypeOK
<1>2. f \in Surjection(S, 1 .. n)
  <2>1. \A m \in 1 .. n : \E q \in S : f[q] = m
    <3>1. ASSUME NEW m \in 1 .. n PROVE \E q \in Runs : number[q] = m
      <4>1. CASE m = n
        BY <1>1, <4>1
      <4>2. CASE m # n
        <5>1. m \in 1 .. profile[Operator] /\ profile[Operator] # None
          BY <1>1, <4>2, AccountsAssumption
        <5> QED BY <5>1 DEF NumbersAreGuessed
      <4> QED BY <4>1, <4>2
    <3> QED BY <3>1
  <2> QED BY <2>1 DEF Surjection
<1>3. IsFiniteSet(S) /\ Cardinality(S) <= Cardinality(Runs)
  BY BudgetAssumption, FS_Subset
<1>4. Cardinality(1 .. n) <= Cardinality(S)
  BY <1>2, <1>3, FS_Surjection
<1>5. Cardinality(1 .. n) = n
  BY <1>1, FS_Interval
<1>6. Cardinality(Runs) \in Nat /\ Cardinality(S) \in Nat
  BY BudgetAssumption, <1>3, FS_CardinalityType
<1> HIDE DEF S
<1> QED BY <1>1, <1>3, <1>4, <1>5, <1>6, BudgetAssumption, MarketplaceAssumption
-----------------------------------------------------------------------------
(***************************************************************************)
(* What is due is accepted                                                 *)
(***************************************************************************)

(* The task of a run that stands as the run expects. *)
LEMMA StandingTask ==
    ASSUME IInv, NEW r \in Runs, NEW status, NEW worker, TaskStands(r, status, worker)
    PROVE  LET id == TaskOf(r)
               t == task[id]
           IN /\ id \in TaskIds /\ Exists(id) /\ t \in Task
              /\ AccountsAgree(id) /\ TaskValid(t)
              /\ t.creator = Operator /\ SignedByCreator(Operator, id)
              /\ t.status = status /\ t.worker = worker
              /\ t.reward_amount = RewardLamports
              /\ Operator \in Keys /\ WorkerOf[r] \in Keys /\ WorkerOf[r] # Operator
              /\ WorkerOf[r] # DefaultKey /\ WorkerOf[r] # None
              /\ now \in Nat /\ vaultBalance[id] \in Nat
              /\ wallet[Operator] \in Nat /\ wallet[WorkerOf[r]] \in Nat
<1>1. TaskOf(r) \in TaskIds /\ Exists(TaskOf(r))
  BY DEF TaskStands
<1>2. /\ task[TaskOf(r)] \in Task /\ AccountsAgree(TaskOf(r))
      /\ now \in Nat /\ vaultBalance[TaskOf(r)] \in Nat
  BY <1>1, AgreeingTask
<1>3. TaskOf(r)[1] = Operator
  BY DEF TaskOf
<1>4. TaskValid(task[TaskOf(r)]) /\ task[TaskOf(r)].creator = Operator
  BY <1>1, <1>2, <1>3 DEF AccountsAgree, TaskShaped
<1>5. /\ Operator \in Keys /\ WorkerOf[r] \in Keys /\ WorkerOf[r] # Operator
      /\ WorkerOf[r] # DefaultKey /\ WorkerOf[r] # None
  BY ScriptArguments, SmokeAssumption, AccountsAssumption
<1>6. wallet[Operator] \in Nat /\ wallet[WorkerOf[r]] \in Nat
  BY <1>5 DEF IInv, TypeOK
<1> QED BY <1>1, <1>2, <1>4, <1>5, <1>6 DEF TaskStands, SignedByCreator

(* The operator can open its profile and create its task. *)
LEMMA SetupIsAccepted ==
    ASSUME IInv, ContiguousNumbering, ClientInv, NumbersAreGuessed, NEW r \in Runs,
           NEW l \in {"create_creator_profile", "create_task"}, Due(r, l)
    PROVE  Accepts(r, l)
<1>1. CASE l = "create_creator_profile"
  <2>1. CanSpend(Operator, Rent["profile"])
    BY <1>1, ReserveValues, ReserveIsSpendable, ScriptArguments DEF Due, IInv, TypeOK
  <2> QED BY <1>1, <2>1 DEF Accepts, CanCreateCreatorProfile, Due, Stands
<1>2. CASE l = "create_task"
  <2>1. CanSpend(Operator, Rent["task"])
    BY <1>2, ReserveValues, ReserveIsSpendable, ScriptArguments DEF Due, IInv, TypeOK
  <2>2. /\ profile[Operator] \in Nat /\ profile[Operator] # None
        /\ number[r] = profile[Operator] + 1 /\ number[r] <= MaxTaskCount
    BY <1>2, RoomForTask DEF Due, Stands
  <2>3. ~Exists(<<Operator, number[r]>>)
    <3>1. Operator \in Creators /\ number[r] \in 1 .. MaxTaskCount
      BY <2>2, ScriptArguments, MarketplaceAssumption
    <3> QED BY <2>2, <3>1 DEF ContiguousNumbering
  <2> QED BY <1>2, <2>1, <2>2, <2>3, ReserveValues, SmokeAssumption
          DEF Accepts, CanCreateTask
<1> QED BY <1>1, <1>2

(* The operator can assign its worker, and the worker can accept. *)
LEMMA HiringIsAccepted ==
    ASSUME IInv, ClientInv, NEW r \in Runs, label[r] = "assign_worker" \/
             label[r] = "accept_assignment", Due(r, label[r])
    PROVE  Accepts(r, label[r])
<1> DEFINE id == TaskOf(r)
           t == task[id]
           w == WorkerOf[r]
<1>1. CASE label[r] = "assign_worker"
  <2>1. TaskStands(r, "Open", None)
    BY <1>1 DEF Due, Stands
  <2>2. /\ id \in TaskIds /\ Exists(id) /\ t \in Task
        /\ AccountsAgree(id) /\ TaskValid(t)
        /\ t.creator = Operator /\ SignedByCreator(Operator, id)
        /\ t.status = "Open" /\ t.worker = None
        /\ Operator \in Keys /\ w # Operator /\ w # DefaultKey
    BY <2>1, StandingTask
  <2>3. CanSpend(Operator, Rent["assignment"])
    BY <1>1, <2>2, ReserveValues, ReserveIsSpendable DEF Due, IInv, TypeOK
  <2>4. assignment[id] = None
    BY <2>2 DEF AccountsAgree, AssignmentAgrees
  <2>5. TaskValid(TaskAssignWorker(t))
    BY <2>2 DEF TaskAssignWorker, TaskValid, Task
  <2> QED BY <1>1, <2>2, <2>3, <2>4, <2>5 DEF Accepts, CanAssignWorker, TaskCanAssignWorker
<1>2. CASE label[r] = "accept_assignment"
  <2>1. TaskStands(r, "Assigned", None)
    BY <1>2 DEF Due, Stands
  <2>2. /\ id \in TaskIds /\ Exists(id) /\ t \in Task
        /\ AccountsAgree(id) /\ TaskValid(t)
        /\ t.creator = Operator
        /\ t.status = "Assigned" /\ t.worker = None
        /\ w # Operator /\ w # None
    BY <2>1, StandingTask
  <2>3. Drives(r)
    BY <1>2 DEF ClientInv, Driving, HasCreated
  <2>4. /\ assignment[id] # None /\ assignment[id].selected_worker = w
        /\ AssignmentValid(assignment[id]) /\ assignment[id].accepted_at = None
    BY <2>2, <2>3 DEF AccountsAgree, AssignmentAgrees, HasStatus, Drives
  <2>5. t.funded_at = None /\ t.submission_reference = None
    BY <2>1 DEF TaskStands
  <2>6. TaskValid(TaskAcceptAssignment(t, w))
    BY <2>2, <2>5 DEF TaskAcceptAssignment, TaskValid, Task
  <2> QED BY <1>2, <2>2, <2>4, <2>6
          DEF Accepts, CanAcceptAssignment, AssignmentCanAccept, TaskCanAcceptAssignment
<1> QED BY <1>1, <1>2

(* The operator can fund what its worker has accepted. *)
LEMMA FundingIsAccepted ==
    ASSUME IInv, LamportsConserved, TimeFits, NEW r \in Runs, Due(r, "fund_task")
    PROVE  CanFundTask(Operator, TaskOf(r))
<1> DEFINE id == TaskOf(r)
           t == task[id]
           R == RewardLamports
<1>1. TaskStands(r, "Accepted", WorkerOf[r])
  BY DEF Due, Stands
<1>2. /\ id \in TaskIds /\ Exists(id) /\ t \in Task
      /\ AccountsAgree(id) /\ TaskValid(t) /\ SignedByCreator(Operator, id)
      /\ t.status = "Accepted" /\ t.worker = WorkerOf[r] /\ WorkerOf[r] # None
      /\ t.reward_amount = R /\ now \in Nat
      /\ vaultBalance[id] \in Nat /\ Operator \in Keys
      /\ wallet[Operator] \in Nat
  BY <1>1, StandingTask
<1>3. vault[id] = None
  BY <1>2 DEF AccountsAgree, CustodyMatches, HasStatus, InCustody
<1>4. /\ t.funded_at = None /\ t.submission_deadline = None
      /\ t.submission_reference = None
  BY <1>1 DEF TaskStands
<1>5. t.review_deadline = None
  BY <1>2, <1>4 DEF AccountsAgree, DeadlinesChained
<1>6. /\ R \in Nat /\ R > 0 /\ VaultRent \in Nat /\ WalletMinimum \in Nat
      /\ wallet[Operator] >= WalletMinimum + VaultRent + R
  BY ReserveValues DEF Due
<1>7. now + SubmissionTimeout \in Nat /\ now + SubmissionTimeout # None /\ now # None
  BY <1>2, AccountsAssumption
<1>8. TaskCanFund(t, now)
  <2>1. TaskValid(TaskFund(t, now))
    BY <1>2, <1>4, <1>5, <1>7 DEF TaskFund, TaskValid, Task
  <2> QED BY <1>2, <1>4, <1>5, <1>6, <2>1 DEF TaskCanFund, TimeFits, FitsTimestamp
<1>9. CanSpend(Operator, FundingCost(vaultBalance[id], R))
  <2>1. /\ FundingCost(vaultBalance[id], R) \in Nat
        /\ FundingCost(vaultBalance[id], R) <= VaultRent + R
    BY <1>2, <1>6 DEF FundingCost, InitShortfall
  <2> QED BY <1>2, <1>6, <2>1, ReserveIsSpendable
<1>10. CoversLiability(R, FundedBalance(vaultBalance[id], R))
  <2>1. wallet[Operator] + vaultBalance[id] <= MaxU64 /\ MaxU64 \in Nat
    BY <1>2, BalancesFit, EscrowAssumption DEF FitsU64, IInv
  <2>2. FitsU64(VaultRent + R)
    BY <1>2, <1>6, <2>1 DEF FitsU64
  <2>3. FundedBalance(vaultBalance[id], R) >= VaultRent + R
    BY <1>2, <1>6 DEF FundedBalance, FundingCost, InitShortfall
  <2> QED BY <2>2, <2>3 DEF CoversLiability
<1> QED BY <1>2, <1>3, <1>8, <1>9, <1>10 DEF CanFundTask

(* The worker can submit before its deadline. *)
LEMMA SubmissionIsAccepted ==
    ASSUME IInv, TimeFits, NEW r \in Runs, Due(r, "submit_task")
    PROVE  CanSubmitTask(WorkerOf[r], TaskOf(r), SmokeText)
<1> DEFINE id == TaskOf(r)
           t == task[id]
<1>1. TaskStands(r, "Funded", WorkerOf[r])
  BY DEF Due, Stands
<1>2. /\ Exists(id) /\ t \in Task /\ TaskValid(t)
      /\ t.status = "Funded" /\ t.worker = WorkerOf[r] /\ now \in Nat
  BY <1>1, StandingTask
<1>3. /\ now < t.submission_deadline
      /\ now + ReviewTimeout \in Nat /\ now + ReviewTimeout # None
      /\ SmokeText \in ValidTexts /\ SmokeText # None
  BY <1>1, <1>2, ScriptArguments, SmokeAssumption, AccountsAssumption DEF TaskStands
<1>4. TaskValid(TaskSubmit(t, SmokeText, now))
  BY <1>2, <1>3 DEF TaskSubmit, TaskValid, Task
<1> QED BY <1>2, <1>3, <1>4 DEF CanSubmitTask, TaskCanSubmit, TimeFits, FitsTimestamp, TaskValid

(* The operator can pay what was submitted: the worker's wallet, empty or   *)
(* not, takes the reward, and its own takes the rent of the vault.          *)
LEMMA PaymentIsAccepted ==
    ASSUME IInv, LamportsConserved, NEW r \in Runs, Due(r, "pay_task")
    PROVE  CanPayTask(Operator, TaskOf(r), WorkerOf[r])
<1> DEFINE id == TaskOf(r)
           t == task[id]
<1>1. TaskStands(r, "Submitted", WorkerOf[r])
  BY DEF Due, Stands
<1>2. /\ id \in TaskIds /\ Exists(id) /\ t \in Task
      /\ TaskValid(t) /\ SignedByCreator(Operator, id)
      /\ t.status = "Submitted" /\ t.worker = WorkerOf[r]
      /\ t.reward_amount = RewardLamports /\ wallet[WorkerOf[r]] \in Nat
  BY <1>1, StandingTask
<1>3. HasStatus(id, InCustody)
  BY <1>2 DEF HasStatus, InCustody
<1>4. WorkerCanReceive(id)
  BY <1>2, ReserveValues DEF WorkerCanReceive, RentExempt
<1>5. TaskCanPay(t)
  BY <1>2 DEF TaskCanPay, TaskPay, TaskValid, Task
<1> QED BY <1>2, <1>3, <1>4, <1>5, WorkerReceives, VaultIsValid DEF CanPayTask

(* Whatever a run on its course is about to do, the program accepts. *)
LEMMA DueIsAccepted ==
    ASSUME IInv, ContiguousNumbering, LamportsConserved, ClientInv, NumbersAreGuessed,
           TimeFits, NEW r \in Runs, Due(r, label[r])
    PROVE  Accepts(r, label[r])
<1>1. label[r] \in Labels
  BY DEF ClientInv, ClientTyped
<1>2. CASE label[r] \in {"create_creator_profile", "create_task"}
  BY <1>2, SetupIsAccepted
<1>3. CASE label[r] \in {"assign_worker", "accept_assignment"}
  BY <1>3, HiringIsAccepted
<1>4. CASE label[r] = "fund_task"
  BY <1>4, FundingIsAccepted DEF Accepts
<1>5. CASE label[r] = "submit_task"
  BY <1>5, SubmissionIsAccepted DEF Accepts
<1>6. CASE label[r] = "pay_task"
  BY <1>6, PaymentIsAccepted DEF Accepts
<1> QED BY <1>1, <1>2, <1>3, <1>4, <1>5, <1>6 DEF Labels
-----------------------------------------------------------------------------
(***************************************************************************)
(* What lands makes the next transaction due                               *)
(***************************************************************************)

(* The wallet of a key that pays what the operator has in reserve. *)
LEMMA ReserveLeft ==
    ASSUME IInv, NEW amount \in Nat, NEW rest \in Nat,
           wallet[Operator] >= rest + amount, Spend(Operator, amount)
    PROVE  wallet'[Operator] >= rest
<1>1. wallet \in [Keys -> Nat] /\ Operator \in Keys
  BY ScriptArguments DEF IInv, TypeOK
<1>2. wallet[Operator] \in Nat /\ wallet'[Operator] = wallet[Operator] - amount
  BY <1>1 DEF Spend
<1> QED BY <1>2

(* The task of a run after an instruction that writes it. *)
LEMMA StandsThen ==
    ASSUME NEW r \in Runs, NEW t \in Task, NEW status, NEW worker,
           task \in [TaskIds -> Option(Task)], TaskOf(r) \in TaskIds,
           task' = [task EXCEPT ![TaskOf(r)] = t], number' = number,
           t.status = status, t.worker = worker, t.reward_amount = RewardLamports,
           status \in {"Open", "Assigned", "Accepted"} =>
             /\ t.funded_at = None
             /\ t.submission_deadline = None
             /\ t.submission_reference = None,
           status = "Funded" => now' < t.submission_deadline
    PROVE  TaskStands(r, status, worker)'
<1>1. (TaskOf(r))' = TaskOf(r) /\ task'[TaskOf(r)] = t
  BY DEF TaskOf
<1> QED BY <1>1, MarketplaceAssumption DEF TaskStands, Exists

(* The setup: a profile, then a task. *)
LEMMA SetupLands ==
    ASSUME IInv, NEW r \in Runs, number' = number,
           NEW l \in {"create_creator_profile", "create_task"}, Due(r, l),
           Transaction(r, l)
    PROVE  IF l = "create_creator_profile"
           THEN wallet'[Operator] >= Reserve("create_task")
           ELSE Due(r, "assign_worker")'
<1>1. CASE l = "create_creator_profile"
  <2>1. Spend(Operator, Rent["profile"])
    BY <1>1 DEF Transaction, CreateCreatorProfile
  <2>2. wallet'[Operator] >= Reserve("create_task")
    <3>1. /\ Reserve("create_task") \in Nat /\ Rent["profile"] \in Nat
          /\ wallet[Operator] >= Reserve("create_task") + Rent["profile"]
      BY <1>1, ReserveValues, ScriptArguments DEF Due, IInv, TypeOK
    <3> QED BY <2>1, <3>1, ReserveLeft
  <2> QED BY <1>1, <2>2
<1>2. CASE l = "create_task"
  <2>1. CreateTask(Operator, number[r], SmokeText, SmokeText, RewardLamports)
    BY <1>2 DEF Transaction
  <2>2. /\ Spend(Operator, Rent["task"])
        /\ task' = [task EXCEPT ![TaskOf(r)] = NewTask(Operator, RewardLamports)]
        /\ profile[Operator] # None /\ number[r] = profile[Operator] + 1
        /\ number[r] <= MaxTaskCount
    BY <2>1 DEF CreateTask, CanCreateTask, TaskOf
  <2>3. TaskOf(r) \in TaskIds
    BY <2>2, ScriptArguments, MarketplaceAssumption DEF TaskOf, TaskIds, IInv, TypeOK
  <2>4. NewTask(Operator, RewardLamports) \in Task
    BY ScriptArguments, ReserveValues DEF NewTask, Task, TaskStatus
  <2>5. TaskStands(r, "Open", None)'
    BY <2>2, <2>3, <2>4, StandsThen DEF NewTask, IInv, TypeOK
  <2>6. wallet'[Operator] >= Reserve("assign_worker")
    <3>1. /\ Reserve("assign_worker") \in Nat /\ Rent["task"] \in Nat
          /\ wallet[Operator] >= Reserve("assign_worker") + Rent["task"]
      BY <1>2, ReserveValues, ScriptArguments DEF Due, IInv, TypeOK
    <3> QED BY <2>2, <3>1, ReserveLeft
  <2> QED BY <1>2, <2>5, <2>6 DEF Due, Stands, Reserve
<1> QED BY <1>1, <1>2

(* The hiring: the worker is assigned, then accepts. *)
LEMMA HiringLands ==
    ASSUME IInv, NEW r \in Runs, number' = number,
           NEW l \in {"assign_worker", "accept_assignment"}, Due(r, l),
           Transaction(r, l)
    PROVE  Due(r, NextLabel(l))'
<1> DEFINE id == TaskOf(r)
           t == task[id]
<1>0. task \in [TaskIds -> Option(Task)]
  BY DEF IInv, TypeOK
<1>1. CASE l = "assign_worker"
  <2>1. TaskStands(r, "Open", None)
    BY <1>1 DEF Due, Stands
  <2>2. /\ id \in TaskIds /\ t \in Task /\ t.worker = None /\ now \in Nat
        /\ t.reward_amount = RewardLamports
    BY <2>1, StandingTask
  <2>3. /\ task' = [task EXCEPT ![id] = TaskAssignWorker(t)]
        /\ Spend(Operator, Rent["assignment"])
    BY <1>1 DEF Transaction, AssignWorker
  <2>4. /\ TaskAssignWorker(t) \in Task
        /\ TaskAssignWorker(t).status = "Assigned"
        /\ TaskAssignWorker(t).worker = None
        /\ TaskAssignWorker(t).reward_amount = RewardLamports
        /\ TaskAssignWorker(t).funded_at = None
        /\ TaskAssignWorker(t).submission_deadline = None
        /\ TaskAssignWorker(t).submission_reference = None
    BY <2>1, <2>2 DEF TaskAssignWorker, Task, TaskStatus, TaskStands
  <2>5. TaskStands(r, "Assigned", None)'
    BY <1>0, <2>2, <2>3, <2>4, StandsThen
  <2>6. wallet'[Operator] >= Reserve("accept_assignment")
    <3>1. /\ Reserve("accept_assignment") \in Nat /\ Rent["assignment"] \in Nat
          /\ wallet[Operator] >= Reserve("accept_assignment") + Rent["assignment"]
      BY <1>1, ReserveValues, ScriptArguments DEF Due, IInv, TypeOK
    <3> QED BY <2>3, <3>1, ReserveLeft
  <2> QED BY <1>1, <2>5, <2>6 DEF Due, Stands, Reserve, NextLabel
<1>2. CASE l = "accept_assignment"
  <2>1. TaskStands(r, "Assigned", None)
    BY <1>2 DEF Due, Stands
  <2>2. /\ id \in TaskIds /\ t \in Task /\ WorkerOf[r] \in Keys
        /\ t.reward_amount = RewardLamports
    BY <2>1, StandingTask
  <2> DEFINE n == TaskAcceptAssignment(t, WorkerOf[r])
  <2>3. task' = [task EXCEPT ![id] = n] /\ wallet' = wallet
    BY <1>2 DEF Transaction, AcceptAssignment
  <2>4. /\ n \in Task /\ n.status = "Accepted" /\ n.worker = WorkerOf[r]
        /\ n.reward_amount = RewardLamports
        /\ n.funded_at = None /\ n.submission_deadline = None
        /\ n.submission_reference = None
    BY <2>1, <2>2 DEF TaskAcceptAssignment, Task, TaskStatus, TaskStands
  <2>5. TaskStands(r, "Accepted", WorkerOf[r])'
    <3> HIDE DEF n
    <3> QED BY <1>0, <2>2, <2>3, <2>4, StandsThen
  <2>6. wallet'[Operator] >= Reserve("fund_task")
    BY <1>2, <2>3 DEF Due, Reserve
  <2> QED BY <1>2, <2>5, <2>6 DEF Due, Stands, Reserve, NextLabel
<1> QED BY <1>1, <1>2

(* The escrow is funded. *)
LEMMA FundingLands ==
    ASSUME IInv, NEW r \in Runs, number' = number, Due(r, "fund_task"),
           Transaction(r, "fund_task")
    PROVE  Due(r, "submit_task")'
<1> DEFINE id == TaskOf(r)
           t == task[id]
           n == TaskFund(t, now)
           cost == FundingCost(vaultBalance[id], RewardLamports)
<1>1. TaskStands(r, "Accepted", WorkerOf[r])
  BY DEF Due, Stands
<1>2. /\ id \in TaskIds /\ t \in Task /\ t.worker = WorkerOf[r] /\ now \in Nat
      /\ t.reward_amount = RewardLamports /\ vaultBalance[id] \in Nat
      /\ wallet[Operator] \in Nat
  BY <1>1, StandingTask
<1>3. /\ FundTask(Operator, id)
      /\ task' = [task EXCEPT ![id] = n] /\ now' = now
      /\ TaskCanFund(t, now)
  BY DEF Transaction, FundTask, CanFundTask
<1>4. Spend(Operator, cost)
  BY <1>2, <1>3 DEF FundTask
<1>5. n \in Task
  BY <1>2, <1>3, TaskMethodsTyped DEF IInv, TypeOK
<1>6. /\ n.status = "Funded" /\ n.worker = WorkerOf[r]
      /\ n.reward_amount = RewardLamports
      /\ n.submission_deadline = now + SubmissionTimeout
  BY <1>2 DEF TaskFund, Task
<1>7. now' < n.submission_deadline
  BY <1>2, <1>3, <1>6, AccountsAssumption
<1>8. TaskStands(r, "Funded", WorkerOf[r])'
  <2>1. task \in [TaskIds -> Option(Task)]
    BY DEF IInv, TypeOK
  <2> HIDE DEF n
  <2> QED BY <1>2, <1>3, <1>5, <1>6, <1>7, <2>1, StandsThen
<1>9. wallet'[Operator] >= Reserve("submit_task")
  <2>1. /\ cost \in Nat /\ Reserve("submit_task") \in Nat
        /\ wallet[Operator] >= Reserve("submit_task") + cost
    BY <1>2, ReserveValues DEF Due, FundingCost, InitShortfall
  <2> QED BY <1>4, <2>1, ReserveLeft
<1> QED BY <1>8, <1>9 DEF Due, Stands, Reserve

(* The work is submitted. *)
LEMMA SubmissionLands ==
    ASSUME IInv, NEW r \in Runs, number' = number, Due(r, "submit_task"),
           Transaction(r, "submit_task")
    PROVE  Due(r, "pay_task")'
<1> DEFINE id == TaskOf(r)
           t == task[id]
           n == TaskSubmit(t, SmokeText, now)
<1>1. TaskStands(r, "Funded", WorkerOf[r])
  BY DEF Due, Stands
<1>2. /\ id \in TaskIds /\ t \in Task /\ t.worker = WorkerOf[r]
      /\ WorkerOf[r] \in Keys /\ t.reward_amount = RewardLamports
  BY <1>1, StandingTask
<1>3. /\ task' = [task EXCEPT ![id] = n] /\ wallet' = wallet
      /\ TaskCanSubmit(t, WorkerOf[r], SmokeText, now)
  BY DEF Transaction, SubmitTask, CanSubmitTask
<1>4. n \in Task
  BY <1>2, <1>3, TaskMethodsTyped, ScriptArguments DEF IInv, TypeOK
<1>5. /\ n.status = "Submitted" /\ n.worker = WorkerOf[r]
      /\ n.reward_amount = RewardLamports
  BY <1>2 DEF TaskSubmit, Task
<1>6. TaskStands(r, "Submitted", WorkerOf[r])'
  <2>1. task \in [TaskIds -> Option(Task)]
    BY DEF IInv, TypeOK
  <2> HIDE DEF n
  <2> QED BY <1>2, <1>3, <1>4, <1>5, <2>1, StandsThen
<1>7. wallet'[Operator] >= Reserve("pay_task")
  BY <1>3 DEF Due, Reserve
<1> QED BY <1>6, <1>7 DEF Due, Stands, Reserve

(* The worker is paid: its wallet has gained the reward, the operator's    *)
(* what was left in the vault, and the vault is gone.                      *)
LEMMA PaymentLands ==
    ASSUME IInv, NEW r \in Runs, number' = number, before' = before,
           Due(r, "pay_task"), before[r] = wallet[WorkerOf[r]],
           Transaction(r, "pay_task")
    PROVE  Due(r, "done")'
<1> DEFINE id == TaskOf(r)
           t == task[id]
           n == TaskPay(t)
<1>1. TaskStands(r, "Submitted", WorkerOf[r])
  BY DEF Due, Stands
<1>2. /\ id \in TaskIds /\ t \in Task /\ t.worker = WorkerOf[r]
      /\ t.creator = Operator /\ t.status = "Submitted"
      /\ t.reward_amount = RewardLamports /\ Exists(id)
      /\ Operator \in Keys /\ WorkerOf[r] \in Keys /\ WorkerOf[r] # Operator
      /\ wallet[Operator] \in Nat /\ wallet[WorkerOf[r]] \in Nat
  BY <1>1, StandingTask
<1>3. /\ task' = [task EXCEPT ![id] = n] /\ PayOut(id)
  BY DEF Transaction, PayTask
<1>4. n \in Task
  BY <1>2, TaskMethodsTyped DEF IInv, TypeOK
<1>5. /\ n.status = "Paid" /\ n.worker = WorkerOf[r]
      /\ n.reward_amount = RewardLamports
  BY <1>2 DEF TaskPay, Task
<1>6. TaskStands(r, "Paid", WorkerOf[r])'
  <2>1. task \in [TaskIds -> Option(Task)]
    BY DEF IInv, TypeOK
  <2> HIDE DEF n
  <2> QED BY <1>2, <1>3, <1>4, <1>5, <2>1, StandsThen
<1>7. /\ vault[id] = RewardLamports
      /\ vaultBalance[id] - vault[id] \in Nat
  BY <1>2, VaultIsValid, EscrowAssumption, ReserveValues DEF HasStatus, InCustody
<1>8. /\ wallet'[WorkerOf[r]] = wallet[WorkerOf[r]] + RewardLamports
      /\ wallet'[Operator] = wallet[Operator] + (vaultBalance[id] - vault[id])
      /\ vaultBalance'[id] = 0
  <2>1. wallet \in [Keys -> Nat] /\ vaultBalance \in [TaskIds -> Nat]
    BY DEF IInv, TypeOK
  <2> QED BY <1>2, <1>3, <1>7, <2>1 DEF PayOut, WorkerAmount
<1>9. wallet'[Operator] >= Reserve("done")
  BY <1>2, <1>7, <1>8, ReserveValues DEF Due
<1>10. /\ (TaskOf(r))' = id
       /\ wallet'[WorkerOf[r]] - before'[r] = RewardLamports
  BY <1>2, <1>8, ReserveValues DEF TaskOf
<1> QED BY <1>6, <1>8, <1>9, <1>10 DEF Due, Stands, Reserve

(* A transaction on its course that lands leaves the run on its course. *)
LEMMA LandingFits ==
    ASSUME IInv, NEW r \in Runs, NEW l \in Labels, LedgerFits(r, "confirm", l),
           number' = number, before' = before, Transaction(r, l)
    PROVE  IF l = "create_creator_profile" THEN LedgerFits(r, "fetch_profile", l)'
           ELSE LedgerFits(r, "fetch", l)'
<1>1. Due(r, l) /\ (l = "pay_task" => before[r] = wallet[WorkerOf[r]])
  BY DEF LedgerFits, Sending
<1>2. CASE l = "create_creator_profile"
  <2>1. wallet'[Operator] >= Reserve("create_task")
    BY <1>1, <1>2, SetupLands
  <2> QED BY <1>2, <2>1 DEF LedgerFits, Sending, Reading, Reserve
<1>3. CASE l # "create_creator_profile"
  <2> SUFFICES Due(r, NextLabel(l))'
    BY <1>3 DEF LedgerFits, Sending, Reading
  <2>1. CASE l = "create_task"
    BY <1>1, <2>1, SetupLands DEF NextLabel
  <2>2. CASE l \in {"assign_worker", "accept_assignment"}
    BY <1>1, <2>2, HiringLands
  <2>3. CASE l = "fund_task"
    BY <1>1, <2>3, FundingLands DEF NextLabel
  <2>4. CASE l = "submit_task"
    BY <1>1, <2>4, SubmissionLands DEF NextLabel
  <2>5. CASE l = "pay_task"
    BY <1>1, <2>5, PaymentLands DEF NextLabel
  <2> QED BY <1>3, <2>1, <2>2, <2>3, <2>4, <2>5 DEF Labels
<1> QED BY <1>2, <1>3

-----------------------------------------------------------------------------
(***************************************************************************)
(* What is not interfered with stays as the run expects it                 *)
(***************************************************************************)

(* What the run looks at has not changed, and the deadline of its task is  *)
(* still to come.                                                          *)
LEMMA LedgerStays ==
    ASSUME NEW r \in Runs, NEW p, NEW l, LedgerFits(r, p, l), MaxTaskCount \in Nat,
           number'[r] = number[r], before'[r] = before[r],
           profile'[Operator] = profile[Operator],
           wallet'[Operator] = wallet[Operator],
           wallet'[WorkerOf[r]] = wallet[WorkerOf[r]],
           number[r] # None => /\ task'[TaskOf(r)] = task[TaskOf(r)]
                               /\ vaultBalance'[TaskOf(r)] = vaultBalance[TaskOf(r)],
           \/ now' = now
           \/ /\ TaskOf(r) \in TaskIds
              /\ Exists(TaskOf(r))
              /\ task[TaskOf(r)].status = "Funded"
              => now' < task[TaskOf(r)].submission_deadline
    PROVE  LedgerFits(r, p, l)'
<1>1. (TaskOf(r))' = TaskOf(r)
  BY DEF TaskOf
<1>2. TaskOf(r) \in TaskIds => number[r] # None
  BY AccountsAssumption DEF TaskOf, TaskIds
<1>3. \A status, worker : TaskStands(r, status, worker) => TaskStands(r, status, worker)'
  BY <1>1, <1>2 DEF TaskStands, Exists
<1>4. \A m : Stands(r, m) => Stands(r, m)'
  <2>1. ASSUME NEW m, Stands(r, m), m \in Labels PROVE Stands(r, m)'
    BY <1>3, <2>1 DEF Stands, Labels
  <2>2. ASSUME NEW m, Stands(r, m), m \notin Labels PROVE Stands(r, m)'
    <3>1. TaskStands(r, "Paid", WorkerOf[r])
      BY <2>2 DEF Stands, Labels
    <3> QED BY <1>1, <1>2, <1>3, <2>2, <3>1 DEF Stands, Labels, TaskStands
  <2> QED BY <2>1, <2>2
<1>5. \A m : Due(r, m) => Due(r, m)'
  BY <1>4 DEF Due, Reserve
<1> QED BY <1>5 DEF LedgerFits, Reserve

(* A run that is at the phase p of the transaction l, nothing having       *)
(* interfered with it.                                                     *)
LEMMA RunGoesOn ==
    ASSUME NEW r \in Runs, NEW p, NEW l, phase'[r] = p, label'[r] = l, p # "failed",
           p \notin Ended => TimeFits' /\ LedgerFits(r, p, l)'
    PROVE  OnCourse(r)'
BY DEF OnCourse

(* A run that does not move, and whose task, vault, profile and wallets    *)
(* are not touched.                                                        *)
LEMMA BystanderStays ==
    ASSUME NEW r \in Runs, NEW p, NEW l, phase[r] = p, label[r] = l, OnCourse(r),
           phase'[r] = p, label'[r] = l,
           number'[r] = number[r], before'[r] = before[r],
           disturbed \subseteq disturbed',
           now' = now, ~Affects(r) \/ r \in disturbed' \/ p \in Ended
    PROVE  OnCourse(r)'
<1> SUFFICES ASSUME r \notin disturbed' PROVE OnCourse(r)'
  BY DEF OnCourse
<1>1. p # "failed" /\ (p \notin Ended => TimeFits' /\ LedgerFits(r, p, l))
  BY DEF OnCourse, TimeFits
<1>2. CASE p \in Ended
  BY <1>1, <1>2, RunGoesOn
<1>3. CASE p = "check_balance"
  <2>1. LedgerFits(r, p, l)'
    BY <1>3 DEF LedgerFits, Sending, Reading
  <2> QED BY <1>1, <2>1, RunGoesOn
<1>4. CASE p \notin Ended /\ p # "check_balance"
  <2>1. /\ profile'[Operator] = profile[Operator]
        /\ wallet'[Operator] = wallet[Operator]
        /\ wallet'[WorkerOf[r]] = wallet[WorkerOf[r]]
        /\ number[r] # None => /\ task'[TaskOf(r)] = task[TaskOf(r)]
                               /\ vaultBalance'[TaskOf(r)] = vaultBalance[TaskOf(r)]
    BY <1>4 DEF Affects
  <2>2. LedgerFits(r, p, l)'
    BY <1>1, <1>4, <2>1, LedgerStays, MarketplaceAssumption
  <2> QED BY <1>1, <2>2, RunGoesOn
<1> QED BY <1>2, <1>3, <1>4

-----------------------------------------------------------------------------
(***************************************************************************)
(* An undisturbed run stays on its course                                  *)
(***************************************************************************)

(* A step of the script leaves the ledger alone. *)
LEMMA ScriptReads ==
    ASSUME NEW r \in Runs, Script(r)
    PROVE  /\ UNCHANGED vars /\ disturbed' = disturbed /\ phase[r] \notin Ended
           /\ profile' = profile /\ task' = task /\ vaultBalance' = vaultBalance
           /\ wallet' = wallet /\ now' = now
<1>1. UNCHANGED vars /\ disturbed' = disturbed /\ phase[r] \notin Ended
  BY DEF Script, CheckBalance, FindProfile, FetchProfile, Simulate, Send, FetchAndAssertTask,
         SeeVault, ReadBefore, ReadAfter, SeeNoVault, Reads, Ended, ledger
<1> QED BY <1>1 DEF vars

(* What fits the ledger still does after a step of the script that keeps   *)
(* what it has read.                                                       *)
LEMMA ReadingFits ==
    ASSUME NEW r \in Runs, Script(r), number' = number, before' = before,
           NEW p, NEW l, LedgerFits(r, p, l)
    PROVE  LedgerFits(r, p, l)'
BY ScriptReads, LedgerStays, MarketplaceAssumption

(* The run goes on to the phase p of the transaction l. *)
LEMMA ReadingGoesOn ==
    ASSUME ClientInv, NEW r \in Runs, Script(r), TimeFits, number' = number, before' = before,
           NEW p, NEW l, LedgerFits(r, p, l), p # "failed",
           \/ Begin(r, l) /\ p = "simulate"
           \/ GoTo(r, p) /\ l = label[r]
    PROVE  OnCourse(r)'
<1>1. phase'[r] = p /\ label'[r] = l
  BY DEF Begin, GoTo, ClientInv, ClientTyped
<1>2. TimeFits' /\ LedgerFits(r, p, l)'
  BY ScriptReads, ReadingFits DEF TimeFits
<1> QED BY <1>1, <1>2, RunGoesOn

(* The run looks for its operator's profile. *)
LEMMA StartStaysOnCourse ==
    ASSUME IInv, ClientInv, NEW r \in Runs, TimeFits, LedgerFits(r, phase[r], label[r]),
           CheckBalance(r) \/ FindProfile(r) \/ FetchProfile(r)
    PROVE  OnCourse(r)'
<1>1. Script(r)
  BY DEF Script
<1>2. /\ label[r] = "create_creator_profile"
      /\ phase[r] = "fetch_profile" => profile[Operator] # None
  BY DEF CheckBalance, FindProfile, FetchProfile, Reads, ClientInv, InOrder, Early
<1>3. /\ wallet[Operator] \in Nat /\ MinCreatorBalance \in Nat
      /\ Reserve("create_creator_profile") \in Nat /\ Reserve("create_task") \in Nat
      /\ Reserve("create_creator_profile") <= MinCreatorBalance
      /\ Reserve("create_task") <= Reserve("create_creator_profile")
  BY ReserveValues, ScriptArguments, BudgetAssumption DEF IInv, TypeOK
<1>4. CASE CheckBalance(r)
  <2>1. number' = number /\ before' = before
    BY <1>4 DEF CheckBalance
  <2>2. CASE wallet[Operator] >= MinCreatorBalance
    <3>1. GoTo(r, "find_profile")
      BY <1>4, <2>2 DEF CheckBalance
    <3>2. wallet[Operator] >= Reserve("create_creator_profile")
      BY <1>3, <2>2
    <3>3. LedgerFits(r, "find_profile", label[r])
      BY <3>2 DEF LedgerFits, Sending, Reading
    <3> QED BY <1>1, <2>1, <3>1, <3>3, ReadingGoesOn
  <2>3. CASE ~(wallet[Operator] >= MinCreatorBalance)
    <3>1. phase'[r] = "refused"
      BY <1>4, <2>3 DEF CheckBalance, GoTo, ClientInv, ClientTyped
    <3> QED BY <3>1, RunGoesOn DEF Ended
  <2> QED BY <2>2, <2>3
<1>5. CASE FindProfile(r)
  <2>1. /\ number' = number /\ before' = before
        /\ wallet[Operator] >= Reserve("create_creator_profile")
    BY <1>5 DEF FindProfile, Reads, LedgerFits
  <2>2. CASE profile[Operator] = None
    <3>1. Begin(r, "create_creator_profile")
      BY <1>5, <2>2 DEF FindProfile
    <3>2. LedgerFits(r, "simulate", "create_creator_profile")
      BY <2>1, <2>2 DEF LedgerFits, Sending, Reading, Due, Stands
    <3> QED BY <1>1, <2>1, <3>1, <3>2, ReadingGoesOn
  <2>3. CASE profile[Operator] # None
    <3>1. GoTo(r, "fetch_profile")
      BY <1>5, <2>3 DEF FindProfile
    <3>2. wallet[Operator] >= Reserve("create_task")
      BY <1>3, <2>1
    <3>3. LedgerFits(r, "fetch_profile", label[r])
      BY <3>2 DEF LedgerFits, Sending, Reading
    <3> QED BY <1>1, <2>1, <3>1, <3>3, ReadingGoesOn
  <2> QED BY <2>2, <2>3
<1>6. CASE FetchProfile(r)
  <2>1. /\ profile[Operator] # None
        /\ wallet[Operator] >= Reserve("create_task")
        /\ number'[r] = profile[Operator] + 1
        /\ phase'[r] = "simulate" /\ label'[r] = "create_task"
    BY <1>2, <1>6 DEF FetchProfile, Reads, Begin, LedgerFits, ClientInv, ClientTyped
  <2>2. Due(r, "create_task")'
    BY <1>1, <2>1, ScriptReads DEF Due, Stands, Reserve
  <2>3. TimeFits' /\ LedgerFits(r, "simulate", "create_task")'
    BY <1>1, <2>2, ScriptReads DEF TimeFits, LedgerFits, Sending, Reading
  <2> QED BY <2>1, <2>3, RunGoesOn
<1> QED BY <1>4, <1>5, <1>6

(* The run simulates and sends its transaction. *)
LEMMA SendingStaysOnCourse ==
    ASSUME IInv, ContiguousNumbering, LamportsConserved, ClientInv, NumbersAreGuessed,
           NEW r \in Runs, TimeFits, LedgerFits(r, phase[r], label[r]),
           Simulate(r) \/ Send(r)
    PROVE  OnCourse(r)'
<1>1. Script(r) /\ number' = number /\ before' = before /\ phase[r] \in Sending
  BY DEF Script, Simulate, Send, Reads, Sending
<1>2. Due(r, label[r]) /\ (label[r] = "pay_task" => before[r] = wallet[WorkerOf[r]])
  BY <1>1 DEF LedgerFits
<1>3. \A p \in Sending : LedgerFits(r, p, label[r])
  BY <1>2 DEF LedgerFits, Sending, Reading
<1>4. CASE Simulate(r)
  <2>1. GoTo(r, "send")
    BY <1>2, <1>4, DueIsAccepted DEF Simulate, Require
  <2> QED BY <1>1, <1>3, <2>1, ReadingGoesOn DEF Sending
<1>5. CASE Send(r)
  BY <1>1, <1>3, <1>5, ReadingGoesOn DEF Send, Sending
<1> QED BY <1>4, <1>5

(* The run finds its task as the transaction left it. *)
LEMMA FetchStaysOnCourse ==
    ASSUME IInv, ClientInv, NEW r \in Runs, TimeFits, LedgerFits(r, phase[r], label[r]),
           FetchAndAssertTask(r)
    PROVE  OnCourse(r)'
<1>1. Script(r) /\ number' = number /\ before' = before /\ phase[r] = "fetch"
  BY DEF Script, FetchAndAssertTask, Reads
<1>2. /\ label[r] \in Labels /\ label[r] # "create_creator_profile"
      /\ Due(r, NextLabel(label[r]))
  BY <1>1 DEF LedgerFits, ClientInv, ClientTyped
<1>3. /\ task[TaskOf(r)].status = ExpectedStatus(label[r])
      /\ label[r] = "accept_assignment" => task[TaskOf(r)].worker = WorkerOf[r]
      /\ label[r] = "fund_task" => task[TaskOf(r)].reward_amount = RewardLamports
  BY <1>2 DEF Due, NextLabel, Stands, TaskStands, ExpectedStatus, Labels
<1>4. Proceed(r)
  BY <1>3 DEF FetchAndAssertTask, Require
<1>5. CASE label[r] \in {"create_task", "assign_worker", "accept_assignment"}
  <2>1. Begin(r, NextLabel(label[r])) /\ NextLabel(label[r]) # "pay_task"
    BY <1>4, <1>5 DEF Proceed, NextLabel
  <2>2. LedgerFits(r, "simulate", NextLabel(label[r]))
    BY <1>2, <2>1 DEF LedgerFits, Sending, Reading
  <2> QED BY <1>1, <2>1, <2>2, ReadingGoesOn
<1>6. CASE label[r] = "fund_task"
  <2>1. GoTo(r, "see_vault")
    BY <1>4, <1>6 DEF Proceed
  <2>2. LedgerFits(r, "see_vault", label[r])
    BY <1>2, <1>6 DEF LedgerFits, Sending, Reading
  <2> QED BY <1>1, <2>1, <2>2, ReadingGoesOn
<1>7. CASE label[r] = "submit_task"
  <2>1. GoTo(r, "read_before")
    BY <1>4, <1>7 DEF Proceed
  <2>2. LedgerFits(r, "read_before", label[r])
    BY <1>2, <1>7 DEF LedgerFits, Sending, Reading
  <2> QED BY <1>1, <2>1, <2>2, ReadingGoesOn
<1>8. CASE label[r] = "pay_task"
  <2>1. GoTo(r, "read_after")
    BY <1>4, <1>8 DEF Proceed
  <2>2. LedgerFits(r, "read_after", label[r])
    BY <1>2, <1>8 DEF LedgerFits, Sending, Reading
  <2> QED BY <1>1, <2>1, <2>2, ReadingGoesOn
<1> QED BY <1>2, <1>5, <1>6, <1>7, <1>8 DEF Labels

(* The run finds the vault and the wallets as it expects. *)
LEMMA LookingStaysOnCourse ==
    ASSUME IInv, LamportsConserved, ClientInv, before \in [Runs -> Option(Nat)],
           NEW r \in Runs, TimeFits, LedgerFits(r, phase[r], label[r]),
           SeeVault(r) \/ ReadBefore(r) \/ ReadAfter(r) \/ SeeNoVault(r)
    PROVE  OnCourse(r)'
<1>1. Script(r) /\ phase[r] \in Reading
  BY DEF Script, SeeVault, ReadBefore, ReadAfter, SeeNoVault, Reads, Reading
<1>2. Due(r, NextLabel(label[r]))
  BY <1>1 DEF LedgerFits
<1>3. CASE SeeVault(r)
  <2>1. /\ label[r] = "fund_task" /\ Due(r, "submit_task")
        /\ number' = number /\ before' = before
    BY <1>2, <1>3 DEF SeeVault, Reads, LedgerFits, NextLabel
  <2>2. TaskStands(r, "Funded", WorkerOf[r])
    BY <2>1 DEF Due, Stands
  <2>3. HasStatus(TaskOf(r), InCustody) /\ vaultBalance[TaskOf(r)] \in Nat
        /\ TaskOf(r) \in TaskIds
    BY <2>2, StandingTask DEF HasStatus, InCustody
  <2>4. vaultBalance[TaskOf(r)] > 0
    BY <2>2, <2>3, StandingTask, VaultIsValid, EscrowAssumption, ReserveValues
  <2>5. Begin(r, "submit_task")
    BY <1>3, <2>4 DEF SeeVault, Require
  <2>6. LedgerFits(r, "simulate", "submit_task")
    BY <2>1 DEF LedgerFits, Sending, Reading
  <2> QED BY <1>1, <2>1, <2>5, <2>6, ReadingGoesOn
<1>4. CASE ReadBefore(r)
  <2>1. /\ label[r] = "submit_task" /\ Due(r, "pay_task") /\ number' = number
        /\ phase'[r] = "simulate" /\ label'[r] = "pay_task"
    BY <1>2, <1>4 DEF ReadBefore, Reads, LedgerFits, NextLabel, Begin, ClientInv, ClientTyped
  <2>2. before'[r] = wallet'[WorkerOf[r]]
    BY <1>1, <1>4, ScriptReads DEF ReadBefore
  <2>3. Due(r, "pay_task")'
    BY <1>1, <2>1, ScriptReads DEF Due, Stands, Reserve, TaskStands, TaskOf, Exists
  <2>4. TimeFits' /\ LedgerFits(r, "simulate", "pay_task")'
    BY <1>1, <2>2, <2>3, ScriptReads DEF TimeFits, LedgerFits, Sending, Reading
  <2> QED BY <2>1, <2>4, RunGoesOn
<1>5. CASE ReadAfter(r) \/ SeeNoVault(r)
  <2>1. /\ label[r] = "pay_task" /\ Due(r, "done")
        /\ number' = number /\ before' = before
    BY <1>2, <1>5 DEF ReadAfter, SeeNoVault, Reads, LedgerFits, NextLabel
  <2>2. /\ vaultBalance[TaskOf(r)] = 0
        /\ wallet[WorkerOf[r]] - before[r] = RewardLamports
    BY <2>1 DEF Due, Stands
  <2>3. GoTo(r, "see_no_vault") \/ GoTo(r, "succeeded")
    BY <1>5, <2>2 DEF ReadAfter, SeeNoVault, Require
  <2>4. LedgerFits(r, "see_no_vault", label[r]) /\ LedgerFits(r, "succeeded", label[r])
    BY <1>2, <2>1 DEF LedgerFits, Sending, Reading
  <2> QED BY <1>1, <2>1, <2>3, <2>4, ReadingGoesOn
<1> QED BY <1>3, <1>4, <1>5

(* A step of the script by a run on its course. *)
LEMMA ScriptStaysOnCourse ==
    ASSUME IInv, ContiguousNumbering, LamportsConserved, ClientInv, CourseInv,
           NEW r \in Runs, Script(r)
    PROVE  \A s \in Runs : OnCourse(s)'
<1>1. /\ UNCHANGED vars /\ disturbed' = disturbed /\ phase[r] \notin Ended
      /\ profile' = profile /\ task' = task /\ vaultBalance' = vaultBalance
      /\ wallet' = wallet /\ now' = now
  BY ScriptReads
<1>2. OnCourse(r)'
  <2>1. CASE r \in disturbed
    BY <1>1, <2>1 DEF OnCourse
  <2>2. CASE r \notin disturbed
    <3>1. TimeFits /\ LedgerFits(r, phase[r], label[r])
      BY <1>1, <2>2 DEF CourseInv, OnCourse
    <3>2. NumbersAreGuessed /\ before \in [Runs -> Option(Nat)]
      BY DEF CourseInv
    <3> QED BY <3>1, <3>2, StartStaysOnCourse, SendingStaysOnCourse, FetchStaysOnCourse,
               LookingStaysOnCourse DEF Script
  <2> QED BY <2>1, <2>2
<1>3. ASSUME NEW s \in Runs \ {r} PROVE OnCourse(s)'
  <2>1. /\ phase'[s] = phase[s] /\ label'[s] = label[s]
        /\ number'[s] = number[s] /\ before'[s] = before[s]
    BY <1>3
    DEF Script, CheckBalance, FindProfile, FetchProfile, Simulate, Send, FetchAndAssertTask,
        SeeVault, ReadBefore, ReadAfter, SeeNoVault, Require, Proceed, Begin, GoTo,
        ClientInv, ClientTyped, CourseInv
  <2>2. ~Affects(s)
    BY <1>1 DEF Affects
  <2> QED BY <1>1, <2>1, <2>2, BystanderStays DEF CourseInv
<1> QED BY <1>2, <1>3

(* A run that is interrupted is interfered with. *)
LEMMA AbortStaysOnCourse ==
    ASSUME ClientInv, CourseInv, NEW r \in Runs, Abort(r)
    PROVE  \A s \in Runs : OnCourse(s)'
<1>1. /\ UNCHANGED vars /\ number' = number /\ before' = before /\ label' = label
      /\ disturbed' = disturbed \cup {r}
  BY DEF Abort, GoTo, Disturb, ledger
<1>2. OnCourse(r)'
  BY <1>1 DEF OnCourse
<1>3. ASSUME NEW s \in Runs \ {r} PROVE OnCourse(s)'
  <2>1. phase'[s] = phase[s]
    BY <1>3 DEF Abort, GoTo, ClientInv, ClientTyped
  <2>2. ~Affects(s) /\ now' = now
    BY <1>1 DEF Affects, vars
  <2> QED BY <1>1, <2>1, <2>2, BystanderStays DEF CourseInv
<1> QED BY <1>2, <1>3

(* No transaction moves the clock. *)
LEMMA TransactionsTakeNoTime ==
    ASSUME NEW r \in Runs, NEW l, Transaction(r, l)
    PROVE  now' = now
BY DEF Transaction, CreateCreatorProfile, CreateTask, AssignWorker, AcceptAssignment,
       FundTask, SubmitTask, PayTask

(* The run's own transaction lands or, if it is not awaited any more, does *)
(* not matter to it; the program refuses nothing a run on its course sends. *)
LEMMA OwnTransactionStaysOnCourse ==
    ASSUME IInv, ContiguousNumbering, LamportsConserved, ClientInv, CourseInv,
           NEW r \in Runs, NEW l \in Labels, Land(r, l) \/ Refuse(r, l) \/ Expire(r, l)
    PROVE  OnCourse(r)'
<1>1. /\ label[r] = l /\ label' = label /\ number' = number /\ before' = before
      /\ phase[r] \in {"confirm"} \cup Ended
  BY DEF Land, Refuse, Expire, Vanish, ClientInv, Pending
<1>2. disturbed \subseteq disturbed' /\ now' = now
  BY TransactionsTakeNoTime DEF Land, Refuse, Expire, Vanish, Disturb, ledger, vars
<1>3. CASE phase[r] \in Ended
  <2>1. phase'[r] = phase[r]
    BY <1>3 DEF Land, Refuse, Expire, Vanish, Awaits, Ended
  <2> QED BY <1>1, <1>2, <1>3, <2>1, BystanderStays DEF CourseInv
<1>4. CASE phase[r] = "confirm" /\ r \in disturbed'
  BY <1>4 DEF OnCourse
<1>5. CASE phase[r] = "confirm" /\ r \notin disturbed'
  <2>1. r \notin disturbed /\ TimeFits /\ LedgerFits(r, "confirm", l)
    BY <1>1, <1>2, <1>5 DEF CourseInv, OnCourse, Ended
  <2>2. ~Expire(r, l)
    BY <1>5 DEF Expire, Disturb, Ended
  <2>3. ~Refuse(r, l)
    <3>1. Due(r, label[r])
      BY <1>1, <2>1 DEF LedgerFits, Sending
    <3> QED BY <1>1, <2>1, <3>1, DueIsAccepted DEF Refuse, CourseInv
  <2>4. Land(r, l) /\ Transaction(r, l)
    BY <2>2, <2>3 DEF Land
  <2>5. phase'[r] = IF l = "create_creator_profile" THEN "fetch_profile" ELSE "fetch"
    BY <1>1, <1>5, <2>4 DEF Land, Awaits
  <2>6. LedgerFits(r, IF l = "create_creator_profile" THEN "fetch_profile" ELSE "fetch", l)'
    BY <1>1, <2>1, <2>4, LandingFits
  <2>7. TimeFits'
    BY <1>2, <2>1 DEF TimeFits
  <2> QED BY <1>1, <2>5, <2>6, <2>7, RunGoesOn
<1> QED BY <1>1, <1>3, <1>4, <1>5

(* Whatever lands, is refused or expires. *)
LEMMA NetworkStaysOnCourse ==
    ASSUME IInv, ContiguousNumbering, LamportsConserved, ClientInv, CourseInv,
           NEW r \in Runs, Network(r)
    PROVE  \A s \in Runs : OnCourse(s)'
<1> PICK l \in Labels : Land(r, l) \/ Refuse(r, l) \/ Expire(r, l)
  BY DEF Network
<1>1. ASSUME NEW s \in Runs \ {r} PROVE OnCourse(s)'
  <2>1. /\ label' = label /\ number' = number /\ before' = before
        /\ phase'[s] = phase[s] /\ disturbed \subseteq disturbed' /\ now' = now
    BY <1>1, TransactionsTakeNoTime
    DEF Land, Refuse, Expire, Vanish, Awaits, Disturb, ledger, vars
  <2>2. ~Affects(s) \/ s \in disturbed' \/ phase[s] \in Ended
    BY <1>1 DEF Land, Refuse, Expire, Vanish, Disturb, Affects, ledger, vars
  <2> QED BY <2>1, <2>2, BystanderStays DEF CourseInv
<1> QED BY <1>1, OwnTransactionStaysOnCourse

(* The others leave the profile and the clock alone. *)
LEMMA OthersLeaveProfile ==
    ASSUME Others
    PROVE  profile' = profile /\ now' = now
BY DEF Others, CancelTask, RefundTaskAfterTimeout, SettleTaskAfterTimeout, AcceptTask,
       Donate, Transfer, accounts

(* The others interfere with the runs they affect. *)
LEMMA OthersStayOnCourse ==
    ASSUME CourseInv, Others
    PROVE  \A s \in Runs : OnCourse(s)'
<1>1. /\ phase' = phase /\ label' = label /\ number' = number /\ before' = before
      /\ Disturb({s \in Runs : Affects(s)})
  BY DEF Others, client
<1>2. now' = now
  BY OthersLeaveProfile
<1>3. ASSUME NEW s \in Runs PROVE OnCourse(s)'
  <2>1. ~Affects(s) \/ s \in disturbed' \/ phase[s] \in Ended
    BY <1>1 DEF Disturb
  <2>2. disturbed \subseteq disturbed'
    BY <1>1 DEF Disturb
  <2> QED BY <1>1, <1>2, <2>1, <2>2, BystanderStays DEF CourseInv
<1> QED BY <1>3

(* The deadline of a funded task is set. *)
LEMMA FundedTaskHasDeadline ==
    ASSUME IInv, NEW id \in TaskIds, Exists(id), task[id].status = "Funded"
    PROVE  task[id].submission_deadline \in Nat
<1>1. task[id] \in Task /\ AccountsAgree(id)
  BY AgreeingTask
<1> QED BY <1>1 DEF AccountsAgree, TaskShaped, TaskValid, Task

(* Time interferes with the runs that are late. *)
LEMMA TimeStaysOnCourse ==
    ASSUME IInv, IInv', CourseInv, Time
    PROVE  \A s \in Runs : OnCourse(s)'
<1>1. /\ phase' = phase /\ label' = label /\ number' = number /\ before' = before
      /\ profile' = profile /\ task' = task /\ vaultBalance' = vaultBalance
      /\ wallet' = wallet
      /\ disturbed' = disturbed \cup {s \in {q \in Runs : TimeIsUp(q)} : phase[s] \notin Ended}
  BY DEF Time, AdvanceClock, accounts, money, client, Disturb
<1>2. ASSUME NEW s \in Runs, s \notin disturbed' PROVE OnCourse(s)'
  <2>1. s \notin disturbed /\ phase[s] # "failed"
    BY <1>1, <1>2 DEF CourseInv, OnCourse
  <2>2. CASE phase[s] \in Ended
    BY <1>1, <2>1, <2>2, RunGoesOn
  <2>3. CASE phase[s] \notin Ended
    <3>1. ~TimeIsUp(s)
      BY <1>1, <1>2, <2>3
    <3>2. TimeFits'
      <4>1. now' \in Nat /\ MaxTimestamp \in Nat
        BY AccountsAssumption DEF IInv, TypeOK
      <4>2. SubmissionTimeout \in Nat /\ ReviewTimeout \in Nat
        BY AccountsAssumption
      <4>3. /\ ~(now' + SubmissionTimeout > MaxTimestamp)
            /\ ~(now' + ReviewTimeout > MaxTimestamp)
        BY <3>1 DEF TimeIsUp
      <4>4. \A t, n, m \in Nat : ~(t + n > m) => t + n <= m
        OBVIOUS
      <4>5. now' + SubmissionTimeout <= MaxTimestamp /\ now' + ReviewTimeout <= MaxTimestamp
        BY <4>1, <4>2, <4>3, <4>4
      <4> QED BY <4>5 DEF TimeFits
    <3>3. LedgerFits(s, phase[s], label[s])
      BY <2>1, <2>3 DEF CourseInv, OnCourse
    <3>4. ASSUME TaskOf(s) \in TaskIds, Exists(TaskOf(s)),
                 task[TaskOf(s)].status = "Funded"
          PROVE  now' < task[TaskOf(s)].submission_deadline
      <4>1. number[s] # None
        BY <3>4, AccountsAssumption DEF TaskOf, TaskIds
      <4>2. now' \in Nat /\ task[TaskOf(s)].submission_deadline \in Nat
        BY <3>4, FundedTaskHasDeadline DEF IInv, TypeOK
      <4> QED BY <3>1, <3>4, <4>1, <4>2 DEF TimeIsUp
    <3>5. ASSUME NEW p, NEW l, LedgerFits(s, p, l) PROVE LedgerFits(s, p, l)'
      BY <1>1, <3>4, <3>5, LedgerStays, MarketplaceAssumption
    <3> QED BY <1>1, <2>1, <3>2, <3>3, <3>5, RunGoesOn
  <2> QED BY <2>2, <2>3
<1> QED BY <1>2 DEF OnCourse

-----------------------------------------------------------------------------
(***************************************************************************)
(* Numbers are guessed                                                     *)
(***************************************************************************)

(* Runs keep their numbers, and the count grows only to one of them. *)
LEMMA GuessesStay ==
    ASSUME NumbersAreGuessed, number' = number,
           \A r \in Runs : label'[r] = "create_creator_profile" =>
                             label[r] = "create_creator_profile",
           profile'[Operator] # None => \A n \in 1 .. profile'[Operator] :
             \/ profile[Operator] # None /\ n \in 1 .. profile[Operator]
             \/ \E r \in Runs : number[r] = n
    PROVE  NumbersAreGuessed'
BY DEF NumbersAreGuessed

(* No step of the script goes back to the first transaction. *)
LEMMA ScriptGoesForward ==
    ASSUME ClientInv, NEW r \in Runs, Script(r)
    PROVE  \A s \in Runs : label'[s] = "create_creator_profile" =>
                             label[s] = "create_creator_profile"
<1>1. label \in [Runs -> Labels] /\ (phase[r] \in Early => label[r] = "create_creator_profile")
  BY DEF ClientInv, ClientTyped, InOrder
<1>2. CASE FindProfile(r)
  BY <1>1, <1>2 DEF FindProfile, Reads, Early, Begin, GoTo
<1>3. CASE ~FindProfile(r)
  <2>1. \/ label' = label
        \/ \E l \in Labels \ {"create_creator_profile"} : Begin(r, l)
    BY <1>3
    DEF Script, CheckBalance, FetchProfile, Simulate, Send, FetchAndAssertTask, SeeVault,
        ReadBefore, ReadAfter, SeeNoVault, Require, Proceed, GoTo, Labels
  <2> QED BY <1>1, <2>1 DEF Begin
<1> QED BY <1>2, <1>3

(* A run guesses only once, and a task is created with a number that was   *)
(* guessed.                                                                *)
LEMMA GuessesAreKept ==
    ASSUME IInv, ClientInv, NumbersAreGuessed, [SmokeNext]_smokeVars
    PROVE  NumbersAreGuessed'
<1>1. ASSUME NEW r \in Runs, FetchProfile(r) PROVE NumbersAreGuessed'
  <2>1. /\ number' = [number EXCEPT ![r] = profile[Operator] + 1]
        /\ label' = [label EXCEPT ![r] = "create_task"]
        /\ profile' = profile /\ label[r] = "create_creator_profile"
    BY <1>1 DEF FetchProfile, Reads, Begin, ledger, vars, ClientInv, InOrder, Early
  <2>2. number[r] = None
    BY <2>1 DEF NumbersAreGuessed
  <2>3. /\ \A s \in Runs \ {r} : number'[s] = number[s] /\ label'[s] = label[s]
        /\ label'[r] = "create_task"
    BY <2>1 DEF ClientInv, ClientTyped
  <2>4. ASSUME NEW n \in 1 .. profile[Operator], profile[Operator] # None
        PROVE  \E q \in Runs : number'[q] = n
    <3>1. PICK q \in Runs : number[q] = n
      BY <2>4 DEF NumbersAreGuessed
    <3>2. q # r
      BY <2>2, <3>1, AccountsAssumption
    <3> QED BY <2>3, <3>1, <3>2
  <2> QED BY <2>1, <2>3, <2>4 DEF NumbersAreGuessed
<1>2. ASSUME NEW r \in Runs, Script(r), ~FetchProfile(r) PROVE NumbersAreGuessed'
  <2>1. number' = number
    BY <1>2 DEF Script, CheckBalance, FindProfile, Simulate, Send, FetchAndAssertTask, SeeVault,
        ReadBefore, ReadAfter, SeeNoVault
  <2>2. profile' = profile
    BY <1>2, ScriptReads
  <2> QED BY <1>2, <2>1, <2>2, ScriptGoesForward, GuessesStay
<1>3. ASSUME NEW r \in Runs, Network(r) PROVE NumbersAreGuessed'
  <2> PICK l \in Labels : Land(r, l) \/ Refuse(r, l) \/ Expire(r, l)
    BY <1>3 DEF Network
  <2>1. number' = number /\ label' = label
    BY DEF Land, Refuse, Expire, Vanish
  <2>2. CASE profile' = profile
    BY <2>1, <2>2, GuessesStay
  <2>3. CASE Land(r, l) /\ l = "create_creator_profile"
    <3>1. profile'[Operator] = 0
      BY <2>3, ScriptArguments
      DEF Land, Transaction, CreateCreatorProfile, IInv, TypeOK
    <3> QED BY <2>1, <3>1, GuessesStay
  <2>4. CASE Land(r, l) /\ l = "create_task"
    <3>1. /\ profile[Operator] # None /\ number[r] = profile[Operator] + 1
          /\ profile' = [profile EXCEPT ![Operator] = number[r]]
      BY <2>4 DEF Land, Transaction, CreateTask, CanCreateTask
    <3>2. profile[Operator] \in Nat /\ profile'[Operator] = profile[Operator] + 1
      BY <3>1, ScriptArguments, MarketplaceAssumption DEF IInv, TypeOK
    <3>3. ASSUME NEW n \in 1 .. profile'[Operator]
          PROVE  n \in 1 .. profile[Operator] \/ n = number[r]
      BY <3>1, <3>2
    <3> QED BY <2>1, <3>1, <3>3, GuessesStay
  <2>5. CASE Land(r, l) /\ l \notin {"create_creator_profile", "create_task"}
    <3>1. profile' = profile
      BY <2>5 DEF Land, Transaction, AssignWorker, AcceptAssignment, FundTask, SubmitTask, PayTask
    <3> QED BY <2>2, <3>1
  <2>6. CASE Refuse(r, l) \/ Expire(r, l)
    <3>1. profile' = profile
      BY <2>6 DEF Refuse, Expire, Vanish, ledger, vars
    <3> QED BY <2>2, <3>1
  <2> QED BY <2>3, <2>4, <2>5, <2>6
<1>4. ASSUME NEW r \in Runs, Abort(r) PROVE NumbersAreGuessed'
  BY <1>4, GuessesStay DEF Abort, GoTo, ledger, vars
<1>5. CASE Others
  BY <1>5, OthersLeaveProfile, GuessesStay DEF Others, client
<1>6. CASE Time
  BY <1>6, GuessesStay DEF Time, AdvanceClock, accounts, client
<1>7. CASE UNCHANGED smokeVars
  BY <1>7, GuessesStay DEF smokeVars, client, vars
<1> QED BY <1>1, <1>2, <1>3, <1>4, <1>5, <1>6, <1>7 DEF SmokeNext

-----------------------------------------------------------------------------
(***************************************************************************)
(* Nothing but interference fails a run                                    *)
(***************************************************************************)

(* Initially nothing has happened. *)
LEMMA CourseInitHolds == SmokeInit => CourseInv
<1> SUFFICES ASSUME SmokeInit PROVE CourseInv OBVIOUS
<1>1. before \in [Runs -> Option(Nat)] /\ NumbersAreGuessed
  BY ScriptArguments DEF SmokeInit, Init, NumbersAreGuessed
<1>2. now + SubmissionTimeout <= MaxTimestamp /\ now + ReviewTimeout <= MaxTimestamp
  BY BudgetAssumption, AccountsAssumption DEF SmokeInit, Init
<1>3. \A r \in Runs : OnCourse(r)
  BY <1>2 DEF SmokeInit, OnCourse, TimeFits, LedgerFits, Sending, Reading, Ended
<1> QED BY <1>1, <1>3 DEF CourseInv

(* Every step keeps every run on its course. *)
LEMMA CourseNextKeeps ==
    IInv /\ ClientInv /\ ContiguousNumbering /\ LamportsConserved
      /\ CourseInv /\ [SmokeNext]_smokeVars => CourseInv'
<1> SUFFICES ASSUME IInv, ClientInv, ContiguousNumbering, LamportsConserved,
                    CourseInv, [SmokeNext]_smokeVars
             PROVE  CourseInv'
  OBVIOUS
<1>1. IInv'
  BY SmokeNextKeeps
<1>2. NumbersAreGuessed'
  BY GuessesAreKept DEF CourseInv
<1>3. before' \in [Runs -> Option(Nat)]
  <2>1. before \in [Runs -> Option(Nat)]
    BY DEF CourseInv
  <2>2. ASSUME NEW r \in Runs, ReadBefore(r) PROVE before' \in [Runs -> Option(Nat)]
    <3>1. wallet[WorkerOf[r]] \in Nat
      BY ScriptArguments DEF IInv, TypeOK
    <3> QED BY <2>1, <2>2, <3>1 DEF ReadBefore
  <2>3. ASSUME NEW r \in Runs, Script(r), ~ReadBefore(r) PROVE before' = before
    BY <2>3 DEF Script, CheckBalance, FindProfile, FetchProfile, Simulate, Send,
        FetchAndAssertTask, SeeVault, ReadAfter, SeeNoVault
  <2>4. ASSUME NEW r \in Runs, Network(r) \/ Abort(r) PROVE before' = before
    BY <2>4 DEF Network, Land, Refuse, Expire, Vanish, Abort
  <2>5. CASE Others \/ Time \/ UNCHANGED smokeVars
    BY <2>1, <2>5 DEF Others, Time, smokeVars, client
  <2> QED BY <2>1, <2>2, <2>3, <2>4, <2>5 DEF SmokeNext
<1>4. \A r \in Runs : OnCourse(r)'
  <2>1. ASSUME NEW r \in Runs, Script(r) \/ Network(r) \/ Abort(r)
        PROVE  \A s \in Runs : OnCourse(s)'
    BY <2>1, ScriptStaysOnCourse, NetworkStaysOnCourse, AbortStaysOnCourse
  <2>2. CASE Others
    BY <2>2, OthersStayOnCourse
  <2>3. CASE Time
    BY <1>1, <2>3, TimeStaysOnCourse
  <2>4. CASE UNCHANGED smokeVars
    <3>1. ASSUME NEW r \in Runs PROVE OnCourse(r)'
      <4>1. /\ UNCHANGED <<phase, label, number, before, disturbed, now>>
            /\ ~Affects(r)
        BY <2>4 DEF smokeVars, client, vars, Affects
      <4> QED BY <4>1, BystanderStays DEF CourseInv
    <3> QED BY <3>1
  <2> QED BY <2>1, <2>2, <2>3, <2>4 DEF SmokeNext
<1> QED BY <1>2, <1>3, <1>4 DEF CourseInv

(* The inductive invariant of the undisturbed runs: the ledger and the     *)
(* clock are as each of them expects at the await it is at, and the task   *)
(* numbers the operator has used up were each the guess of one run.        *)
THEOREM RunsStayOnCourse == SmokeSpec => []CourseInv
<1>1. SmokeSpec => [](ContiguousNumbering /\ LamportsConserved)
  BY ScriptUsesProgram, NumberingIsContiguous, LamportsAreConserved, PTL
<1> QED BY <1>1, CourseInitHolds, CourseNextKeeps, ClientsAlwaysAgree, PTL DEF SmokeSpec

(* A run of the script that nobody and nothing interferes with does not    *)
(* fail, on a fresh ledger as well as after earlier runs, whatever state   *)
(* those were left in: the number, the addresses, the statuses, the        *)
(* balances and the deadlines it expects are those the program produces.   *)
THEOREM OnlyInterferenceFails == SmokeSpec => []OnlyInterferenceFailsARun
<1>1. CourseInv => OnlyInterferenceFailsARun
  BY DEF CourseInv, OnCourse, OnlyInterferenceFailsARun
<1> QED BY <1>1, RunsStayOnCourse, PTL
=============================================================================
