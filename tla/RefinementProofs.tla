--------------------------- MODULE RefinementProofs ---------------------------
(***************************************************************************)
(* Proofs that the task_marketplace program implements the two abstract    *)
(* specifications, the life of a task (TaskLifecycle) and the custody of   *)
(* its money (EscrowCustody), and, with one task, the model that the       *)
(* repository tests in its place (PropertyModel).  For the first two, a    *)
(* step of the environment or an instruction (MarketplaceSteps) maps to a  *)
(* step of the abstract specification or leaves its variables unchanged;   *)
(* the third knows the guards of the instructions, so each instruction is  *)
(* mapped to the model's action by itself.                                 *)
(***************************************************************************)
EXTENDS LamportProofs, PropertyModelMapping

USE DEF Option, Timestamps, Pubkeys

-----------------------------------------------------------------------------
(***************************************************************************)
(* The lifecycle                                                           *)
(***************************************************************************)
WorkerOf(id) == IF Exists(id) THEN task[id].worker ELSE None

EvidenceOf(id) == IF Exists(id) THEN task[id].submission_reference ELSE None

(* What a step does to one task is what it does to the abstract variables. *)
LEMMA LifecycleUpdate ==
    ASSUME TypeOK, NEW id \in TaskIds, Instruction(id)
    PROVE  /\ [i \in TaskIds |-> StatusOf(i)]'
                 = [[i \in TaskIds |-> StatusOf(i)] EXCEPT ![id] = StatusOf(id)']
           /\ [i \in TaskIds |-> WorkerOf(i)]'
                 = [[i \in TaskIds |-> WorkerOf(i)] EXCEPT ![id] = WorkerOf(id)']
           /\ [i \in TaskIds |-> EvidenceOf(i)]'
                 = [[i \in TaskIds |-> EvidenceOf(i)] EXCEPT ![id] = EvidenceOf(id)']
           /\ StatusOf(id)' = StatusOf(id) => UNCHANGED [i \in TaskIds |-> StatusOf(i)]
           /\ WorkerOf(id)' = WorkerOf(id) => UNCHANGED [i \in TaskIds |-> WorkerOf(i)]
           /\ EvidenceOf(id)' = EvidenceOf(id) => UNCHANGED [i \in TaskIds |-> EvidenceOf(i)]
<1>1. ASSUME NEW j \in TaskIds \ {id}
      PROVE  /\ StatusOf(j)' = StatusOf(j)
             /\ WorkerOf(j)' = WorkerOf(j)
             /\ EvidenceOf(j)' = EvidenceOf(j)
  BY OthersUnchanged DEF Unchanged, StatusOf, WorkerOf, EvidenceOf, Exists
<1> QED BY <1>1

(* An instruction moves its task along an edge of the diagram, hires the   *)
(* worker with the move to Accepted and stores the evidence with the move  *)
(* to Submitted, or leaves the three alone.                                *)
LEMMA LifecycleMoves ==
    ASSUME IInv, NEW id \in TaskIds, Instruction(id)
    PROVE  LET to == StatusOf(id)'
           IN \/ /\ <<StatusOf(id), to>> \in Lifecycle!Edges
                 /\ \/ /\ to = "Accepted"
                       /\ WorkerOf(id)' \in Keys
                       /\ EvidenceOf(id)' = EvidenceOf(id)
                    \/ /\ to = "Submitted"
                       /\ EvidenceOf(id)' \in ValidTexts
                       /\ WorkerOf(id)' = WorkerOf(id)
                    \/ /\ to \in {"Open", "Assigned", "Funded", "Disputed"} \cup Terminal
                       /\ WorkerOf(id)' = WorkerOf(id)
                       /\ EvidenceOf(id)' = EvidenceOf(id)
              \/ /\ to = StatusOf(id)
                 /\ WorkerOf(id)' = WorkerOf(id)
                 /\ EvidenceOf(id)' = EvidenceOf(id)
<1>0. TypeOK /\ (Exists(id) => task[id] \in Task)
  BY DEF IInv, TypeOK, Exists
<1> USE DEF StatusOf, WorkerOf, EvidenceOf, HasStatus, Exists, Lifecycle!Edges, Terminal
<1>1. CASE Creates(id)
  <2>1. /\ task[id] = None /\ task'[id] # None
        /\ task'[id].status = "Open" /\ task'[id].worker = None
        /\ task'[id].submission_reference = None
    BY <1>0, <1>1, Written DEF Creates, NewTask
  <2> QED BY <2>1
<1>2. CASE NamesArbitrator(id)
  <2>1. task'[id] = task[id]
    BY <1>0, <1>2, Written DEF NamesArbitrator
  <2> QED BY <2>1
<1>3. CASE SelectsWorker(id)
  <2>1. /\ task[id] # None /\ task[id].status = "Open"
        /\ task'[id] # None /\ task'[id] = TaskAssignWorker(task[id])
    BY <1>0, <1>3, Written DEF SelectsWorker
  <2> QED BY <1>0, <2>1 DEF TaskAssignWorker, Task
<1>4. CASE Hires(id)
  <2>1. PICK w \in Keys :
           /\ task[id] # None /\ task[id].status \in {"Open", "Assigned"}
           /\ task'[id] # None /\ task'[id] = TaskAccept(task[id], w)
    BY <1>0, <1>4, Written DEF Hires
  <2> QED BY <1>0, <2>1 DEF TaskAccept, Task
<1>5. CASE Cancels(id)
  <2>1. /\ task[id] # None /\ task[id].status \in {"Open", "Assigned", "Accepted"}
        /\ task'[id] # None /\ task'[id] = TaskCancel(task[id])
    BY <1>0, <1>5, Written DEF Cancels
  <2> QED BY <1>0, <2>1 DEF TaskCancel, Task
<1>6. CASE Funds(id)
  <2>1. /\ task[id] # None /\ task[id].status = "Accepted"
        /\ task'[id] # None /\ task'[id] = TaskFund(task[id], now)
    BY <1>0, <1>6, Written DEF Funds
  <2> QED BY <1>0, <2>1 DEF TaskFund, Task
<1>7. CASE Submits(id)
  <2>1. PICK reference \in ValidTexts :
           /\ task[id] # None /\ task[id].status = "Funded"
           /\ task'[id] # None /\ task'[id] = TaskSubmit(task[id], reference, now)
    BY <1>0, <1>7, Written DEF Submits
  <2> QED BY <1>0, <2>1 DEF TaskSubmit, Task
<1>8. CASE PaysSubmission(id)
  <2>1. /\ task[id] # None /\ task[id].status = "Submitted"
        /\ task'[id] # None /\ task'[id] = TaskPay(task[id])
    BY <1>0, <1>8, Written DEF PaysSubmission
  <2> QED BY <1>0, <2>1 DEF TaskPay, Task
<1>9. CASE Refunds(id)
  <2>1. /\ task[id] # None /\ task[id].status = "Funded"
        /\ task'[id] # None /\ task'[id] = TaskRefundAfterTimeout(task[id])
    BY <1>0, <1>9, Written DEF Refunds
  <2> QED BY <1>0, <2>1 DEF TaskRefundAfterTimeout, Task
<1>10. CASE Rejects(id)
  <2>1. /\ task[id] # None /\ task[id].status = "Submitted"
        /\ task'[id] # None /\ task'[id] = TaskRejectSubmission(task[id])
    BY <1>0, <1>10, Written DEF Rejects
  <2> QED BY <1>0, <2>1 DEF TaskRejectSubmission, Task
<1>11. CASE Settles(id)
  <2>1. PICK outcome \in DisputeOutcome :
           /\ task[id] # None /\ task[id].status = "Disputed"
           /\ task'[id] # None /\ task'[id] = TaskResolveDispute(task[id], outcome)
    BY <1>0, <1>11, Written DEF Settles
  <2> QED BY <1>0, <2>1 DEF TaskResolveDispute, Task
<1> QED BY <1>1, <1>2, <1>3, <1>4, <1>5, <1>6, <1>7, <1>8, <1>9, <1>10, <1>11
        DEF Instruction

(* Every behaviour of the program, seen through the status, worker and     *)
(* evidence of each task, is a behaviour of the lifecycle diagram in       *)
(* docs/task-lifecycle.svg.                                                *)
THEOREM LifecycleImplemented == Spec => ImplementsLifecycle
<1>1. Init => Lifecycle!Init
  BY DEF Init, Lifecycle!Init, StatusOf, Exists
<1>2. IInv /\ [Next]_vars => [Lifecycle!Next]_(Lifecycle!lifecycleVars)
  <2> SUFFICES ASSUME IInv, [Next]_vars
               PROVE  [Lifecycle!Next]_(Lifecycle!lifecycleVars)
    OBVIOUS
  <2>0. TypeOK
    BY DEF IInv
  <2>1. CASE Background
    <3>1. ASSUME NEW i \in TaskIds
          PROVE  StatusOf(i)' = StatusOf(i) /\ WorkerOf(i)' = WorkerOf(i)
                 /\ EvidenceOf(i)' = EvidenceOf(i)
      BY <2>1 DEF Background, StatusOf, WorkerOf, EvidenceOf, Exists
    <3> QED BY <3>1 DEF Lifecycle!lifecycleVars, WorkerOf, EvidenceOf
  <2>2. ASSUME NEW id \in TaskIds, Instruction(id)
        PROVE  [Lifecycle!Next]_(Lifecycle!lifecycleVars)
    <3> DEFINE to == StatusOf(id)'
    <3>1. <<StatusOf(id), to>> \in Lifecycle!Edges => Lifecycle!Move(id, to)
      BY <2>0, <2>2, LifecycleUpdate DEF Lifecycle!Move
    <3>2. ASSUME <<StatusOf(id), to>> \in Lifecycle!Edges, to = "Accepted",
                 WorkerOf(id)' \in Keys, EvidenceOf(id)' = EvidenceOf(id)
          PROVE  Lifecycle!Hire(id)
      <4>1. Lifecycle!Move(id, "Accepted")
        BY <3>1, <3>2
      <4>2. \E w \in Keys :
               [i \in TaskIds |-> WorkerOf(i)]'
                  = [[i \in TaskIds |-> WorkerOf(i)] EXCEPT ![id] = w]
        BY <2>0, <2>2, <3>2, LifecycleUpdate
      <4>3. UNCHANGED [i \in TaskIds |-> EvidenceOf(i)]
        BY <2>0, <2>2, <3>2, LifecycleUpdate
      <4> QED BY <4>1, <4>2, <4>3 DEF Lifecycle!Hire, WorkerOf, EvidenceOf
    <3>3. ASSUME <<StatusOf(id), to>> \in Lifecycle!Edges, to = "Submitted",
                 EvidenceOf(id)' \in ValidTexts, WorkerOf(id)' = WorkerOf(id)
          PROVE  Lifecycle!Deliver(id)
      <4>1. Lifecycle!Move(id, "Submitted")
        BY <3>1, <3>3
      <4>2. \E e \in ValidTexts :
               [i \in TaskIds |-> EvidenceOf(i)]'
                  = [[i \in TaskIds |-> EvidenceOf(i)] EXCEPT ![id] = e]
        BY <2>0, <2>2, <3>3, LifecycleUpdate
      <4>3. UNCHANGED [i \in TaskIds |-> WorkerOf(i)]
        BY <2>0, <2>2, <3>3, LifecycleUpdate
      <4> QED BY <4>1, <4>2, <4>3 DEF Lifecycle!Deliver, WorkerOf, EvidenceOf
    <3>4. ASSUME <<StatusOf(id), to>> \in Lifecycle!Edges,
                 to \in {"Open", "Assigned", "Funded", "Disputed"} \cup Terminal,
                 WorkerOf(id)' = WorkerOf(id), EvidenceOf(id)' = EvidenceOf(id)
          PROVE  Lifecycle!Proceed(id)
      <4>1. UNCHANGED <<[i \in TaskIds |-> WorkerOf(i)], [i \in TaskIds |-> EvidenceOf(i)]>>
        BY <2>0, <2>2, <3>4, LifecycleUpdate
      <4> HIDE DEF to
      <4>2. \E t \in {"Open", "Assigned", "Funded", "Disputed"} \cup Lifecycle!Terminal :
               Lifecycle!Move(id, t)
        BY <3>1, <3>4 DEF Terminal, Lifecycle!Terminal
      <4> QED BY <4>1, <4>2 DEF Lifecycle!Proceed, WorkerOf, EvidenceOf
    <3>5. ASSUME to = StatusOf(id), WorkerOf(id)' = WorkerOf(id),
                 EvidenceOf(id)' = EvidenceOf(id)
          PROVE  UNCHANGED Lifecycle!lifecycleVars
      <4>1. UNCHANGED <<[i \in TaskIds |-> StatusOf(i)], [i \in TaskIds |-> WorkerOf(i)],
                        [i \in TaskIds |-> EvidenceOf(i)]>>
        BY <2>0, <2>2, <3>5, LifecycleUpdate
      <4> QED BY <4>1 DEF Lifecycle!lifecycleVars, WorkerOf, EvidenceOf
    <3> HIDE DEF to
    <3> QED BY <2>2, <3>2, <3>3, <3>4, <3>5, LifecycleMoves DEF Lifecycle!Next, to
  <2> QED BY <2>1, <2>2, StepShape
<1> QED BY <1>1, <1>2, AccountsAlwaysAgree, PTL DEF Spec, ImplementsLifecycle, Lifecycle!Spec

-----------------------------------------------------------------------------
(***************************************************************************)
(* Custody                                                                 *)
(***************************************************************************)
TermsOf(id) ==
    IF WasFunded(id)
    THEN [creator |-> task[id].creator,
          worker  |-> task[id].worker,
          reward  |-> task[id].reward_amount]
    ELSE None

(* The phase and the terms of a task depend on its accounts alone. *)
LEMMA CustodyKept ==
    ASSUME NEW id \in TaskIds, task'[id] = task[id], vault'[id] = vault[id]
    PROVE  CustodyPhase(id)' = CustodyPhase(id) /\ TermsOf(id)' = TermsOf(id)
BY DEF CustodyPhase, TermsOf, WasFunded, Exists

(* What a step does to one task is what it does to the abstract variables. *)
LEMMA CustodyUpdate ==
    ASSUME TypeOK, NEW id \in TaskIds, Instruction(id)
    PROVE  /\ [i \in TaskIds |-> CustodyPhase(i)]'
                 = [[i \in TaskIds |-> CustodyPhase(i)] EXCEPT ![id] = CustodyPhase(id)']
           /\ [i \in TaskIds |-> TermsOf(i)]'
                 = [[i \in TaskIds |-> TermsOf(i)] EXCEPT ![id] = TermsOf(id)']
           /\ CustodyPhase(id)' = CustodyPhase(id) =>
                 UNCHANGED [i \in TaskIds |-> CustodyPhase(i)]
           /\ TermsOf(id)' = TermsOf(id) => UNCHANGED [i \in TaskIds |-> TermsOf(i)]
<1>1. ASSUME NEW j \in TaskIds \ {id}
      PROVE  CustodyPhase(j)' = CustodyPhase(j) /\ TermsOf(j)' = TermsOf(j)
  BY OthersUnchanged, CustodyKept DEF Unchanged
<1> QED BY <1>1

(* Before it is funded, a task has had no money to keep. *)
LEMMA NothingKeptYet ==
    ASSUME NEW id \in TaskIds, vault[id] = None, Exists(id) => task[id].funded_at = None
    PROVE  CustodyPhase(id) = "none" /\ TermsOf(id) = None
BY DEF CustodyPhase, TermsOf, WasFunded

(* While its task is Funded, Submitted or Disputed, money is held, on the  *)
(* terms of the task, and the vault can pay the reward.                    *)
LEMMA MoneyIsHeld ==
    ASSUME IInv, NEW id \in TaskIds, HasStatus(id, InCustody)
    PROVE  /\ task[id] \in Task /\ Exists(id) /\ WasFunded(id)
           /\ task[id].worker \in Keys /\ task[id].creator \in Keys
           /\ task[id].worker # task[id].creator
           /\ task[id].reward_amount \in Nat /\ task[id].reward_amount > 0
           /\ vault[id] = task[id].reward_amount /\ vault[id] # None
           /\ vaultBalance[id] \in Nat /\ vaultBalance[id] >= task[id].reward_amount
           /\ CustodyPhase(id) = "held"
           /\ TermsOf(id) = [creator |-> task[id].creator,
                             worker  |-> task[id].worker,
                             reward  |-> task[id].reward_amount]
<1>1. /\ Exists(id) /\ AccountsAgree(id) /\ task[id] \in Task
      /\ vaultBalance[id] \in Nat
  BY AgreeingTask DEF HasStatus
<1>2. /\ task[id].worker # None /\ task[id].funded_at # None
      /\ task[id].worker # task[id].creator /\ task[id].reward_amount > 0
  BY <1>1 DEF AccountsAgree, TaskShaped, TaskValid, HasStatus, InCustody
<1>3. /\ task[id].worker \in Keys /\ task[id].creator \in Keys
      /\ task[id].reward_amount \in Nat
  BY <1>1, <1>2 DEF Task
<1>4. /\ vault[id] # None /\ vault[id] = task[id].reward_amount
      /\ vaultBalance[id] >= VaultRent + task[id].reward_amount
  BY <1>1 DEF AccountsAgree, CustodyMatches, CoversLiability
<1>5. vaultBalance[id] >= task[id].reward_amount
  BY <1>1, <1>3, <1>4, EscrowAssumption
<1> QED BY <1>1, <1>2, <1>3, <1>4, <1>5 DEF CustodyPhase, TermsOf, WasFunded

(* A creator's payment of rent, seen from the escrow. *)
LEMMA RentIsSpentElsewhere ==
    ASSUME NEW key \in Keys, NEW account, PaysRent(key, account),
           UNCHANGED [i \in TaskIds |-> CustodyPhase(i)],
           UNCHANGED [i \in TaskIds |-> TermsOf(i)]
    PROVE  Custody!Next
<1>1. Custody!SpendElsewhere(key, Rent[account])
  BY DEF Custody!SpendElsewhere, PaysRent, Spend, TermsOf
<1> QED BY <1>1 DEF PaysRent, Custody!Next

(* The instructions before the escrow leave the custody of money alone.    *)
LEMMA PreparationKeepsCustody ==
    ASSUME IInv, IInv', NEW id \in TaskIds,
           \/ Creates(id) \/ NamesArbitrator(id) \/ SelectsWorker(id)
           \/ Hires(id) \/ Cancels(id)
    PROVE  /\ CustodyPhase(id)' = CustodyPhase(id)
           /\ TermsOf(id)' = TermsOf(id)
<1>0. /\ TypeOK /\ AccountsAgree(id)
      /\ Exists(id) => task[id] \in Task
  BY DEF IInv, TypeOK, Exists
<1>1. vault'[id] = vault[id]
  BY DEF Creates, NamesArbitrator, SelectsWorker, Hires, Cancels, PaysRent, KeepsMoney
<1>2. vault[id] = None
  BY <1>0 DEF AccountsAgree, CustodyMatches, HasStatus, InCustody, Creates,
              NamesArbitrator, SelectsWorker, Hires, Cancels
<1>3. ASSUME Exists(id) => task[id].funded_at = None,
             Exists(id)' => task'[id].funded_at = None
      PROVE  /\ CustodyPhase(id)' = CustodyPhase(id)
             /\ TermsOf(id)' = TermsOf(id)
  BY <1>1, <1>2, <1>3 DEF CustodyPhase, TermsOf, WasFunded
<1>4. CASE Creates(id)
  <2>1. ~Exists(id) /\ task'[id].funded_at = None
    BY <1>0, <1>4, Written DEF Creates, NewTask
  <2> QED BY <1>3, <2>1
<1>5. CASE NamesArbitrator(id)
  <2>1. task'[id] = task[id]
    BY <1>0, <1>5, Written DEF NamesArbitrator
  <2> QED BY <1>1, <2>1, CustodyKept
<1>6. CASE SelectsWorker(id)
  <2>1. /\ task'[id] = TaskAssignWorker(task[id]) /\ task[id] \in Task
        /\ task[id].funded_at = None
    BY <1>0, <1>6, Written DEF SelectsWorker, HasStatus, AccountsAgree, TaskShaped, TaskValid
  <2> QED BY <1>3, <2>1 DEF TaskAssignWorker, Task
<1>7. CASE Hires(id)
  <2>1. PICK w \in Keys : /\ task'[id] = TaskAccept(task[id], w) /\ task[id] \in Task
                          /\ Exists(id)'
    BY <1>0, <1>7, Written DEF Hires, HasStatus, Exists
  <2>2. task'[id].status = "Accepted" /\ task'[id].funded_at = task[id].funded_at
    BY <2>1 DEF TaskAccept, Task
  <2>3. task'[id].funded_at = None
    BY <2>1, <2>2 DEF IInv, AccountsAgree, TaskShaped, TaskValid
  <2> QED BY <1>3, <2>2, <2>3
<1>8. CASE Cancels(id)
  <2>1. /\ task'[id] = TaskCancel(task[id]) /\ task[id] \in Task
        /\ Exists(id) /\ Exists(id)' /\ task[id].status # "Paid"
    BY <1>0, <1>8, Written DEF Cancels, HasStatus, Exists
  <2>2. /\ task'[id].status # "Paid"
        /\ task'[id].funded_at = task[id].funded_at
        /\ task'[id].creator = task[id].creator /\ task'[id].worker = task[id].worker
        /\ task'[id].reward_amount = task[id].reward_amount
    BY <2>1 DEF TaskCancel, Task
  <2> QED BY <1>1, <1>2, <2>1, <2>2 DEF CustodyPhase, TermsOf, WasFunded
<1> QED BY <1>4, <1>5, <1>6, <1>7, <1>8

(* fund_task is the deposit. *)
LEMMA FundingDeposits ==
    ASSUME IInv, IInv', NEW id \in TaskIds, Instruction(id), Funds(id)
    PROVE  Custody!Next
<1>0. /\ TypeOK /\ AccountsAgree(id) /\ Exists(id) /\ task[id] \in Task
  BY DEF IInv, TypeOK, Funds, HasStatus, Exists
<1> DEFINE c == task[id].creator
           w == task[id].worker
           reward == task[id].reward_amount
<1>1. /\ c \in Keys /\ w \in Keys /\ c # w
      /\ reward \in Nat /\ reward > 0
  BY <1>0 DEF Funds, HasStatus, AccountsAgree, TaskShaped, TaskValid, Task
<1>2. CustodyPhase(id) = "none"
  BY NothingKeptYet DEF Funds
<1>3. task'[id] = TaskFund(task[id], now) /\ task'[id] # None /\ now # None
  BY <1>0, Written, MarketplaceAssumption, AccountsAssumption DEF Funds, IInv, TypeOK
<1>4. /\ task'[id].funded_at = now
      /\ task'[id].creator = c /\ task'[id].worker = w
      /\ task'[id].reward_amount = reward
  BY <1>0, <1>3 DEF TaskFund, Task
<1>5. vault'[id] # None
  <2>1. vault'[id] = reward
    BY <1>0 DEF Funds, TypeOK
  <2> QED BY <1>1, <2>1, AccountsAssumption
<1>6. CustodyPhase(id)' = "held" /\ WasFunded(id)'
  BY <1>3, <1>4, <1>5 DEF CustodyPhase, WasFunded, Exists
<1>7. TermsOf(id)' = [creator |-> c, worker |-> w, reward |-> reward]
  BY <1>4, <1>6 DEF TermsOf
<1>8. PICK amount \in 0 .. wallet[c] :
         /\ amount >= reward
         /\ vaultBalance[id] + amount >= VaultRent + reward
         /\ vaultBalance' = [vaultBalance EXCEPT ![id] = @ + amount]
         /\ Spend(c, amount)
  BY DEF Funds
<1>9. /\ [i \in TaskIds |-> CustodyPhase(i)]'
            = [[i \in TaskIds |-> CustodyPhase(i)] EXCEPT ![id] = "held"]
      /\ [i \in TaskIds |-> TermsOf(i)]'
            = [[i \in TaskIds |-> TermsOf(i)] EXCEPT
                 ![id] = [creator |-> c, worker |-> w, reward |-> reward]]
  BY <1>0, <1>6, <1>7, CustodyUpdate
<1>10. wallet[c] \in Nat /\ reward \in 0 .. amount
  BY <1>0, <1>1, <1>8 DEF TypeOK
<1> HIDE DEF c, w, reward
<1>11. Custody!Deposit(id, c, w, reward, amount)
  BY <1>1, <1>2, <1>8, <1>9 DEF Custody!Deposit, Spend, TermsOf
<1> QED BY <1>1, <1>8, <1>10, <1>11 DEF Custody!Next

(* The instructions that release a vault: to the worker, or to the creator *)
(* alone, always on the terms fixed at the deposit.                        *)
LEMMA PayOutPaysWorker ==
    ASSUME IInv, NEW id \in TaskIds, Instruction(id), HasStatus(id, InCustody), PayOut(id),
           task'[id] \in Task, task'[id] # None, task'[id].status = "Paid",
           task'[id].funded_at = task[id].funded_at,
           task'[id].creator = task[id].creator, task'[id].worker = task[id].worker,
           task'[id].reward_amount = task[id].reward_amount
    PROVE  Custody!PayWorker(id)
<1>0. TypeOK
  BY DEF IInv
<1>1. /\ CustodyPhase(id)' = "paid" /\ TermsOf(id)' = TermsOf(id)
  BY <1>0, MoneyIsHeld, Released DEF CustodyPhase, TermsOf, WasFunded, Exists
<1>2. /\ vaultBalance' = [vaultBalance EXCEPT ![id] = 0]
      /\ wallet' = [wallet EXCEPT ![task[id].worker]  = @ + vault[id],
                                  ![task[id].creator] = @ + (vaultBalance[id] - vault[id])]
  BY DEF PayOut, WorkerAmount
<1>3. /\ [i \in TaskIds |-> CustodyPhase(i)]'
            = [[i \in TaskIds |-> CustodyPhase(i)] EXCEPT ![id] = "paid"]
      /\ UNCHANGED [i \in TaskIds |-> TermsOf(i)]
  BY <1>0, <1>1, CustodyUpdate
<1>4. /\ TermsOf(id).worker = task[id].worker
      /\ TermsOf(id).creator = task[id].creator
      /\ TermsOf(id).reward = vault[id]
      /\ CustodyPhase(id) = "held"
      /\ vaultBalance[id] >= TermsOf(id).reward
  BY MoneyIsHeld
<1> QED BY <1>2, <1>3, <1>4 DEF Custody!PayWorker, Custody!Release, TermsOf

(* A vault that is returned goes to the creator alone. *)
LEMMA ReturnGoesToCreator ==
    ASSUME IInv, NEW id \in TaskIds, Instruction(id), HasStatus(id, InCustody), Return(id),
           task'[id] \in Task, task'[id] # None, task'[id].status # "Paid",
           task'[id].funded_at = task[id].funded_at,
           task'[id].creator = task[id].creator, task'[id].worker = task[id].worker,
           task'[id].reward_amount = task[id].reward_amount
    PROVE  Custody!ReturnToCreator(id)
<1>0. TypeOK
  BY DEF IInv
<1>1. /\ CustodyPhase(id)' = "returned" /\ TermsOf(id)' = TermsOf(id)
  BY <1>0, MoneyIsHeld, Released DEF CustodyPhase, TermsOf, WasFunded, Exists
<1>2. vaultBalance' = [vaultBalance EXCEPT ![id] = 0]
  BY DEF Return
<1>3. wallet' = [wallet EXCEPT ![task[id].worker]  = @ + 0,
                               ![task[id].creator] = @ + (vaultBalance[id] - 0)]
  <2>1. wallet' = [wallet EXCEPT ![task[id].creator] = @ + vaultBalance[id]]
    BY DEF Return
  <2>2. /\ task[id].worker \in Keys /\ wallet \in [Keys -> Nat]
        /\ vaultBalance[id] \in Nat
    BY <1>0, MoneyIsHeld DEF TypeOK
  <2>3. /\ wallet = [wallet EXCEPT ![task[id].worker] = @ + 0]
        /\ vaultBalance[id] - 0 = vaultBalance[id]
    BY <2>2
  <2> QED BY <2>1, <2>3
<1>4. /\ [i \in TaskIds |-> CustodyPhase(i)]'
            = [[i \in TaskIds |-> CustodyPhase(i)] EXCEPT ![id] = "returned"]
      /\ UNCHANGED [i \in TaskIds |-> TermsOf(i)]
  BY <1>0, <1>1, CustodyUpdate
<1>5. /\ TermsOf(id).worker = task[id].worker
      /\ TermsOf(id).creator = task[id].creator
      /\ CustodyPhase(id) = "held"
  BY MoneyIsHeld
<1> QED BY <1>2, <1>3, <1>4, <1>5 DEF Custody!ReturnToCreator, Custody!Release, TermsOf

(* The instructions that move no lamports do not touch the custody of any. *)
LEMMA DeliveryKeepsCustody ==
    ASSUME IInv, NEW id \in TaskIds, Instruction(id), Submits(id) \/ Rejects(id)
    PROVE  UNCHANGED Custody!custodyVars
<1>0. TypeOK /\ HasStatus(id, InCustody) /\ KeepsMoney
  BY DEF IInv, Submits, Rejects, HasStatus, InCustody
<1>1. /\ task'[id] # None
      /\ task'[id].funded_at = task[id].funded_at
      /\ task'[id].creator = task[id].creator /\ task'[id].worker = task[id].worker
      /\ task'[id].reward_amount = task[id].reward_amount
  <2>0. task[id] \in Task
    BY MoneyIsHeld, <1>0
  <2>1. CASE Submits(id)
    <3>1. PICK reference \in ValidTexts :
             task'[id] = TaskSubmit(task[id], reference, now) /\ task'[id] # None
      BY <1>0, <2>1, Written DEF Submits
    <3> QED BY <2>0, <3>1 DEF TaskSubmit, Task
  <2>2. CASE Rejects(id)
    <3>1. task'[id] = TaskRejectSubmission(task[id]) /\ task'[id] # None
      BY <1>0, <2>2, Written DEF Rejects
    <3> QED BY <2>0, <3>1 DEF TaskRejectSubmission, Task
  <2> QED BY <2>1, <2>2
<1>2. CustodyPhase(id)' = CustodyPhase(id) /\ TermsOf(id)' = TermsOf(id)
  BY <1>0, <1>1, MoneyIsHeld DEF CustodyPhase, TermsOf, WasFunded, Exists, KeepsMoney
<1>3. /\ UNCHANGED [i \in TaskIds |-> CustodyPhase(i)]
      /\ UNCHANGED [i \in TaskIds |-> TermsOf(i)]
      /\ UNCHANGED <<vaultBalance, wallet>>
  BY <1>0, <1>2, CustodyUpdate DEF KeepsMoney
<1> QED BY <1>3 DEF Custody!custodyVars, TermsOf

(* Every instruction that ends the escrow is a release.                    *)
LEMMA EndsAreReleases ==
    ASSUME IInv, NEW id \in TaskIds, Instruction(id),
           PaysSubmission(id) \/ Refunds(id) \/ Settles(id)
    PROVE  Custody!PayWorker(id) \/ Custody!ReturnToCreator(id)
<1>0. TypeOK /\ HasStatus(id, InCustody) /\ task[id] \in Task
  <2>1. HasStatus(id, InCustody)
    BY DEF PaysSubmission, Refunds, Settles, HasStatus, InCustody
  <2> QED BY <2>1, MoneyIsHeld DEF IInv
<1>1. CASE PaysSubmission(id)
  <2>1. /\ task'[id] = TaskPay(task[id]) /\ task'[id] \in Task /\ task'[id] # None
        /\ PayOut(id)
    BY <1>0, <1>1, Written DEF PaysSubmission
  <2> HIDE DEF PayOut
  <2>2. /\ task'[id].status = "Paid"
        /\ task'[id].funded_at = task[id].funded_at
        /\ task'[id].creator = task[id].creator /\ task'[id].worker = task[id].worker
        /\ task'[id].reward_amount = task[id].reward_amount
    BY <1>0, <2>1 DEF TaskPay, Task
  <2> QED BY <1>0, <2>1, <2>2, PayOutPaysWorker
<1>2. CASE Refunds(id)
  <2>1. /\ task'[id] = TaskRefundAfterTimeout(task[id]) /\ task'[id] \in Task
        /\ task'[id] # None /\ Return(id)
    BY <1>0, <1>2, Written DEF Refunds
  <2>2. /\ task'[id].status # "Paid"
        /\ task'[id].funded_at = task[id].funded_at
        /\ task'[id].creator = task[id].creator /\ task'[id].worker = task[id].worker
        /\ task'[id].reward_amount = task[id].reward_amount
    BY <1>0, <2>1 DEF TaskRefundAfterTimeout, Task
  <2> QED BY <1>0, <2>1, <2>2, ReturnGoesToCreator
<1>3. CASE Settles(id)
  <2>1. PICK outcome \in DisputeOutcome :
           /\ task'[id] = TaskResolveDispute(task[id], outcome)
           /\ task'[id] \in Task /\ task'[id] # None
           /\ IF outcome = "PayWorker" THEN PayOut(id) ELSE Return(id)
    BY <1>0, <1>3, Written DEF Settles
  <2>2. /\ task'[id].status = "Paid" <=> outcome = "PayWorker"
        /\ task'[id].funded_at = task[id].funded_at
        /\ task'[id].creator = task[id].creator /\ task'[id].worker = task[id].worker
        /\ task'[id].reward_amount = task[id].reward_amount
    BY <1>0, <2>1 DEF TaskResolveDispute, Task
  <2>3. CASE outcome = "PayWorker"
    BY <1>0, <2>1, <2>2, <2>3, PayOutPaysWorker
  <2>4. CASE outcome # "PayWorker"
    BY <1>0, <2>1, <2>2, <2>4, ReturnGoesToCreator
  <2> QED BY <2>3, <2>4
<1> QED BY <1>1, <1>2, <1>3

(* The clock and the payments of strangers, seen from the escrow.          *)
LEMMA BackgroundMovesGifts ==
    ASSUME TypeOK, Background
    PROVE  Custody!Next \/ UNCHANGED Custody!custodyVars
<1>1. /\ UNCHANGED [i \in TaskIds |-> CustodyPhase(i)]
      /\ UNCHANGED [i \in TaskIds |-> TermsOf(i)]
  <2>1. \A i \in TaskIds : CustodyPhase(i)' = CustodyPhase(i) /\ TermsOf(i)' = TermsOf(i)
    BY CustodyKept DEF Background
  <2> QED BY <2>1
<1>2. CASE UNCHANGED <<vaultBalance, wallet>>
  BY <1>1, <1>2 DEF Custody!custodyVars, TermsOf
<1>3. ASSUME NEW c \in Creators, OpensProfile(c) PROVE Custody!Next
  BY <1>1, <1>3, RentIsSpentElsewhere, MarketplaceAssumption DEF OpensProfile
<1>4. ASSUME NEW k \in Keys, NEW id \in TaskIds, Gives(k, id) PROVE Custody!Next
  <2>1. PICK amount \in 0 .. wallet[k] : Custody!Gift(k, id, amount)
    BY <1>1, <1>4 DEF Gives, Custody!Gift, Spend, TermsOf
  <2> QED BY <2>1 DEF Custody!Next
<1>5. ASSUME NEW k \in Keys, NEW to \in Keys \ {k}, Pays(k, to) PROVE Custody!Next
  <2>1. PICK amount \in 0 .. wallet[k] : Custody!Pay(k, to, amount)
    BY <1>1, <1>5 DEF Pays, Custody!Pay, TermsOf
  <2> QED BY <2>1 DEF Custody!Next
<1> QED BY <1>2, <1>3, <1>4, <1>5 DEF Background

(* The sixteen instructions, the clock and the strangers' payments keep    *)
(* the promise of EscrowCustody: one deposit per task, at most one release *)
(* of it, to the worker or to the creator on the terms of the deposit, and *)
(* no other way out of a vault.                                            *)
THEOREM CustodyImplemented == Spec => ImplementsCustody
<1>1. Init => Custody!Init
  <2>1. SUFFICES ASSUME Init PROVE Custody!Init
    OBVIOUS
  <2>2. \A id \in TaskIds : CustodyPhase(id) = "none" /\ TermsOf(id) = None
    <3>1. \A id \in TaskIds : vault[id] = None /\ ~Exists(id)
      BY <2>1 DEF Init, Exists
    <3> QED BY <3>1, NothingKeptYet
  <2>3. /\ [id \in TaskIds |-> CustodyPhase(id)] = [id \in TaskIds |-> "none"]
        /\ [id \in TaskIds |-> TermsOf(id)] = [id \in TaskIds |-> None]
    BY <2>2
  <2>4. vaultBalance = [id \in TaskIds |-> 0] /\ wallet = InitialWallets
    BY <2>1 DEF Init
  <2> QED BY <2>3, <2>4 DEF Custody!Init, TermsOf
<1>2. IInv /\ IInv' /\ [Next]_vars => [Custody!Next]_(Custody!custodyVars)
  <2>1. SUFFICES ASSUME IInv, IInv', [Next]_vars
                 PROVE  Custody!Next \/ UNCHANGED Custody!custodyVars
    OBVIOUS
  <2>2. TypeOK
    BY <2>1 DEF IInv
  <2>3. ASSUME NEW id \in TaskIds, Instruction(id)
        PROVE  Custody!Next \/ UNCHANGED Custody!custodyVars
    <3>1. CASE Creates(id) \/ NamesArbitrator(id) \/ SelectsWorker(id)
               \/ Hires(id) \/ Cancels(id)
      <4>1. /\ UNCHANGED [i \in TaskIds |-> CustodyPhase(i)]
            /\ UNCHANGED [i \in TaskIds |-> TermsOf(i)]
        BY <2>1, <2>2, <2>3, <3>1, PreparationKeepsCustody, CustodyUpdate
      <4>2. (\E k \in Keys, account \in PermanentAccounts : PaysRent(k, account)) \/ KeepsMoney
        <5>1. id[1] \in Keys
          BY MarketplaceAssumption DEF TaskIds
        <5>2. HasStatus(id, {"Open"}) => task[id].creator \in Keys
          BY <2>2 DEF TypeOK, HasStatus, Exists, Task
        <5> QED BY <3>1, <5>1, <5>2
            DEF Creates, NamesArbitrator, SelectsWorker, Hires, Cancels, PermanentAccounts
      <4>3. CASE KeepsMoney
        BY <4>1, <4>3 DEF KeepsMoney, Custody!custodyVars, TermsOf
      <4> QED BY <4>1, <4>2, <4>3, RentIsSpentElsewhere
    <3>2. CASE Funds(id)
      BY <2>1, <2>3, <3>2, FundingDeposits
    <3>3. CASE Submits(id) \/ Rejects(id)
      BY <2>1, <2>3, <3>3, DeliveryKeepsCustody
    <3>4. CASE PaysSubmission(id) \/ Refunds(id) \/ Settles(id)
      BY <2>1, <2>3, <3>4, EndsAreReleases DEF Custody!Next
    <3> QED BY <2>3, <3>1, <3>2, <3>3, <3>4 DEF Instruction
  <2> QED BY <2>1, <2>2, <2>3, StepShape, BackgroundMovesGifts
<1> QED BY <1>1, <1>2, AccountsAlwaysAgree, PTL DEF Spec, ImplementsCustody, Custody!Spec

-----------------------------------------------------------------------------
(***************************************************************************)
(* The model of the property tests                                         *)
(***************************************************************************)

(* With one creator there is one task, and one reward it can have.         *)
LEMMA AloneFacts ==
    ASSUME OneTaskAlone
    PROVE  /\ Creators = {TheCreator} /\ TheCreator \in Keys
           /\ TaskIds = {TheTask} /\ TheTask[1] = TheCreator
           /\ \E r \in Rewards : Rewards = {r} /\ r = CHOOSE x \in Rewards : TRUE
<1>1. Creators = {TheCreator} /\ TheCreator \in Keys
  BY MarketplaceAssumption DEF OneTaskAlone, TheCreator
<1>2. TaskIds = {TheTask} /\ TheTask[1] = TheCreator
  <2>1. 1 .. MaxTaskCount = {1}
    BY DEF OneTaskAlone
  <2> QED BY <1>1, <2>1 DEF TaskIds, TheTask
<1>3. \E r \in Rewards : Rewards = {r} /\ r = CHOOSE x \in Rewards : TRUE
  BY DEF OneTaskAlone
<1> QED BY <1>1, <1>2, <1>3

(* The tests' model and the program call the same methods of Task.         *)
LEMMA SameTaskMethods ==
    /\ \A c, r : TestModel!NewTask(c, r) = NewTask(c, r)
    /\ \A t, w : /\ TestModel!TaskCanAccept(t, w) <=> TaskCanAccept(t, w)
                 /\ TestModel!TaskAccept(t, w) = TaskAccept(t, w)
    /\ \A t, w : TestModel!TaskCanAssignWorker(t, w) <=> TaskCanAssignWorker(t, w)
    /\ \A t : TestModel!TaskAssignWorker(t) = TaskAssignWorker(t)
    /\ \A t, w : /\ TestModel!TaskCanAcceptAssignment(t, w)
                      <=> TaskCanAcceptAssignment(t, w)
                 /\ TestModel!TaskAcceptAssignment(t, w) = TaskAcceptAssignment(t, w)
    /\ \A t : /\ TestModel!TaskCanCancel(t) <=> TaskCanCancel(t)
              /\ TestModel!TaskCancel(t) = TaskCancel(t)
BY DEF TaskValid, TestModel!TaskValid, NewTask, TestModel!NewTask,
       TaskCanAccept, TestModel!TaskCanAccept, TaskAccept, TestModel!TaskAccept,
       TaskCanAssignWorker, TestModel!TaskCanAssignWorker,
       TaskAssignWorker, TestModel!TaskAssignWorker,
       TaskCanAcceptAssignment, TestModel!TaskCanAcceptAssignment,
       TaskAcceptAssignment, TestModel!TaskAcceptAssignment,
       TaskCanCancel, TestModel!TaskCanCancel, TaskCancel, TestModel!TaskCancel

LEMMA SameEscrowMethods ==
    /\ \A t, n : /\ TestModel!TaskCanFund(t, n) <=> TaskCanFund(t, n)
                 /\ TestModel!TaskFund(t, n) = TaskFund(t, n)
    /\ \A t, w, e, n : /\ TestModel!TaskCanSubmit(t, w, e, n) <=> TaskCanSubmit(t, w, e, n)
                       /\ TestModel!TaskSubmit(t, e, n) = TaskSubmit(t, e, n)
    /\ \A t : /\ TestModel!TaskCanPay(t) <=> TaskCanPay(t)
              /\ TestModel!TaskPay(t) = TaskPay(t)
    /\ \A t, n : TestModel!TaskCanPayAfterTimeout(t, n) <=> TaskCanPayAfterTimeout(t, n)
    /\ \A t, n : /\ TestModel!TaskCanRefundAfterTimeout(t, n)
                      <=> TaskCanRefundAfterTimeout(t, n)
                 /\ TestModel!TaskRefundAfterTimeout(t) = TaskRefundAfterTimeout(t)
BY DEF TaskValid, TestModel!TaskValid, FitsTimestamp, TestModel!FitsTimestamp,
       TaskCanFund, TestModel!TaskCanFund, TaskFund, TestModel!TaskFund,
       TaskCanSubmit, TestModel!TaskCanSubmit, TaskSubmit, TestModel!TaskSubmit,
       TaskCanPay, TestModel!TaskCanPay, TaskPay, TestModel!TaskPay,
       TaskCanPayAfterTimeout, TestModel!TaskCanPayAfterTimeout,
       TaskCanRefundAfterTimeout, TestModel!TaskCanRefundAfterTimeout,
       TaskRefundAfterTimeout, TestModel!TaskRefundAfterTimeout

LEMMA SameDisputeMethods ==
    /\ \A t, n : /\ TestModel!TaskCanRejectSubmission(t, n) <=> TaskCanRejectSubmission(t, n)
                 /\ TestModel!TaskRejectSubmission(t) = TaskRejectSubmission(t)
    /\ \A t, o : /\ TestModel!TaskCanResolveDispute(t, o) <=> TaskCanResolveDispute(t, o)
                 /\ TestModel!TaskResolveDispute(t, o) = TaskResolveDispute(t, o)
    /\ TestModel!DisputeOutcome = DisputeOutcome
BY DEF TaskValid, TestModel!TaskValid,
       TaskCanRejectSubmission, TestModel!TaskCanRejectSubmission,
       TaskRejectSubmission, TestModel!TaskRejectSubmission,
       TaskCanResolveDispute, TestModel!TaskCanResolveDispute,
       TaskResolveDispute, TestModel!TaskResolveDispute,
       DisputeOutcome, TestModel!DisputeOutcome

(* ... and the same methods of the two accounts beside it.                 *)
LEMMA SameAssignmentMethods ==
    /\ \A w : TestModel!NewAssignment(w) = NewAssignment(w)
    /\ \A a, w, n : /\ TestModel!AssignmentCanAccept(a, w) <=> AssignmentCanAccept(a, w)
                    /\ TestModel!AssignmentAccept(a, n) = AssignmentAccept(a, n)
BY DEF NewAssignment, TestModel!NewAssignment, AssignmentValid, TestModel!AssignmentValid,
       AssignmentCanAccept, TestModel!AssignmentCanAccept,
       AssignmentAccept, TestModel!AssignmentAccept

LEMMA SameResolutionMethods ==
    /\ \A k : TestModel!NewResolution(k) = NewResolution(k)
    /\ \A r, n, e : /\ TestModel!ResolutionCanOpenDispute(r, n, e)
                         <=> ResolutionCanOpenDispute(r, n, e)
                    /\ TestModel!ResolutionOpenDispute(r, n, e) = ResolutionOpenDispute(r, n, e)
    /\ \A r, o : /\ TestModel!ResolutionFinish(r, o) = ResolutionFinish(r, o)
                 /\ TestModel!ResolutionCanResolveByAgreement(r, o)
                      <=> ResolutionCanResolveByAgreement(r, o)
    /\ \A r, o, n : TestModel!ResolutionCanResolve(r, o, n) <=> ResolutionCanResolve(r, o, n)
    /\ \A r, n : TestModel!ResolutionCanSettleAfterTimeout(r, n)
                   <=> ResolutionCanSettleAfterTimeout(r, n)
BY DEF NewResolution, TestModel!NewResolution, ResolutionValid, TestModel!ResolutionValid,
       FitsTimestamp, TestModel!FitsTimestamp, RequireDisputed, TestModel!RequireDisputed,
       ResolutionCanOpenDispute, TestModel!ResolutionCanOpenDispute,
       ResolutionOpenDispute, TestModel!ResolutionOpenDispute,
       ResolutionFinish, TestModel!ResolutionFinish,
       ResolutionCanResolve, TestModel!ResolutionCanResolve,
       ResolutionCanResolveByAgreement, TestModel!ResolutionCanResolveByAgreement,
       ResolutionCanSettleAfterTimeout, TestModel!ResolutionCanSettleAfterTimeout

(* What the counters of the model are read from.                           *)
TaskPaid == HasStatus(TheTask, {"Paid"})

EscrowOver == WasFunded(TheTask) /\ vault[TheTask] = None

DisputeOver == resolution[TheTask] # None /\ resolution[TheTask].state = "Resolved"

(* A vault was returned if it is gone and its task was not paid.           *)
CountersAreRead ==
    /\ Payouts = OneIf(TaskPaid)
    /\ Returns = OneIf(EscrowOver /\ ~TaskPaid)
    /\ VaultCloses = OneIf(EscrowOver)
    /\ DisputesFinished = OneIf(DisputeOver)

LEMMA CountersRead == CountersAreRead /\ CountersAreRead'
BY DEF CountersAreRead, Payouts, Returns, VaultCloses, DisputesFinished, TaskPaid, EscrowOver, DisputeOver,
       CustodyPhase, WasFunded, HasStatus, OneIf

(* The counters stand still while the escrow does and nobody but the       *)
(* creator gets or spends lamports.                                        *)
LEMMA CountersStay ==
    ASSUME TaskPaid' <=> TaskPaid, EscrowOver' <=> EscrowOver,
           DisputeOver' <=> DisputeOver, Earnings' = Earnings
    PROVE  UNCHANGED TestModel!counters
<1>1. /\ Payouts' = Payouts /\ Returns' = Returns /\ VaultCloses' = VaultCloses
      /\ DisputesFinished' = DisputesFinished
  BY CountersRead DEF CountersAreRead, OneIf
<1> QED BY <1>1 DEF TestModel!counters

LEMMA EarningsStay ==
    ASSUME \A k \in Keys \ Creators : wallet'[k] = wallet[k]
    PROVE  Earnings' = Earnings
<1>1. [k \in Keys \ Creators |-> wallet'[k]] = [k \in Keys \ Creators |-> wallet[k]]
  OBVIOUS
<1> QED BY <1>1 DEF Earnings, Holdings

(* What the program charges the creator of the task is nobody else's.      *)
LEMMA CreatorSpends ==
    ASSUME OneTaskAlone, TypeOK, NEW amount, Spend(TheCreator, amount)
    PROVE  Earnings' = Earnings
<1>1. \A k \in Keys \ Creators : wallet'[k] = wallet[k]
  BY AloneFacts DEF Spend, TypeOK
<1> QED BY <1>1, EarningsStay

(* A vault that is paid out is earned, and one that is returned is not.    *)
LEMMA PayOutEarns ==
    ASSUME OneTaskAlone, IInv, HasStatus(TheTask, InCustody), PayOut(TheTask)
    PROVE  Earnings' = Earnings + vault[TheTask]
<1> DEFINE S == Keys \ Creators
           f == [k \in S |-> wallet[k]]
           w == task[TheTask].worker
           n == vault[TheTask]
<1>1. TheTask \in TaskIds /\ Creators = {TheCreator} /\ TypeOK
  BY AloneFacts DEF IInv
<1>2. /\ w \in S /\ n \in Nat /\ task[TheTask].creator = TheCreator
      /\ w # task[TheTask].creator
  <2>1. AccountsAgree(TheTask) /\ task[TheTask].worker # task[TheTask].creator
    BY <1>1, MoneyIsHeld DEF IInv
  <2>2. task[TheTask].creator = TheCreator
    BY <1>1, <2>1, AloneFacts, MoneyIsHeld DEF AccountsAgree, TaskShaped
  <2> QED BY <1>1, <2>1, <2>2, MoneyIsHeld
<1>3. IsFiniteSet(S) /\ f \in [S -> Nat] /\ f[w] = wallet[w]
  BY <1>1, <1>2, SupplyAssumption, FS_Subset DEF TypeOK
<1>4. f' = [f EXCEPT ![w] = f[w] + n]
  <2>1. wallet' = [wallet EXCEPT ![w] = @ + n,
                                 ![TheCreator] = @ + (vaultBalance[TheTask] - n)]
    BY <1>2 DEF PayOut, WorkerAmount
  <2>2. \A k \in S : wallet'[k] = IF k = w THEN wallet[k] + n ELSE wallet[k]
    BY <1>1, <1>2, <2>1 DEF TypeOK
  <2> QED BY <1>3, <2>2
<1>5. f[w] \in Nat /\ f[w] + n \in Nat /\ Total(f) \in Nat
  BY <1>2, <1>3, LamportsFinite
<1>6. Total([f EXCEPT ![w] = f[w] + n]) = Total(f) - f[w] + (f[w] + n)
  <2>1. w \in S /\ IsFiniteSet(S) /\ f \in [S -> Nat] /\ f[w] + n \in Nat
    BY <1>2, <1>3, <1>5
  <2> HIDE DEF f, S, w, n
  <2> QED BY <2>1, TotalUpdate
<1>7. Total(f') = Total(f) + n
  BY <1>2, <1>4, <1>5, <1>6
<1>8. Holdings(InitialWallets) \in Nat
  <2>1. [k \in S |-> InitialWallets[k]] \in [S -> Nat]
    BY MarketplaceAssumption
  <2> QED BY <1>3, <2>1, LamportsFinite DEF Holdings
<1>9. /\ Earnings = Total(f) - Holdings(InitialWallets)
      /\ Earnings' = Total(f') - Holdings(InitialWallets)
  BY DEF Earnings, Holdings
<1> QED BY <1>2, <1>5, <1>7, <1>8, <1>9

LEMMA ReturnEarnsNothing ==
    ASSUME OneTaskAlone, IInv, HasStatus(TheTask, InCustody), Return(TheTask)
    PROVE  Earnings' = Earnings
<1>1. TheTask \in TaskIds /\ Creators = {TheCreator} /\ TypeOK
  BY AloneFacts DEF IInv
<1>2. task[TheTask].creator = TheCreator
  BY <1>1, AloneFacts, MoneyIsHeld DEF IInv, AccountsAgree, TaskShaped
<1>3. \A k \in Keys \ Creators : wallet'[k] = wallet[k]
  BY <1>1, <1>2 DEF Return, TypeOK
<1> QED BY <1>3, EarningsStay

(* Every release of the vault is the model's.                              *)
LEMMA ReleaseClosesVault ==
    ASSUME OneTaskAlone, IInv, HasStatus(TheTask, InCustody), NEW outcome \in DisputeOutcome,
           IF outcome = "PayWorker" THEN PayOut(TheTask) ELSE Return(TheTask),
           task'[TheTask] # None,
           task'[TheTask].status = "Paid" <=> outcome = "PayWorker",
           task'[TheTask].funded_at = task[TheTask].funded_at
    PROVE  TestModel!CloseVault(outcome)
<1>1. TheTask \in TaskIds /\ TypeOK
  BY AloneFacts DEF IInv
<1>2. ~TaskPaid /\ ~EscrowOver
  BY <1>1, MoneyIsHeld DEF TaskPaid, EscrowOver, HasStatus, InCustody
<1>3. /\ vault'[TheTask] = None
      /\ EscrowOver'
      /\ TaskPaid' <=> outcome = "PayWorker"
  <2>1. vault'[TheTask] = None
    BY <1>1, Released
  <2> QED BY <1>1, <2>1, MoneyIsHeld DEF EscrowOver, WasFunded, TaskPaid, HasStatus, Exists
<1>4. VaultCloses' = VaultCloses + 1
  BY <1>2, <1>3, CountersRead DEF CountersAreRead, OneIf
<1>5. CASE outcome = "PayWorker"
  <2>1. Payouts' = Payouts + 1 /\ Returns' = Returns
    BY <1>2, <1>3, <1>5, CountersRead DEF CountersAreRead, OneIf
  <2>2. Earnings' = Earnings + vault[TheTask]
    BY <1>5, PayOutEarns
  <2> QED BY <1>3, <1>4, <1>5, <2>1, <2>2 DEF TestModel!CloseVault
<1>6. CASE outcome # "PayWorker"
  <2>1. Returns' = Returns + 1 /\ Payouts' = Payouts
    BY <1>2, <1>3, <1>6, CountersRead DEF CountersAreRead, OneIf
  <2>2. Earnings' = Earnings
    BY <1>6, ReturnEarnsNothing
  <2> QED BY <1>3, <1>4, <1>6, <2>1, <2>2 DEF TestModel!CloseVault
<1> QED BY <1>5, <1>6

(* What the model sees of a step that writes the task.                     *)
LEMMA TestTaskMoves ==
    ASSUME Exists(TheTask), Exists(TheTask)'
    PROVE  TestTask = task[TheTask] /\ TestTask' = task'[TheTask]
BY DEF TestTask, Exists

(* Before the escrow, the counters of the model are zero.                  *)
LEMMA PreparationCountsNothing ==
    ASSUME OneTaskAlone, TypeOK, UNCHANGED <<vault, now>>,
           Exists(TheTask), AccountsAgree(TheTask),
           task[TheTask].status \in {"Open", "Assigned", "Accepted"},
           Exists(TheTask)', task'[TheTask].funded_at = task[TheTask].funded_at,
           task'[TheTask].status # "Paid",
           DisputeOver' <=> DisputeOver, Earnings' = Earnings
    PROVE  UNCHANGED TestModel!counters
<1>1. ~TaskPaid /\ ~TaskPaid'
  BY DEF TaskPaid, HasStatus
<1>2. EscrowOver' <=> EscrowOver
  BY DEF EscrowOver, WasFunded
<1> QED BY <1>1, <1>2, CountersStay

LEMMA NamesArbitratorInModel ==
    ASSUME OneTaskAlone, IInv, NEW k \in Keys, NEW p \in Pubkeys,
           InitializeTaskResolution(k, TheTask, p)
    PROVE  \E a \in Keys : TestModel!InitializeResolution(a)
<1>1. TheTask \in TaskIds /\ TypeOK /\ AccountsAgree(TheTask)
  BY AloneFacts DEF IInv
<1>2. /\ Exists(TheTask) /\ task[TheTask].status = "Open" /\ resolution[TheTask] = None
      /\ resolution' = [resolution EXCEPT ![TheTask] = NewResolution(p)]
      /\ p \in Keys /\ task[TheTask].creator = k
      /\ Spend(k, Rent["resolution"])
      /\ UNCHANGED <<profile, task, assignment, vault, vaultBalance, now>>
  BY DEF InitializeTaskResolution, CanInitializeTaskResolution, SignedByCreator
<1>3. /\ k = TheCreator /\ resolution'[TheTask] = NewResolution(p)
      /\ resolution'[TheTask].state = "Ready"
  BY <1>1, <1>2, AloneFacts DEF AccountsAgree, TaskShaped, TypeOK, NewResolution
<1>4. TestTask = task[TheTask] /\ TestTask' = task[TheTask]
  BY <1>2, TestTaskMoves DEF Exists
<1>5. UNCHANGED TestModel!counters
  <2>1. Earnings' = Earnings
    BY <1>1, <1>2, <1>3, CreatorSpends
  <2>2. ~DisputeOver /\ ~DisputeOver'
    BY <1>2, <1>3 DEF DisputeOver
  <2>3. Exists(TheTask)' /\ task' = task /\ vault' = vault /\ now' = now
    BY <1>2 DEF Exists
  <2> QED BY <1>1, <1>2, <2>1, <2>2, <2>3, PreparationCountsNothing
<1>6. TestModel!InitializeResolution(p)
  BY <1>2, <1>3, <1>4, <1>5, SameResolutionMethods
  DEF TestModel!InitializeResolution, TestModel!Calm
<1> QED BY <1>2, <1>6

LEMMA SelectsWorkerInModel ==
    ASSUME OneTaskAlone, IInv, NEW k \in Keys, NEW p \in Pubkeys,
           AssignWorker(k, TheTask, p)
    PROVE  \E w \in Keys : TestModel!Assign(w)
<1>1. TheTask \in TaskIds /\ TypeOK /\ AccountsAgree(TheTask)
  BY AloneFacts DEF IInv
<1>2. /\ Exists(TheTask) /\ assignment[TheTask] = None
      /\ TaskCanAssignWorker(task[TheTask], p)
      /\ task'[TheTask] = TaskAssignWorker(task[TheTask])
      /\ assignment'[TheTask] = NewAssignment(p)
      /\ task[TheTask].creator = k
      /\ Spend(k, Rent["assignment"])
      /\ UNCHANGED <<profile, resolution, vault, vaultBalance, now>>
  BY <1>1 DEF AssignWorker, CanAssignWorker, SignedByCreator, TypeOK
<1>3. k = TheCreator /\ task[TheTask] \in Task /\ TaskAssignWorker(task[TheTask]) \in Task
  BY <1>1, <1>2, AloneFacts, AgreeingTask, TaskMethodsTyped
  DEF AccountsAgree, TaskShaped, TypeOK
<1>4. /\ Exists(TheTask)' /\ task[TheTask].status = "Open" /\ p \in Keys
      /\ task'[TheTask].funded_at = task[TheTask].funded_at
      /\ task'[TheTask].status = "Assigned"
  <2>1. task'[TheTask] # None
    BY <1>2, <1>3, MarketplaceAssumption
  <2> QED BY <1>2, <1>3, <2>1 DEF Exists, TaskCanAssignWorker, TaskAssignWorker, Task
<1>5. TestTask = task[TheTask] /\ TestTask' = task'[TheTask]
  BY <1>2, <1>4, TestTaskMoves
<1>6. UNCHANGED TestModel!counters
  <2>1. Earnings' = Earnings
    BY <1>1, <1>2, <1>3, CreatorSpends
  <2>2. DisputeOver' <=> DisputeOver
    BY <1>2 DEF DisputeOver
  <2> QED BY <1>1, <1>2, <1>4, <2>1, <2>2, PreparationCountsNothing
<1>7. TestModel!TaskCanAssignWorker(task[TheTask], p)
  BY <1>2, SameTaskMethods
<1>8. TestModel!Assign(p)
  BY <1>2, <1>5, <1>6, <1>7, SameTaskMethods, SameAssignmentMethods
  DEF TestModel!Assign, TestModel!Calm
<1> QED BY <1>4, <1>8

(* A task is handed over, or given up, without a lamport.                  *)
LEMMA TaskWrittenAlone ==
    ASSUME OneTaskAlone, IInv, Exists(TheTask),
           task[TheTask].status \in {"Open", "Assigned", "Accepted"},
           NEW t \in Task, task'[TheTask] = t, t.status # "Paid",
           t.funded_at = task[TheTask].funded_at,
           UNCHANGED <<resolution, vault, wallet, now>>
    PROVE  /\ TestTask = task[TheTask] /\ TestTask' = t
           /\ UNCHANGED TestModel!counters
<1>1. TheTask \in TaskIds /\ TypeOK /\ AccountsAgree(TheTask)
  BY AloneFacts DEF IInv
<1>2. Exists(TheTask)'
  BY MarketplaceAssumption DEF Exists
<1>3. TestTask = task[TheTask] /\ TestTask' = t
  BY <1>2, TestTaskMoves
<1>4. Earnings' = Earnings /\ (DisputeOver' <=> DisputeOver)
  BY EarningsStay DEF DisputeOver
<1> QED BY <1>1, <1>2, <1>3, <1>4, PreparationCountsNothing

LEMMA AcceptsAssignmentInModel ==
    ASSUME OneTaskAlone, IInv, NEW k \in Keys, AcceptAssignment(k, TheTask)
    PROVE  TestModel!ModelAcceptAssignment(k)
<1>1. TheTask \in TaskIds /\ TypeOK
  BY AloneFacts DEF IInv
<1>2. /\ Exists(TheTask) /\ assignment[TheTask] # None
      /\ AssignmentCanAccept(assignment[TheTask], k)
      /\ TaskCanAcceptAssignment(task[TheTask], k)
      /\ assignment'[TheTask] = AssignmentAccept(assignment[TheTask], now)
      /\ task'[TheTask] = TaskAcceptAssignment(task[TheTask], k)
      /\ UNCHANGED <<profile, resolution, vault, vaultBalance, wallet, now>>
  BY <1>1 DEF AcceptAssignment, CanAcceptAssignment, TypeOK
<1>3. /\ task[TheTask] \in Task /\ TaskAcceptAssignment(task[TheTask], k) \in Task
      /\ now \in Timestamps
  BY <1>1, <1>2, AgreeingTask, TaskMethodsTyped DEF TypeOK
<1>4. /\ assignment[TheTask].selected_worker = k /\ assignment[TheTask].accepted_at = None
      /\ task[TheTask].status = "Assigned" /\ task[TheTask].worker = None
  BY <1>2 DEF AssignmentCanAccept, TaskCanAcceptAssignment
<1>5. /\ TaskAcceptAssignment(task[TheTask], k).status # "Paid"
      /\ TaskAcceptAssignment(task[TheTask], k).funded_at = task[TheTask].funded_at
  BY <1>3 DEF TaskAcceptAssignment, Task
<1>6. /\ TestTask = task[TheTask] /\ TestTask' = TaskAcceptAssignment(task[TheTask], k)
      /\ UNCHANGED TestModel!counters
  BY <1>2, <1>3, <1>4, <1>5, TaskWrittenAlone
<1>7. /\ TestModel!AssignmentCanAccept(assignment[TheTask], k)
      /\ TestModel!TaskCanAcceptAssignment(task[TheTask], k)
  BY <1>2, SameTaskMethods, SameAssignmentMethods
<1> QED BY <1>2, <1>4, <1>6, <1>7, SameTaskMethods, SameAssignmentMethods
        DEF TestModel!ModelAcceptAssignment, TestModel!Unwrap, TestModel!Calm

LEMMA AcceptsInModel ==
    ASSUME OneTaskAlone, IInv, NEW k \in Keys, AcceptTask(k, TheTask)
    PROVE  TestModel!ModelAcceptTask(k)
<1>1. TheTask \in TaskIds /\ TypeOK
  BY AloneFacts DEF IInv
<1>2. /\ Exists(TheTask) /\ TaskCanAccept(task[TheTask], k)
      /\ task'[TheTask] = TaskAccept(task[TheTask], k)
      /\ UNCHANGED <<profile, assignment, resolution, vault, vaultBalance, wallet, now>>
  BY <1>1 DEF AcceptTask, TypeOK
<1>3. /\ task[TheTask] \in Task /\ TaskAccept(task[TheTask], k) \in Task
      /\ task[TheTask].status = "Open"
  BY <1>1, <1>2, AgreeingTask, TaskMethodsTyped DEF TypeOK, TaskCanAccept
<1>4. /\ TaskAccept(task[TheTask], k).status # "Paid"
      /\ TaskAccept(task[TheTask], k).funded_at = task[TheTask].funded_at
  BY <1>3 DEF TaskAccept, Task
<1>5. /\ TestTask = task[TheTask] /\ TestTask' = TaskAccept(task[TheTask], k)
      /\ UNCHANGED TestModel!counters
  BY <1>2, <1>3, <1>4, TaskWrittenAlone
<1>6. TestModel!TaskCanAccept(task[TheTask], k)
  BY <1>2, SameTaskMethods
<1> QED BY <1>2, <1>5, <1>6, SameTaskMethods DEF TestModel!ModelAcceptTask, TestModel!Calm

LEMMA CancelsInModel ==
    ASSUME OneTaskAlone, IInv, NEW k \in Keys, CancelTask(k, TheTask)
    PROVE  TestModel!Cancel
<1>1. TheTask \in TaskIds /\ TypeOK
  BY AloneFacts DEF IInv
<1>2. /\ Exists(TheTask) /\ TaskCanCancel(task[TheTask])
      /\ task'[TheTask] = TaskCancel(task[TheTask])
      /\ UNCHANGED <<profile, assignment, resolution, vault, vaultBalance, wallet, now>>
  BY <1>1 DEF CancelTask, SignedByCreator, TypeOK
<1>3. /\ task[TheTask] \in Task /\ TaskCancel(task[TheTask]) \in Task
      /\ task[TheTask].status \in {"Open", "Assigned", "Accepted"}
  BY <1>1, <1>2, AgreeingTask, TaskMethodsTyped DEF TypeOK, TaskCanCancel
<1>4. /\ TaskCancel(task[TheTask]).status # "Paid"
      /\ TaskCancel(task[TheTask]).funded_at = task[TheTask].funded_at
  BY <1>3 DEF TaskCancel, Task
<1>5. /\ TestTask = task[TheTask] /\ TestTask' = TaskCancel(task[TheTask])
      /\ UNCHANGED TestModel!counters
  BY <1>2, <1>3, <1>4, TaskWrittenAlone
<1>6. TestModel!TaskCanCancel(task[TheTask])
  BY <1>2, SameTaskMethods
<1> QED BY <1>2, <1>5, <1>6, SameTaskMethods DEF TestModel!Cancel, TestModel!Calm

(* fund_task opens the vault that the model only remembers the debt of.    *)
LEMMA FundsInModel ==
    ASSUME OneTaskAlone, IInv, NEW k \in Keys, FundTask(k, TheTask)
    PROVE  TestModel!Fund
<1>1. TheTask \in TaskIds /\ TypeOK /\ AccountsAgree(TheTask)
  BY AloneFacts DEF IInv
<1>2. /\ Exists(TheTask) /\ TaskCanFund(task[TheTask], now) /\ vault[TheTask] = None
      /\ task'[TheTask] = TaskFund(task[TheTask], now)
      /\ vault'[TheTask] = task[TheTask].reward_amount
      /\ task[TheTask].creator = k
      /\ Spend(k, FundingCost(vaultBalance[TheTask], task[TheTask].reward_amount))
      /\ UNCHANGED <<profile, assignment, resolution, now>>
  BY <1>1 DEF FundTask, CanFundTask, SignedByCreator, TypeOK
<1>3. /\ k = TheCreator /\ task[TheTask] \in Task /\ TaskFund(task[TheTask], now) \in Task
      /\ task[TheTask].funded_at = None /\ task[TheTask].status = "Accepted"
  BY <1>1, <1>2, AloneFacts, AgreeingTask, TaskMethodsTyped
  DEF AccountsAgree, TaskShaped, TypeOK, TaskCanFund
<1>4. /\ Exists(TheTask)' /\ TaskFund(task[TheTask], now).status # "Paid"
      /\ vault'[TheTask] # None
  BY <1>2, <1>3, MarketplaceAssumption, AccountsAssumption DEF Exists, TaskFund, Task
<1>5. TestTask = task[TheTask] /\ TestTask' = task'[TheTask]
  BY <1>2, <1>4, TestTaskMoves
<1>6. UNCHANGED TestModel!counters
  <2>1. Earnings' = Earnings
    BY <1>1, <1>2, <1>3, CreatorSpends
  <2>2. ~TaskPaid /\ ~TaskPaid'
    BY <1>2, <1>3, <1>4 DEF TaskPaid, HasStatus
  <2>3. ~EscrowOver /\ ~EscrowOver'
    BY <1>3, <1>4 DEF EscrowOver, WasFunded
  <2>4. DisputeOver' <=> DisputeOver
    BY <1>2 DEF DisputeOver
  <2> QED BY <2>1, <2>2, <2>3, <2>4, CountersStay
<1>7. TestModel!TaskCanFund(task[TheTask], now)
  BY <1>2, SameEscrowMethods
<1> QED BY <1>2, <1>5, <1>6, <1>7, SameEscrowMethods DEF TestModel!Fund, TestModel!Calm

(* Work and objections do not touch the vault.                             *)
LEMMA TaskWrittenInCustody ==
    ASSUME OneTaskAlone, IInv, HasStatus(TheTask, InCustody),
           NEW t \in Task, task'[TheTask] = t, t.status # "Paid",
           t.funded_at = task[TheTask].funded_at,
           UNCHANGED <<vault, wallet>>, ~DisputeOver'
    PROVE  /\ TestTask = task[TheTask] /\ TestTask' = t
           /\ UNCHANGED TestModel!counters
<1>1. TheTask \in TaskIds /\ TypeOK /\ AccountsAgree(TheTask) /\ Exists(TheTask)
  BY AloneFacts DEF IInv, HasStatus
<1>2. Exists(TheTask)'
  BY MarketplaceAssumption DEF Exists
<1>3. TestTask = task[TheTask] /\ TestTask' = t
  BY <1>1, <1>2, TestTaskMoves
<1>4. Earnings' = Earnings
  BY EarningsStay
<1>5. ~TaskPaid /\ ~TaskPaid' /\ ~DisputeOver
  BY <1>1, <1>2
  DEF TaskPaid, DisputeOver, HasStatus, InCustody, AccountsAgree, ResolutionAgrees
<1>6. EscrowOver' <=> EscrowOver
  BY <1>1, <1>2 DEF EscrowOver, WasFunded
<1> QED BY <1>3, <1>4, <1>5, <1>6, CountersStay

LEMMA SubmitsInModel ==
    ASSUME OneTaskAlone, IInv, NEW k \in Keys, NEW e \in Texts, SubmitTask(k, TheTask, e)
    PROVE  e \in ValidTexts /\ TestModel!Submit(k, e)
<1>1. TheTask \in TaskIds /\ TypeOK /\ now \in Timestamps
  BY AloneFacts DEF IInv, TypeOK
<1>2. /\ Exists(TheTask) /\ TaskCanSubmit(task[TheTask], k, e, now)
      /\ task'[TheTask] = TaskSubmit(task[TheTask], e, now)
      /\ UNCHANGED <<profile, assignment, resolution, vault, vaultBalance, wallet, now>>
  BY <1>1 DEF SubmitTask, CanSubmitTask, TypeOK
<1>3. /\ task[TheTask] \in Task /\ TaskSubmit(task[TheTask], e, now) \in Task
      /\ task[TheTask].status = "Funded" /\ e \in ValidTexts
  BY <1>1, <1>2, AgreeingTask, TaskMethodsTyped DEF TaskCanSubmit
<1>4. /\ TaskSubmit(task[TheTask], e, now).status # "Paid"
      /\ TaskSubmit(task[TheTask], e, now).funded_at = task[TheTask].funded_at
  BY <1>3 DEF TaskSubmit, Task
<1>5. HasStatus(TheTask, InCustody)
  BY <1>2, <1>3 DEF HasStatus, InCustody
<1>6. ~DisputeOver'
  BY <1>1, <1>2, <1>3 DEF DisputeOver, IInv, AccountsAgree, ResolutionAgrees, HasStatus
<1>7. /\ TestTask = task[TheTask] /\ TestTask' = TaskSubmit(task[TheTask], e, now)
      /\ UNCHANGED TestModel!counters
  BY <1>2, <1>3, <1>4, <1>5, <1>6, TaskWrittenInCustody
<1>8. TestModel!TaskCanSubmit(task[TheTask], k, e, now)
  BY <1>2, SameEscrowMethods
<1> QED BY <1>2, <1>3, <1>7, <1>8, SameEscrowMethods DEF TestModel!Submit, TestModel!Calm

LEMMA RejectsInModel ==
    ASSUME OneTaskAlone, IInv, NEW k \in Keys, NEW e \in Texts,
           RejectSubmission(k, TheTask, e)
    PROVE  e \in ValidTexts /\ TestModel!Reject(e)
<1>1. TheTask \in TaskIds /\ TypeOK /\ now \in Timestamps
  BY AloneFacts DEF IInv, TypeOK
<1>2. /\ Exists(TheTask) /\ resolution[TheTask] # None
      /\ TaskCanRejectSubmission(task[TheTask], now)
      /\ ResolutionCanOpenDispute(resolution[TheTask], now, e)
      /\ task'[TheTask] = TaskRejectSubmission(task[TheTask])
      /\ resolution'[TheTask] = ResolutionOpenDispute(resolution[TheTask], now, e)
      /\ UNCHANGED <<profile, assignment, vault, vaultBalance, wallet, now>>
  BY <1>1 DEF RejectSubmission, CanRejectSubmission, SignedByCreator, TaskResolutionValid,
              TypeOK
<1>3. /\ task[TheTask] \in Task /\ TaskRejectSubmission(task[TheTask]) \in Task
      /\ resolution[TheTask] \in TaskResolution
      /\ task[TheTask].status = "Submitted" /\ resolution[TheTask].state = "Ready"
      /\ e \in ValidTexts
  BY <1>1, <1>2, AgreeingTask, TaskMethodsTyped
  DEF TaskCanRejectSubmission, ResolutionCanOpenDispute
<1>4. /\ TaskRejectSubmission(task[TheTask]).status # "Paid"
      /\ TaskRejectSubmission(task[TheTask]).funded_at = task[TheTask].funded_at
  BY <1>3 DEF TaskRejectSubmission, Task
<1>5. HasStatus(TheTask, InCustody)
  BY <1>2, <1>3 DEF HasStatus, InCustody
<1>6. ~DisputeOver'
  BY <1>2, <1>3 DEF DisputeOver, ResolutionOpenDispute, TaskResolution
<1>7. /\ TestTask = task[TheTask] /\ TestTask' = TaskRejectSubmission(task[TheTask])
      /\ UNCHANGED TestModel!counters
  BY <1>2, <1>3, <1>4, <1>5, <1>6, TaskWrittenInCustody
<1>8. /\ TestModel!TaskCanRejectSubmission(task[TheTask], now)
      /\ TestModel!ResolutionCanOpenDispute(resolution[TheTask], now, e)
  BY <1>2, SameDisputeMethods, SameResolutionMethods
<1> QED BY <1>2, <1>3, <1>7, <1>8, SameDisputeMethods, SameResolutionMethods
        DEF TestModel!Reject, TestModel!Unwrap, TestModel!Calm

(* The end of an escrow, as the model sees it.                             *)
LEMMA TaskReleased ==
    ASSUME OneTaskAlone, IInv, HasStatus(TheTask, InCustody), NEW outcome \in DisputeOutcome,
           IF outcome = "PayWorker" THEN PayOut(TheTask) ELSE Return(TheTask),
           NEW t \in Task, task'[TheTask] = t,
           t.status = "Paid" <=> outcome = "PayWorker",
           t.funded_at = task[TheTask].funded_at
    PROVE  /\ TestTask = task[TheTask] /\ TestTask' = t /\ vault[TheTask] # None
           /\ TestModel!CloseVault(outcome)
<1>1. TheTask \in TaskIds /\ Exists(TheTask) /\ Exists(TheTask)' /\ vault[TheTask] # None
  BY AloneFacts, MoneyIsHeld, MarketplaceAssumption DEF Exists
<1>2. TestTask = task[TheTask] /\ TestTask' = t
  BY <1>1, TestTaskMoves
<1>3. TestModel!CloseVault(outcome)
  BY <1>1, ReleaseClosesVault DEF Exists
<1> QED BY <1>1, <1>2, <1>3

(* A release without a dispute.                                            *)
LEMMA ReleaseInModel ==
    ASSUME OneTaskAlone, IInv, HasStatus(TheTask, {"Funded", "Submitted"}),
           NEW outcome \in DisputeOutcome,
           IF outcome = "PayWorker" THEN PayOut(TheTask) ELSE Return(TheTask),
           NEW t \in Task, task'[TheTask] = t,
           t.status = "Paid" <=> outcome = "PayWorker",
           t.funded_at = task[TheTask].funded_at,
           UNCHANGED <<assignment, resolution, now>>
    PROVE  TestTask = task[TheTask] /\ vault[TheTask] # None /\ TestModel!Close(t, outcome)
<1>1. HasStatus(TheTask, InCustody)
  BY DEF HasStatus, InCustody
<1>2. /\ TestTask = task[TheTask] /\ TestTask' = t /\ vault[TheTask] # None
      /\ TestModel!CloseVault(outcome)
  BY <1>1, TaskReleased
<1>3. DisputesFinished' = DisputesFinished
  BY DEF DisputesFinished
<1> QED BY <1>2, <1>3 DEF TestModel!Close, TestModel!Calm

LEMMA PaysInModel ==
    ASSUME OneTaskAlone, IInv, NEW k \in Keys, NEW w \in Keys, PayTask(k, TheTask, w)
    PROVE  TestModel!Pay
<1>1. TheTask \in TaskIds /\ TypeOK
  BY AloneFacts DEF IInv
<1>2. /\ Exists(TheTask) /\ TaskCanPay(task[TheTask])
      /\ task'[TheTask] = TaskPay(task[TheTask]) /\ PayOut(TheTask)
      /\ UNCHANGED <<profile, assignment, resolution, now>>
  BY <1>1 DEF PayTask, CanPayTask, SignedByCreator, TypeOK
<1>3. /\ HasStatus(TheTask, {"Funded", "Submitted"})
      /\ task[TheTask] \in Task /\ TaskPay(task[TheTask]) \in Task
  BY <1>1, <1>2, AgreeingTask, TaskMethodsTyped, AccountsAssumption
  DEF TypeOK, TaskCanPay, HasStatus
<1>4. /\ TaskPay(task[TheTask]).status = "Paid"
      /\ TaskPay(task[TheTask]).funded_at = task[TheTask].funded_at
  BY <1>3 DEF TaskPay, Task
<1>5. /\ TestTask = task[TheTask] /\ vault[TheTask] # None
      /\ TestModel!Close(TaskPay(task[TheTask]), "PayWorker")
  BY <1>2, <1>3, <1>4, ReleaseInModel DEF DisputeOutcome
<1>6. TestModel!TaskCanPay(task[TheTask])
  BY <1>2, SameEscrowMethods
<1> QED BY <1>5, <1>6, SameEscrowMethods DEF TestModel!Pay

LEMMA RefundsInModel ==
    ASSUME OneTaskAlone, IInv, NEW k \in Keys, RefundTaskAfterTimeout(k, TheTask)
    PROVE  TestModel!RefundAfterTimeout
<1>1. TheTask \in TaskIds /\ TypeOK /\ now \in Timestamps
  BY AloneFacts DEF IInv, TypeOK
<1>2. /\ Exists(TheTask) /\ TaskCanRefundAfterTimeout(task[TheTask], now)
      /\ task'[TheTask] = TaskRefundAfterTimeout(task[TheTask]) /\ Return(TheTask)
      /\ UNCHANGED <<profile, assignment, resolution, now>>
  BY <1>1 DEF RefundTaskAfterTimeout, CanRefundTaskAfterTimeout, SignedByCreator, TypeOK
<1>3. /\ HasStatus(TheTask, {"Funded", "Submitted"})
      /\ task[TheTask] \in Task /\ TaskRefundAfterTimeout(task[TheTask]) \in Task
  BY <1>1, <1>2, AgreeingTask, TaskMethodsTyped DEF TaskCanRefundAfterTimeout, HasStatus
<1>4. /\ TaskRefundAfterTimeout(task[TheTask]).status # "Paid"
      /\ TaskRefundAfterTimeout(task[TheTask]).funded_at = task[TheTask].funded_at
  BY <1>3 DEF TaskRefundAfterTimeout, Task
<1>5. /\ TestTask = task[TheTask] /\ vault[TheTask] # None
      /\ TestModel!Close(TaskRefundAfterTimeout(task[TheTask]), "RefundCreator")
  BY <1>2, <1>3, <1>4, ReleaseInModel DEF DisputeOutcome
<1>6. TestModel!TaskCanRefundAfterTimeout(task[TheTask], now)
  BY <1>2, SameEscrowMethods
<1> QED BY <1>5, <1>6, SameEscrowMethods DEF TestModel!RefundAfterTimeout

(* The model always looks at the resolution, the program only if it is     *)
(* passed: while the task is Submitted, there is nothing else to see in it.*)
LEMMA SettlesTaskInModel ==
    ASSUME OneTaskAlone, IInv, NEW k \in Keys, NEW w \in Keys, NEW pass \in BOOLEAN,
           SettleTaskAfterTimeout(TheTask, k, w, pass)
    PROVE  TestModel!ModelSettleTask
<1>1. TheTask \in TaskIds /\ TypeOK /\ now \in Timestamps
  BY AloneFacts DEF IInv, TypeOK
<1>2. /\ Exists(TheTask) /\ TaskCanPayAfterTimeout(task[TheTask], now)
      /\ task'[TheTask] = TaskPay(task[TheTask]) /\ PayOut(TheTask)
      /\ UNCHANGED <<profile, assignment, resolution, now>>
  BY <1>1 DEF SettleTaskAfterTimeout, CanSettleTaskAfterTimeout, TypeOK
<1>3. /\ HasStatus(TheTask, {"Funded", "Submitted"}) /\ task[TheTask].status = "Submitted"
      /\ task[TheTask] \in Task /\ TaskPay(task[TheTask]) \in Task
      /\ resolution[TheTask] # None => resolution[TheTask] \in TaskResolution
  BY <1>1, <1>2, AgreeingTask, TaskMethodsTyped
  DEF TaskCanPayAfterTimeout, TaskCanPay, HasStatus
<1>4. /\ TaskPay(task[TheTask]).status = "Paid"
      /\ TaskPay(task[TheTask]).funded_at = task[TheTask].funded_at
  BY <1>3 DEF TaskPay, Task
<1>5. resolution[TheTask] # None => resolution[TheTask].state = "Ready"
  BY <1>1, <1>3
  DEF IInv, AccountsAgree, ResolutionAgrees, HasStatus, TaskResolution, ResolutionState
<1>6. /\ TestTask = task[TheTask] /\ vault[TheTask] # None
      /\ TestModel!Close(TaskPay(task[TheTask]), "PayWorker")
  BY <1>2, <1>3, <1>4, ReleaseInModel DEF DisputeOutcome
<1>7. TestModel!TaskCanPayAfterTimeout(task[TheTask], now)
  BY <1>2, SameEscrowMethods
<1> QED BY <1>5, <1>6, <1>7, SameEscrowMethods DEF TestModel!ModelSettleTask

(* A dispute that ends.                                                    *)
LEMMA FinishesInModel ==
    ASSUME OneTaskAlone, IInv, NEW k \in Keys, NEW w \in Keys, NEW outcome \in DisputeOutcome,
           DisputeAccountsValid(TheTask, k, w), CanSettleDispute(TheTask, outcome),
           SettleDispute(TheTask, outcome), RequireDisputed(resolution[TheTask])
    PROVE  /\ vault[TheTask] # None /\ resolution[TheTask] # None
           /\ TestModel!Finish(outcome)
<1>1. TheTask \in TaskIds /\ TypeOK
  BY AloneFacts DEF IInv
<1>2. /\ Exists(TheTask) /\ resolution[TheTask] # None
      /\ TaskCanResolveDispute(task[TheTask], outcome)
      /\ task'[TheTask] = TaskResolveDispute(task[TheTask], outcome)
      /\ resolution'[TheTask] = ResolutionFinish(resolution[TheTask], outcome)
      /\ IF outcome = "PayWorker" THEN PayOut(TheTask) ELSE Return(TheTask)
      /\ UNCHANGED <<profile, assignment, now>>
  BY <1>1 DEF DisputeAccountsValid, TaskResolutionValid, CanSettleDispute, SettleDispute,
              TypeOK
<1>3. /\ HasStatus(TheTask, InCustody)
      /\ task[TheTask] \in Task /\ TaskResolveDispute(task[TheTask], outcome) \in Task
      /\ resolution[TheTask] \in TaskResolution
      /\ ResolutionFinish(resolution[TheTask], outcome) \in TaskResolution
  <2>1. now \in Timestamps
    BY <1>1 DEF TypeOK
  <2> QED BY <1>1, <1>2, <2>1, AgreeingTask, TaskMethodsTyped, ResolutionMethodsTyped
          DEF TaskCanResolveDispute, HasStatus, InCustody
<1>4. /\ TaskResolveDispute(task[TheTask], outcome).status = "Paid"
           <=> outcome = "PayWorker"
      /\ TaskResolveDispute(task[TheTask], outcome).funded_at = task[TheTask].funded_at
  BY <1>3 DEF TaskResolveDispute, Task
<1>5. /\ TestTask = task[TheTask] /\ vault[TheTask] # None
      /\ TestTask' = TaskResolveDispute(task[TheTask], outcome)
      /\ TestModel!CloseVault(outcome)
  BY <1>2, <1>3, <1>4, TaskReleased
<1>6. DisputesFinished' = DisputesFinished + 1
  <2>1. ~DisputeOver
    BY DEF DisputeOver, RequireDisputed
  <2>2. DisputeOver'
    BY <1>2, <1>3, MarketplaceAssumption DEF DisputeOver, ResolutionFinish, TaskResolution
  <2> QED BY <2>1, <2>2, CountersRead DEF CountersAreRead, OneIf
<1>7. TestModel!TaskCanResolveDispute(task[TheTask], outcome)
  BY <1>2, SameDisputeMethods
<1> QED BY <1>2, <1>5, <1>6, <1>7, SameDisputeMethods, SameResolutionMethods
        DEF TestModel!Finish, TestModel!Unwrap, TestModel!Calm

LEMMA DisputesInModel ==
    ASSUME OneTaskAlone, IInv, Dispute(TheTask)
    PROVE  TestModel!ModelNext
<1>1. ASSUME NEW k \in Keys, NEW e \in Texts, RejectSubmission(k, TheTask, e)
      PROVE  TestModel!ModelNext
  BY <1>1, RejectsInModel DEF TestModel!ModelNext
<1>2. ASSUME NEW a \in Keys, NEW k \in Keys, NEW w \in Keys, NEW outcome \in DisputeOutcome,
             ResolveDispute(a, TheTask, k, w, outcome)
      PROVE  TestModel!ModelNext
  <2>1. ResolutionCanResolve(resolution[TheTask], outcome, now)
    BY <1>2 DEF ResolveDispute, CanResolveDispute
  <2>2. /\ vault[TheTask] # None /\ resolution[TheTask] # None /\ TestModel!Finish(outcome)
    BY <1>2, <2>1, FinishesInModel DEF ResolveDispute, CanResolveDispute, ResolutionCanResolve
  <2>3. TestModel!Resolve(outcome)
    BY <2>1, <2>2, SameResolutionMethods DEF TestModel!Resolve
  <2> QED BY <2>3, SameDisputeMethods DEF TestModel!ModelNext
<1>3. ASSUME NEW k \in Keys, NEW w \in Keys, NEW outcome \in DisputeOutcome,
             ResolveDisputeByAgreement(k, w, TheTask, outcome)
      PROVE  TestModel!ModelNext
  <2>1. ResolutionCanResolveByAgreement(resolution[TheTask], outcome)
    BY <1>3 DEF ResolveDisputeByAgreement, CanResolveDisputeByAgreement
  <2>2. /\ vault[TheTask] # None /\ resolution[TheTask] # None /\ TestModel!Finish(outcome)
    BY <1>3, <2>1, FinishesInModel
    DEF ResolveDisputeByAgreement, CanResolveDisputeByAgreement,
        ResolutionCanResolveByAgreement
  <2>3. TestModel!ResolveByAgreement(outcome)
    BY <2>1, <2>2, SameResolutionMethods DEF TestModel!ResolveByAgreement
  <2> QED BY <2>3, SameDisputeMethods DEF TestModel!ModelNext
<1>4. ASSUME NEW k \in Keys, NEW w \in Keys, SettleDisputeAfterTimeout(TheTask, k, w)
      PROVE  TestModel!ModelNext
  <2>1. ResolutionCanSettleAfterTimeout(resolution[TheTask], now)
    BY <1>4 DEF SettleDisputeAfterTimeout, CanSettleDisputeAfterTimeout
  <2>2. /\ vault[TheTask] # None /\ resolution[TheTask] # None
        /\ TestModel!Finish("PayWorker")
    BY <1>4, <2>1, FinishesInModel
    DEF SettleDisputeAfterTimeout, CanSettleDisputeAfterTimeout,
        ResolutionCanSettleAfterTimeout, DisputeOutcome
  <2>3. TestModel!ModelSettleDispute
    BY <2>1, <2>2, SameResolutionMethods DEF TestModel!ModelSettleDispute
  <2> QED BY <2>3 DEF TestModel!ModelNext
<1> QED BY <1>1, <1>2, <1>3, <1>4 DEF Dispute

LEMMA InstructionsInModel ==
    ASSUME OneTaskAlone, IInv,
           Preparation(TheTask) \/ Delivery(TheTask) \/ Dispute(TheTask)
    PROVE  TestModel!ModelNext
<1>1. CASE Preparation(TheTask)
  BY <1>1, NamesArbitratorInModel, SelectsWorkerInModel, AcceptsAssignmentInModel,
     AcceptsInModel, CancelsInModel
  DEF Preparation, TestModel!ModelNext
<1>2. CASE Delivery(TheTask)
  BY <1>2, FundsInModel, SubmitsInModel, RefundsInModel, PaysInModel, SettlesTaskInModel
  DEF Delivery, TestModel!ModelNext
<1>3. CASE Dispute(TheTask)
  BY <1>3, DisputesInModel
<1> QED BY <1>1, <1>2, <1>3

(* The model starts with its task created, and knows no profiles.          *)
LEMMA SetupIsUnseen ==
    ASSUME OneTaskAlone, IInv, Setup
    PROVE  UNCHANGED TestModel!modelVars
<1>0. TypeOK /\ TheTask \in TaskIds
  BY AloneFacts DEF IInv
<1>1. ASSUME NEW k \in Creators, CreateCreatorProfile(k)
      PROVE  UNCHANGED TestModel!modelVars
  <2>1. /\ Spend(TheCreator, Rent["profile"])
        /\ UNCHANGED <<task, assignment, resolution, vault, now>>
    BY <1>1, AloneFacts DEF CreateCreatorProfile
  <2>2. TestTask' = TestTask
    BY <2>1 DEF TestTask, Exists
  <2>3. /\ TaskPaid' <=> TaskPaid
        /\ EscrowOver' <=> EscrowOver
        /\ DisputeOver' <=> DisputeOver
    BY <2>1 DEF TaskPaid, EscrowOver, DisputeOver, HasStatus, WasFunded, Exists
  <2>4. UNCHANGED TestModel!counters
    BY <1>0, <2>1, <2>3, CreatorSpends, CountersStay
  <2> QED BY <2>1, <2>2, <2>4 DEF TestModel!modelVars, TestModel!subject
<1>2. ASSUME NEW k \in Creators, NEW n \in 1 .. MaxTaskCount,
             NEW title \in Texts, NEW description \in Texts, NEW r \in Rewards,
             CreateTask(k, n, title, description, r)
      PROVE  UNCHANGED TestModel!modelVars
  <2>1. k = TheCreator /\ <<k, n>> = TheTask /\ r = CHOOSE x \in Rewards : TRUE
    <3>1. <<k, n>> \in TaskIds
      BY DEF TaskIds
    <3> QED BY <3>1, AloneFacts
  <2>2. /\ ~Exists(TheTask) /\ task'[TheTask] = NewTask(TheCreator, r)
        /\ Spend(TheCreator, Rent["task"])
        /\ UNCHANGED <<assignment, resolution, vault, now>>
    BY <1>0, <1>2, <2>1 DEF CreateTask, CanCreateTask, TypeOK
  <2>3. Exists(TheTask)'
    <3>1. r \in Nat
      BY MarketplaceAssumption
    <3>2. NewTask(TheCreator, r) \in Task
      BY <3>1, AloneFacts DEF NewTask, Task, TaskStatus
    <3> QED BY <2>2, <3>2, MarketplaceAssumption DEF Exists
  <2>4. TestTask' = TestTask
    BY <2>1, <2>2, <2>3 DEF TestTask, Exists
  <2>5. /\ ~TaskPaid /\ ~TaskPaid' /\ ~EscrowOver /\ ~EscrowOver'
        /\ DisputeOver' <=> DisputeOver
    BY <2>2 DEF TaskPaid, EscrowOver, DisputeOver, HasStatus, WasFunded, NewTask
  <2>6. UNCHANGED TestModel!counters
    BY <1>0, <2>2, <2>5, CreatorSpends, CountersStay
  <2> QED BY <2>2, <2>4, <2>6 DEF TestModel!modelVars, TestModel!subject
<1> QED BY <1>1, <1>2 DEF Setup

(* The tests' clock is the ledger's, and a stutter is a stutter.           *)
LEMMA TimeInModel ==
    ASSUME AdvanceClock \/ UNCHANGED vars
    PROVE  TestModel!AdvanceOneSecond \/ UNCHANGED TestModel!modelVars
<1>1. UNCHANGED <<task, assignment, resolution, vault, wallet>>
  BY DEF AdvanceClock, vars, accounts, money
<1>2. TestTask' = TestTask /\ UNCHANGED TestModel!subject
  BY <1>1 DEF TestTask, Exists, TestModel!subject
<1>3. /\ TaskPaid' <=> TaskPaid
      /\ EscrowOver' <=> EscrowOver
      /\ DisputeOver' <=> DisputeOver
  BY <1>1 DEF TaskPaid, EscrowOver, DisputeOver, HasStatus, WasFunded, Exists
<1>4. UNCHANGED TestModel!counters
  BY <1>1, <1>3, EarningsStay, CountersStay
<1> QED BY <1>2, <1>4 DEF AdvanceClock, vars, TestModel!AdvanceOneSecond, TestModel!modelVars

(* Everything the program does to a task that is alone on its ledger, the  *)
(* model of tests/property_state_machine.rs can do too, with the earnings  *)
(* of everybody but the creator for what the worker received: whatever the *)
(* tests establish of their model holds of the program.                    *)
THEOREM TestModelImplemented ==
    ASSUME OneTaskAlone
    PROVE  Spec => ImplementsTestModel
<1>1. Init => TestModel!ModelInit
  <2> SUFFICES ASSUME Init PROVE TestModel!ModelInit
    OBVIOUS
  <2>1. /\ task[TheTask] = None /\ assignment[TheTask] = None /\ resolution[TheTask] = None
        /\ vault[TheTask] = None /\ wallet = InitialWallets /\ now = 0
    BY AloneFacts DEF Init
  <2>2. \E r \in Rewards : TestTask = TestModel!NewTask(TheCreator, r)
    BY <2>1, AloneFacts, SameTaskMethods DEF TestTask, Exists
  <2>3. Earnings = 0
    <3>1. IsFiniteSet(Keys \ Creators)
      BY SupplyAssumption, FS_Subset
    <3>2. [k \in Keys \ Creators |-> InitialWallets[k]] \in [Keys \ Creators -> Nat]
      BY MarketplaceAssumption
    <3>3. Holdings(InitialWallets) \in Nat
      BY <3>1, <3>2, LamportsFinite DEF Holdings
    <3> QED BY <2>1, <3>3 DEF Earnings
  <2>4. ~TaskPaid /\ ~EscrowOver /\ ~DisputeOver
    BY <2>1 DEF TaskPaid, EscrowOver, DisputeOver, HasStatus, WasFunded, Exists
  <2>5. Payouts = 0 /\ Returns = 0 /\ VaultCloses = 0 /\ DisputesFinished = 0
    BY <2>4, CountersRead DEF CountersAreRead, OneIf
  <2> QED BY <2>1, <2>2, <2>3, <2>5 DEF TestModel!ModelInit
<1>2. IInv /\ [Next]_vars => [TestModel!ModelNext]_(TestModel!modelVars)
  <2> SUFFICES ASSUME IInv, [Next]_vars
               PROVE  TestModel!ModelNext \/ UNCHANGED TestModel!modelVars
    OBVIOUS
  <2>1. CASE Setup
    BY <2>1, SetupIsUnseen
  <2>2. CASE \E id \in TaskIds : Preparation(id) \/ Delivery(id) \/ Dispute(id)
    BY <2>2, AloneFacts, InstructionsInModel
  <2>3. CASE AdvanceClock \/ UNCHANGED vars
    BY <2>3, TimeInModel DEF TestModel!ModelNext
  <2>4. Donations = {} /\ Transfers = {}
    BY DEF OneTaskAlone
  <2> QED BY <2>1, <2>2, <2>3, <2>4 DEF Next
<1> QED BY <1>1, <1>2, AccountsAlwaysAgree, PTL
        DEF Spec, ImplementsTestModel, TestModel!ModelSpec
=============================================================================
