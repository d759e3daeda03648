-------------------------- MODULE MarketplaceProofs --------------------------
(***************************************************************************)
(* Proofs, for all values of the constants, of invariants of the           *)
(* task_marketplace program.                                               *)
(***************************************************************************)
EXTENDS MarketplaceProperties, AccountProofs

USE DEF Option, Timestamps, Pubkeys

-----------------------------------------------------------------------------
(***************************************************************************)
(* Type correctness                                                        *)
(***************************************************************************)

(* A key that can pay keeps a natural balance. *)
LEMMA SpendTyped ==
    ASSUME wallet \in [Keys -> Nat], NEW key \in Keys, NEW amount \in Nat,
           CanSpend(key, amount), Spend(key, amount)
    PROVE  wallet' \in [Keys -> Nat]
<1>1. wallet[key] - amount \in Nat
  BY DEF CanSpend
<1> QED BY <1>1 DEF Spend

(* Funding takes naturals to naturals. *)
LEMMA FundingTyped ==
    ASSUME NEW balance \in Nat, NEW reward \in Nat
    PROVE  /\ FundingCost(balance, reward) \in Nat
           /\ FundedBalance(balance, reward) \in Nat
BY EscrowAssumption DEF FundedBalance, FundingCost, InitShortfall

(* Paying a vault out, or returning it, keeps every balance natural. *)
LEMMA PayOutTyped ==
    ASSUME TypeOK, NEW id \in TaskIds, Exists(id), task[id].worker # None,
           vault[id] # None, CanPayOut(id), PayOut(id)
    PROVE  /\ wallet' \in [Keys -> Nat]
           /\ vault' \in [TaskIds -> Option(Nat)]
           /\ vaultBalance' \in [TaskIds -> Nat]
<1>1. task[id].worker \in Keys /\ task[id].creator \in Keys
  BY DEF TypeOK, Exists, Task
<1>2. vault[id] \in Nat /\ vaultBalance[id] \in Nat
  BY DEF TypeOK
<1>3. vaultBalance[id] - vault[id] \in Nat
  BY <1>2 DEF CanPayOut, CanPayWorker, WorkerAmount
<1>4. wallet' \in [Keys -> Nat]
  BY <1>1, <1>2, <1>3 DEF PayOut, WorkerAmount, TypeOK
<1> QED BY <1>4 DEF PayOut, TypeOK

(* Closing a vault into its creator keeps every balance natural. *)
LEMMA ReturnTyped ==
    ASSUME TypeOK, NEW id \in TaskIds, Exists(id), Return(id)
    PROVE  /\ wallet' \in [Keys -> Nat]
           /\ vault' \in [TaskIds -> Option(Nat)]
           /\ vaultBalance' \in [TaskIds -> Nat]
BY DEF TypeOK, Exists, Task, Return

(* A settled dispute leaves well typed accounts. *)
LEMMA SettleDisputeTyped ==
    ASSUME TypeOK, NEW id \in TaskIds, NEW outcome \in DisputeOutcome,
           NEW c \in Keys, NEW w \in Keys, DisputeAccountsValid(id, c, w),
           CanSettleDispute(id, outcome), SettleDispute(id, outcome)
    PROVE  TypeOK'
<1>1. task[id] \in Task /\ resolution[id] \in TaskResolution
  BY DEF TypeOK, DisputeAccountsValid, TaskResolutionValid, Exists
<1>2. task[id].worker # None /\ vault[id] # None /\ Exists(id)
  BY AccountsAssumption DEF DisputeAccountsValid, VaultValid
<1>3. /\ wallet' \in [Keys -> Nat]
      /\ vault' \in [TaskIds -> Option(Nat)]
      /\ vaultBalance' \in [TaskIds -> Nat]
  BY <1>2, PayOutTyped, ReturnTyped DEF SettleDispute, CanSettleDispute
<1>4. now \in Timestamps
  BY DEF TypeOK
<1>5. TaskResolveDispute(task[id], outcome) \in Task
  BY <1>1, <1>4, TaskMethodsTyped
<1>6. ResolutionFinish(resolution[id], outcome) \in TaskResolution
  BY <1>1, <1>4, ResolutionMethodsTyped
<1> QED BY <1>3, <1>5, <1>6 DEF SettleDispute, TypeOK

(* Every step of the program keeps every account well typed. *)
LEMMA NextTyped == TypeOK /\ [Next]_vars => TypeOK'
<1> SUFFICES ASSUME TypeOK, [Next]_vars PROVE TypeOK'
  OBVIOUS
<1> USE AccountsAssumption, MarketplaceAssumption
<1>0. now \in Timestamps
  BY DEF TypeOK
<1>1. ASSUME NEW k \in Creators, CreateCreatorProfile(k) PROVE TypeOK'
  <2>1. wallet' \in [Keys -> Nat]
    BY <1>1, SpendTyped DEF CreateCreatorProfile, CanCreateCreatorProfile, TypeOK, PermanentAccounts
  <2> QED BY <1>1, <2>1 DEF CreateCreatorProfile, CanCreateCreatorProfile, TypeOK
<1>2. ASSUME NEW k \in Creators, NEW n \in 1 .. MaxTaskCount,
             NEW title \in Texts, NEW description \in Texts, NEW r \in Rewards,
             CreateTask(k, n, title, description, r)
      PROVE  TypeOK'
  <2>1. wallet' \in [Keys -> Nat]
    BY <1>2, SpendTyped DEF CreateTask, CanCreateTask, TypeOK, PermanentAccounts
  <2>2. NewTask(k, r) \in Task
    BY DEF NewTask, Task, TaskStatus
  <2>3. <<k, n>> \in TaskIds
    BY DEF TaskIds
  <2> QED BY <1>2, <2>1, <2>2, <2>3 DEF CreateTask, TypeOK
<1>3. ASSUME NEW k \in Keys, NEW id \in TaskIds, NEW p \in Pubkeys,
             InitializeTaskResolution(k, id, p)
      PROVE  TypeOK'
  <2>1. wallet' \in [Keys -> Nat]
    BY <1>3, SpendTyped
    DEF InitializeTaskResolution, CanInitializeTaskResolution, TypeOK, PermanentAccounts
  <2>2. NewResolution(p) \in TaskResolution
    BY DEF NewResolution, TaskResolution, ResolutionState
  <2> QED BY <1>3, <2>1, <2>2 DEF InitializeTaskResolution, TypeOK
<1>4. ASSUME NEW k \in Keys, NEW id \in TaskIds, NEW p \in Pubkeys,
             AssignWorker(k, id, p)
      PROVE  TypeOK'
  <2>1. wallet' \in [Keys -> Nat]
    BY <1>4, SpendTyped DEF AssignWorker, CanAssignWorker, TypeOK, PermanentAccounts
  <2>2. NewAssignment(p) \in WorkerAssignment
    BY DEF NewAssignment, WorkerAssignment
  <2>3. TaskAssignWorker(task[id]) \in Task
    BY <1>0, <1>4, TaskMethodsTyped DEF AssignWorker, CanAssignWorker, SignedByCreator, Exists, TypeOK
  <2> QED BY <1>4, <2>1, <2>2, <2>3 DEF AssignWorker, CanAssignWorker, TypeOK
<1>5. ASSUME NEW k \in Keys, NEW id \in TaskIds, AcceptAssignment(k, id)
      PROVE  TypeOK'
  <2>1. AssignmentAccept(assignment[id], now) \in WorkerAssignment
    BY <1>0, <1>5 DEF AcceptAssignment, CanAcceptAssignment, AssignmentAccept, WorkerAssignment, TypeOK
  <2>2. TaskAcceptAssignment(task[id], k) \in Task
    BY <1>0, <1>5, TaskMethodsTyped DEF AcceptAssignment, CanAcceptAssignment, Exists, TypeOK
  <2> QED BY <1>5, <2>1, <2>2 DEF AcceptAssignment, CanAcceptAssignment, TypeOK
<1>6. ASSUME NEW k \in Keys, NEW id \in TaskIds, AcceptTask(k, id)
      PROVE  TypeOK'
  <2>1. TaskAccept(task[id], k) \in Task
    BY <1>0, <1>6, TaskMethodsTyped DEF AcceptTask, Exists, TypeOK
  <2> QED BY <1>6, <2>1 DEF AcceptTask, TypeOK
<1>7. ASSUME NEW k \in Keys, NEW id \in TaskIds, CancelTask(k, id)
      PROVE  TypeOK'
  <2>1. TaskCancel(task[id]) \in Task
    BY <1>0, <1>7, TaskMethodsTyped DEF CancelTask, SignedByCreator, Exists, TypeOK
  <2> QED BY <1>7, <2>1 DEF CancelTask, TypeOK
<1>8. ASSUME NEW k \in Keys, NEW id \in TaskIds, FundTask(k, id)
      PROVE  TypeOK'
  <2>1. task[id] \in Task /\ TaskCanFund(task[id], now)
    BY <1>8 DEF FundTask, CanFundTask, SignedByCreator, Exists, TypeOK
  <2>2. TaskFund(task[id], now) \in Task
    BY <1>0, <2>1, TaskMethodsTyped
  <2>3. task[id].reward_amount \in Nat /\ vaultBalance[id] \in Nat
    BY <2>1 DEF Task, TypeOK
  <2>4. /\ FundingCost(vaultBalance[id], task[id].reward_amount) \in Nat
        /\ FundedBalance(vaultBalance[id], task[id].reward_amount) \in Nat
    BY <2>3, FundingTyped
  <2>5. wallet' \in [Keys -> Nat]
    BY <1>8, <2>4, SpendTyped DEF FundTask, CanFundTask, TypeOK
  <2> QED BY <1>8, <2>2, <2>3, <2>4, <2>5 DEF FundTask, CanFundTask, TypeOK
<1>9. ASSUME NEW k \in Keys, NEW id \in TaskIds, NEW reference \in Texts,
             SubmitTask(k, id, reference)
      PROVE  TypeOK'
  <2>1. TaskSubmit(task[id], reference, now) \in Task
    BY <1>0, <1>9, TaskMethodsTyped DEF SubmitTask, CanSubmitTask, Exists, TypeOK
  <2> QED BY <1>9, <2>1 DEF SubmitTask, TypeOK
<1>10. ASSUME NEW k \in Keys, NEW id \in TaskIds, RefundTaskAfterTimeout(k, id)
       PROVE  TypeOK'
  <2>1. Exists(id) /\ task[id] \in Task
    BY <1>10 DEF RefundTaskAfterTimeout, CanRefundTaskAfterTimeout, SignedByCreator,
                 Exists, TypeOK
  <2>2. TaskRefundAfterTimeout(task[id]) \in Task
    BY <1>0, <2>1, TaskMethodsTyped
  <2> QED BY <1>10, <2>1, <2>2, ReturnTyped DEF RefundTaskAfterTimeout, TypeOK
<1>11. ASSUME NEW k \in Keys, NEW id \in TaskIds, NEW w \in Keys,
              \/ PayTask(k, id, w)
              \/ \E pass \in BOOLEAN : SettleTaskAfterTimeout(id, k, w, pass)
       PROVE  TypeOK'
  <2>1. /\ Exists(id) /\ task[id] \in Task /\ w = task[id].worker
        /\ vault[id] # None /\ CanPayOut(id) /\ PayOut(id)
        /\ task' = [task EXCEPT ![id] = TaskPay(@)]
        /\ UNCHANGED <<profile, assignment, resolution, now>>
    BY <1>11 DEF PayTask, CanPayTask, SettleTaskAfterTimeout, CanSettleTaskAfterTimeout,
                 SignedByCreator, VaultValid, Exists, TypeOK
  <2>2. TaskPay(task[id]) \in Task
    BY <1>0, <2>1, TaskMethodsTyped
  <2> QED BY <2>1, <2>2, PayOutTyped DEF TypeOK
<1>12. ASSUME NEW k \in Keys, NEW id \in TaskIds, NEW reference \in Texts,
              RejectSubmission(k, id, reference)
       PROVE  TypeOK'
  <2>1. task[id] \in Task /\ resolution[id] \in TaskResolution
    BY <1>12 DEF RejectSubmission, CanRejectSubmission, SignedByCreator,
                 TaskResolutionValid, Exists, TypeOK
  <2>2. TaskRejectSubmission(task[id]) \in Task
    BY <1>0, <2>1, TaskMethodsTyped
  <2>3. ResolutionOpenDispute(resolution[id], now, reference) \in TaskResolution
    BY <1>0, <1>12, <2>1, ResolutionMethodsTyped DEF RejectSubmission, CanRejectSubmission
  <2> QED BY <1>12, <2>2, <2>3 DEF RejectSubmission, TypeOK
<1>13. ASSUME NEW k \in Keys, NEW id \in TaskIds, NEW w \in Keys,
              \/ \E outcome \in DisputeOutcome :
                   \/ \E a \in Keys : ResolveDispute(a, id, k, w, outcome)
                   \/ ResolveDisputeByAgreement(k, w, id, outcome)
              \/ SettleDisputeAfterTimeout(id, k, w)
       PROVE  TypeOK'
  <2>1. PICK outcome \in DisputeOutcome :
           /\ DisputeAccountsValid(id, k, w)
           /\ CanSettleDispute(id, outcome)
           /\ SettleDispute(id, outcome)
    BY <1>13 DEF ResolveDispute, CanResolveDispute, ResolveDisputeByAgreement,
                 CanResolveDisputeByAgreement, SettleDisputeAfterTimeout,
                 CanSettleDisputeAfterTimeout, DisputeOutcome
  <2> QED BY <2>1, SettleDisputeTyped
<1>14. CASE AdvanceClock
  BY <1>14 DEF AdvanceClock, accounts, money, TypeOK
<1>15. ASSUME NEW k \in Keys, NEW id \in TaskIds, NEW amount \in Donations,
              Donate(k, id, amount)
       PROVE  TypeOK'
  <2>1. wallet' \in [Keys -> Nat]
    BY <1>15, SpendTyped DEF Donate, TypeOK
  <2>2. vaultBalance' \in [TaskIds -> Nat]
    <3>1. vaultBalance \in [TaskIds -> Nat]
      BY DEF TypeOK
    <3>2. vaultBalance[id] + amount \in Nat
      BY <3>1
    <3>3. vaultBalance' = [vaultBalance EXCEPT ![id] = @ + amount]
      BY <1>15 DEF Donate
    <3> QED BY <3>1, <3>2, <3>3
  <2>3. vault' \in [TaskIds -> Option(Nat)] /\ now' \in Timestamps
    BY <1>15 DEF Donate, TypeOK
  <2> QED BY <1>15, <2>1, <2>2, <2>3 DEF Donate, accounts, TypeOK
<1>16. ASSUME NEW k \in Keys, NEW to \in Keys, NEW amount \in Transfers,
              Transfer(k, to, amount)
       PROVE  TypeOK'
  <2>1. k # to /\ wallet \in [Keys -> Nat] /\ wallet[k] >= amount /\ amount \in Nat
    BY <1>16, MarketplaceAssumption DEF Transfer, CanSpend, TypeOK
  <2>2. wallet' = [wallet EXCEPT ![k] = @ - amount, ![to] = @ + amount]
    BY <1>16 DEF Transfer
  <2>3. wallet[k] - amount \in Nat /\ wallet[to] + amount \in Nat
    BY <2>1
  <2>4. wallet' \in [Keys -> Nat]
    BY <2>1, <2>2, <2>3
  <2> QED BY <1>16, <2>4 DEF Transfer, accounts, TypeOK
<1>17. CASE UNCHANGED vars
  BY <1>17 DEF vars, TypeOK
<1> QED
  BY <1>1, <1>2, <1>3, <1>4, <1>5, <1>6, <1>7, <1>8, <1>9, <1>10, <1>11, <1>12,
     <1>13, <1>14, <1>15, <1>16, <1>17
  DEF Next, Setup, Preparation, Delivery, Dispute

(* Every account always holds what its type in state.rs declares, and no  *)
(* balance is ever negative: no instruction spends lamports that are not  *)
(* there, and every deadline ever stored fits an i64.                     *)
THEOREM TypeCorrectness == Spec => []TypeOK
<1>1. Init => TypeOK
  BY AccountsAssumption, MarketplaceAssumption DEF Init, TypeOK
<1> QED BY <1>1, NextTyped, PTL DEF Spec

-----------------------------------------------------------------------------
(***************************************************************************)
(* The inductive invariant: the accounts of every task agree               *)
(***************************************************************************)

AccountsAgree(id) ==
    /\ TaskShaped(id)
    /\ CustodyMatches(id)
    /\ ResolutionAgrees(id)
    /\ AssignmentAgrees(id)
    /\ DeadlinesChained(id)

IInv == TypeOK /\ \A id \in TaskIds : AccountsAgree(id)

(* A step that leaves the accounts of a task alone, except for lamports    *)
(* sent to its vault, and does not turn back the clock, preserves the      *)
(* agreement of that task's accounts.                                      *)
LEMMA Untouched ==
    ASSUME TypeOK, NEW id \in TaskIds, AccountsAgree(id),
           task'[id] = task[id], assignment'[id] = assignment[id],
           resolution'[id] = resolution[id], vault'[id] = vault[id],
           vaultBalance'[id] \in Nat, vaultBalance'[id] >= vaultBalance[id],
           now' \in Nat, now' >= now
    PROVE  AccountsAgree(id)'
<1> USE DEF AccountsAgree, Exists, HasStatus
<1>1. TaskShaped(id)'
  BY DEF TaskShaped
<1>2. CustodyMatches(id)'
  <2>1. vault[id] # None => vault[id] \in Nat /\ vaultBalance[id] \in Nat
    BY DEF TypeOK
  <2> QED BY <2>1, EscrowAssumption DEF CustodyMatches, CoversLiability, FitsU64
<1>3. ResolutionAgrees(id)'
  BY DEF ResolutionAgrees
<1>4. AssignmentAgrees(id)'
  BY DEF AssignmentAgrees
<1>5. DeadlinesChained(id)'
  <2>1. now \in Nat
    BY AccountsAssumption DEF TypeOK
  <2>2. task[id] # None => task[id] \in Task
    BY DEF TypeOK
  <2>3. resolution[id] # None => resolution[id] \in TaskResolution
    BY DEF TypeOK
  <2> QED BY <2>1, <2>2, <2>3, AccountsAssumption DEF DeadlinesChained, Task, TaskResolution
<1> QED BY <1>1, <1>2, <1>3, <1>4, <1>5

Unchanged(id) ==
    /\ task'[id] = task[id]
    /\ assignment'[id] = assignment[id]
    /\ resolution'[id] = resolution[id]
    /\ vault'[id] = vault[id]
    /\ vaultBalance'[id] = vaultBalance[id]

(* An instruction writes the accounts of one task only. *)
LEMMA OneTaskAtATime ==
    ASSUME IInv, NEW id \in TaskIds, now' = now,
           \A j \in TaskIds \ {id} : Unchanged(j), AccountsAgree(id)'
    PROVE  \A j \in TaskIds : AccountsAgree(j)'
<1>1. ASSUME NEW j \in TaskIds \ {id} PROVE AccountsAgree(j)'
  <2>1. vaultBalance[j] \in Nat /\ now \in Nat
    BY AccountsAssumption DEF IInv, TypeOK
  <2> QED BY <2>1, Untouched DEF IInv, Unchanged
<1> QED BY <1>1

(* What the invariant says of the task an instruction is about to write. *)
LEMMA AgreeingTask ==
    ASSUME IInv, NEW id \in TaskIds, Exists(id)
    PROVE  /\ task[id] \in Task
           /\ resolution[id] # None => resolution[id] \in TaskResolution
           /\ assignment[id] # None => assignment[id] \in WorkerAssignment
           /\ vault[id] # None => vault[id] \in Nat
           /\ vaultBalance[id] \in Nat
           /\ now \in Nat
           /\ AccountsAgree(id)
BY AccountsAssumption DEF IInv, TypeOK, Exists

(* A new task starts Open, alone and without a vault. *)
LEMMA CreateTaskAgrees ==
    ASSUME IInv, NEW k \in Creators, NEW n \in 1 .. MaxTaskCount,
           NEW title \in Texts, NEW description \in Texts, NEW r \in Rewards,
           CreateTask(k, n, title, description, r)
    PROVE  \A j \in TaskIds : AccountsAgree(j)'
<1> DEFINE id == <<k, n>>
<1>0. id \in TaskIds /\ k \in Keys
  BY MarketplaceAssumption DEF TaskIds
<1>1. /\ task'[id] = NewTask(k, r) /\ task[id] = None /\ r > 0
      /\ UNCHANGED <<assignment, resolution, vault, vaultBalance, now>>
      /\ \A j \in TaskIds \ {id} : Unchanged(j)
  BY <1>0 DEF CreateTask, CanCreateTask, Exists, Unchanged, IInv, TypeOK
<1>2. /\ AccountsAgree(id)
      /\ NewTask(k, r) # None
  BY <1>0, AccountsAssumption, MarketplaceAssumption
  DEF IInv, NewTask, Task, TaskStatus
<1>3. assignment[id] = None /\ resolution[id] = None /\ vault[id] = None
  BY <1>1, <1>2 DEF AccountsAgree, CustodyMatches, ResolutionAgrees, AssignmentAgrees,
                    HasStatus, Exists
<1>4. AccountsAgree(id)'
  BY <1>0, <1>1, <1>2, <1>3, AccountsAssumption
  DEF AccountsAgree, TaskShaped, CustodyMatches, ResolutionAgrees, AssignmentAgrees,
      DeadlinesChained, HasStatus, Exists, NewTask, TaskValid, InCustody
<1> HIDE DEF id
<1> QED BY <1>0, <1>1, <1>4, OneTaskAtATime

(* A resolution is made Ready while the task is Open. *)
LEMMA InitializeTaskResolutionAgrees ==
    ASSUME IInv, NEW k \in Keys, NEW id \in TaskIds, NEW p \in Pubkeys,
           InitializeTaskResolution(k, id, p)
    PROVE  \A j \in TaskIds : AccountsAgree(j)'
<1>1. /\ Exists(id) /\ task[id].status = "Open" /\ k = task[id].creator
      /\ p # k /\ p # DefaultKey
      /\ resolution'[id] = NewResolution(p)
      /\ UNCHANGED <<task, assignment, vault, vaultBalance, now>>
      /\ \A j \in TaskIds \ {id} : Unchanged(j)
  BY DEF InitializeTaskResolution, CanInitializeTaskResolution, SignedByCreator,
         Unchanged, IInv, TypeOK
<1>2. AccountsAgree(id)
  BY <1>1, AgreeingTask
<1>3. ResolutionAgrees(id)'
  BY <1>1, <1>2
  DEF ResolutionAgrees, NewResolution, ResolutionValid, HasStatus, Exists
<1>4. AccountsAgree(id)'
  BY <1>1, <1>2, <1>3
  DEF AccountsAgree, TaskShaped, CustodyMatches, AssignmentAgrees, DeadlinesChained,
      HasStatus, Exists, NewResolution
<1> QED BY <1>1, <1>4, OneTaskAtATime

(* Selecting a worker closes the task to everybody else. *)
LEMMA AssignWorkerAgrees ==
    ASSUME IInv, NEW k \in Keys, NEW id \in TaskIds, NEW p \in Pubkeys,
           AssignWorker(k, id, p)
    PROVE  \A j \in TaskIds : AccountsAgree(j)'
<1>1. /\ Exists(id) /\ TaskCanAssignWorker(task[id], p)
      /\ task'[id] = TaskAssignWorker(task[id])
      /\ assignment'[id] = NewAssignment(p)
      /\ UNCHANGED <<resolution, vault, vaultBalance, now>>
      /\ \A j \in TaskIds \ {id} : Unchanged(j)
  BY DEF AssignWorker, CanAssignWorker, SignedByCreator, Unchanged, IInv, TypeOK
<1>2. AccountsAgree(id) /\ task[id] \in Task
  BY <1>1, AgreeingTask
<1>3. TaskAssignWorker(task[id]) \in Task /\ TaskAssignWorker(task[id]) # None
  BY <1>2, MarketplaceAssumption DEF TaskAssignWorker, Task, TaskStatus
<1> USE <1>1, <1>2, <1>3
    DEF AccountsAgree, TaskCanAssignWorker, TaskAssignWorker, HasStatus, Exists, Task
<1>4. TaskShaped(id)'
  BY DEF TaskShaped
<1>5. CustodyMatches(id)'
  BY DEF CustodyMatches, InCustody
<1>6. ResolutionAgrees(id)'
  BY DEF ResolutionAgrees
<1>7. AssignmentAgrees(id)'
  <2>1. NewAssignment(p) # None
    BY MarketplaceAssumption DEF NewAssignment, WorkerAssignment
  <2> QED BY <2>1 DEF AssignmentAgrees, NewAssignment, AssignmentValid
<1>8. DeadlinesChained(id)'
  BY DEF DeadlinesChained
<1>9. AccountsAgree(id)'
  BY <1>4, <1>5, <1>6, <1>7, <1>8
<1> QED BY <1>9, OneTaskAtATime

(* The worker who accepts an assignment is the one selected. *)
LEMMA AcceptAssignmentAgrees ==
    ASSUME IInv, NEW k \in Keys, NEW id \in TaskIds, AcceptAssignment(k, id)
    PROVE  \A j \in TaskIds : AccountsAgree(j)'
<1>1. /\ Exists(id) /\ TaskCanAcceptAssignment(task[id], k)
      /\ assignment[id] # None /\ AssignmentCanAccept(assignment[id], k)
      /\ task'[id] = TaskAcceptAssignment(task[id], k)
      /\ assignment'[id] = AssignmentAccept(assignment[id], now)
      /\ UNCHANGED <<resolution, vault, vaultBalance, now>>
      /\ \A j \in TaskIds \ {id} : Unchanged(j)
  BY DEF AcceptAssignment, CanAcceptAssignment, Unchanged, IInv, TypeOK
<1>2. /\ AccountsAgree(id) /\ task[id] \in Task /\ now \in Nat
      /\ assignment[id] \in WorkerAssignment
  BY <1>1, AgreeingTask
<1>3. /\ TaskAcceptAssignment(task[id], k) \in Task
      /\ TaskAcceptAssignment(task[id], k) # None
      /\ k # None /\ now # None
  <2>1. TaskAcceptAssignment(task[id], k) \in Task
    BY <1>2 DEF TaskAcceptAssignment, Task, TaskStatus
  <2> QED BY <1>2, <2>1, AccountsAssumption, MarketplaceAssumption
<1> USE <1>1, <1>2, <1>3
    DEF AccountsAgree, TaskCanAcceptAssignment, TaskAcceptAssignment, HasStatus, Exists, Task
<1>4. TaskShaped(id)'
  BY DEF TaskShaped
<1>5. CustodyMatches(id)'
  BY DEF CustodyMatches, InCustody
<1>6. ResolutionAgrees(id)'
  BY DEF ResolutionAgrees
<1>7. AssignmentAgrees(id)'
  BY DEF AssignmentAgrees, AssignmentCanAccept, AssignmentAccept, AssignmentValid,
         WorkerAssignment
<1>8. DeadlinesChained(id)'
  BY DEF DeadlinesChained
<1>9. AccountsAgree(id)'
  BY <1>4, <1>5, <1>6, <1>7, <1>8
<1> QED BY <1>9, OneTaskAtATime

(* An Open task has no assignment that its acceptance could contradict. *)
LEMMA AcceptTaskAgrees ==
    ASSUME IInv, NEW k \in Keys, NEW id \in TaskIds, AcceptTask(k, id)
    PROVE  \A j \in TaskIds : AccountsAgree(j)'
<1>1. /\ Exists(id) /\ TaskCanAccept(task[id], k)
      /\ task'[id] = TaskAccept(task[id], k)
      /\ UNCHANGED <<assignment, resolution, vault, vaultBalance, now>>
      /\ \A j \in TaskIds \ {id} : Unchanged(j)
  BY DEF AcceptTask, Unchanged, IInv, TypeOK
<1>2. AccountsAgree(id) /\ task[id] \in Task
  BY <1>1, AgreeingTask
<1>3. TaskAccept(task[id], k) \in Task /\ TaskAccept(task[id], k) # None
  <2>1. TaskAccept(task[id], k) \in Task
    BY <1>2 DEF TaskAccept, Task, TaskStatus
  <2> QED BY <2>1, MarketplaceAssumption
<1> USE <1>1, <1>2, <1>3
    DEF AccountsAgree, TaskCanAccept, TaskAccept, HasStatus, Exists, Task
<1>4. TaskShaped(id)'
  BY DEF TaskShaped
<1>5. CustodyMatches(id)'
  BY DEF CustodyMatches, InCustody
<1>6. ResolutionAgrees(id)'
  BY DEF ResolutionAgrees
<1>7. AssignmentAgrees(id)'
  BY DEF AssignmentAgrees
<1>8. DeadlinesChained(id)'
  BY DEF DeadlinesChained
<1>9. AccountsAgree(id)'
  BY <1>4, <1>5, <1>6, <1>7, <1>8
<1> QED BY <1>9, OneTaskAtATime

(* A task that is cancelled has no vault and no dispute. *)
LEMMA CancelTaskAgrees ==
    ASSUME IInv, NEW k \in Keys, NEW id \in TaskIds, CancelTask(k, id)
    PROVE  \A j \in TaskIds : AccountsAgree(j)'
<1>1. /\ Exists(id) /\ TaskCanCancel(task[id])
      /\ task'[id] = TaskCancel(task[id])
      /\ UNCHANGED <<assignment, resolution, vault, vaultBalance, now>>
      /\ \A j \in TaskIds \ {id} : Unchanged(j)
  BY DEF CancelTask, SignedByCreator, Unchanged, IInv, TypeOK
<1>2. AccountsAgree(id) /\ task[id] \in Task
  BY <1>1, AgreeingTask
<1>3. TaskCancel(task[id]) \in Task /\ TaskCancel(task[id]) # None
  BY <1>2, MarketplaceAssumption DEF TaskCancel, Task, TaskStatus
<1> USE <1>1, <1>2, <1>3
    DEF AccountsAgree, TaskCanCancel, TaskCancel, HasStatus, Exists, Task
<1>4. TaskShaped(id)'
  BY DEF TaskShaped
<1>5. CustodyMatches(id)'
  BY DEF CustodyMatches, InCustody
<1>6. ResolutionAgrees(id)'
  BY DEF ResolutionAgrees
<1>7. AssignmentAgrees(id)'
  BY DEF AssignmentAgrees
<1>8. DeadlinesChained(id)'
  BY DEF DeadlinesChained
<1>9. AccountsAgree(id)'
  BY <1>4, <1>5, <1>6, <1>7, <1>8
<1> QED BY <1>9, OneTaskAtATime

(* Funding creates the vault and opens the first window. *)
LEMMA FundTaskAgrees ==
    ASSUME IInv, NEW k \in Keys, NEW id \in TaskIds, FundTask(k, id)
    PROVE  \A j \in TaskIds : AccountsAgree(j)'
<1>1. /\ Exists(id) /\ TaskCanFund(task[id], now)
      /\ task'[id] = TaskFund(task[id], now)
      /\ vault'[id] = task[id].reward_amount
      /\ CoversLiability(task[id].reward_amount, vaultBalance'[id])
      /\ UNCHANGED <<assignment, resolution, now>>
      /\ \A j \in TaskIds \ {id} : Unchanged(j)
  BY DEF FundTask, CanFundTask, SignedByCreator, Unchanged, IInv, TypeOK
<1>2. AccountsAgree(id) /\ task[id] \in Task /\ now \in Nat
  BY <1>1, AgreeingTask
<1>3. /\ TaskFund(task[id], now) \in Task
      /\ TaskFund(task[id], now) # None
      /\ task[id].reward_amount # None /\ now # None
  <2>1. now \in Timestamps
    BY DEF IInv, TypeOK
  <2>2. TaskFund(task[id], now) \in Task
    BY <1>1, <1>2, <2>1, TaskMethodsTyped
  <2> QED BY <1>2, <2>2, AccountsAssumption, MarketplaceAssumption DEF Task
<1> USE <1>1, <1>2, <1>3
    DEF AccountsAgree, TaskCanFund, TaskFund, HasStatus, Exists, Task
<1>4. TaskShaped(id)'
  BY DEF TaskShaped
<1>5. CustodyMatches(id)'
  BY DEF CustodyMatches, InCustody
<1>6. ResolutionAgrees(id)'
  BY DEF ResolutionAgrees
<1>7. AssignmentAgrees(id)'
  BY DEF AssignmentAgrees
<1>8. DeadlinesChained(id)'
  BY DEF DeadlinesChained, ResolutionAgrees
<1>9. AccountsAgree(id)'
  BY <1>4, <1>5, <1>6, <1>7, <1>8
<1> QED BY <1>9, OneTaskAtATime

(* A submission opens the second window inside the first. *)
LEMMA SubmitTaskAgrees ==
    ASSUME IInv, NEW k \in Keys, NEW id \in TaskIds, NEW reference \in Texts,
           SubmitTask(k, id, reference)
    PROVE  \A j \in TaskIds : AccountsAgree(j)'
<1>1. /\ Exists(id) /\ TaskCanSubmit(task[id], k, reference, now)
      /\ task'[id] = TaskSubmit(task[id], reference, now)
      /\ UNCHANGED <<assignment, resolution, vault, vaultBalance, now>>
      /\ \A j \in TaskIds \ {id} : Unchanged(j)
  BY DEF SubmitTask, CanSubmitTask, Unchanged, IInv, TypeOK
<1>2. AccountsAgree(id) /\ task[id] \in Task /\ now \in Nat
  BY <1>1, AgreeingTask
<1>3. /\ TaskSubmit(task[id], reference, now) \in Task
      /\ TaskSubmit(task[id], reference, now) # None
  <2>1. now \in Timestamps
    BY DEF IInv, TypeOK
  <2>2. TaskSubmit(task[id], reference, now) \in Task
    BY <1>1, <1>2, <2>1, TaskMethodsTyped
  <2> QED BY <2>2, MarketplaceAssumption
<1> USE <1>1, <1>2, <1>3
    DEF AccountsAgree, TaskCanSubmit, TaskSubmit, HasStatus, Exists, Task
<1>4. TaskShaped(id)'
  BY DEF TaskShaped
<1>5. CustodyMatches(id)'
  BY DEF CustodyMatches, InCustody
<1>6. ResolutionAgrees(id)'
  BY DEF ResolutionAgrees
<1>7. AssignmentAgrees(id)'
  BY DEF AssignmentAgrees
<1>8. DeadlinesChained(id)'
  <2>1. task[id].funded_at \in Nat /\ task[id].submission_deadline \in Nat
    BY AccountsAssumption DEF TaskValid
  <2>2. resolution[id] # None => resolution[id].state = "Ready"
    BY DEF ResolutionAgrees, TaskResolution, ResolutionState, IInv, TypeOK
  <2> QED BY <2>1, <2>2, AccountsAssumption DEF DeadlinesChained
<1>9. AccountsAgree(id)'
  BY <1>4, <1>5, <1>6, <1>7, <1>8
<1> QED BY <1>9, OneTaskAtATime

(* The two instructions that pay a submission: pay_task and               *)
(* settle_task_after_timeout differ in their guards only.                 *)
LEMMA PaymentAgrees ==
    ASSUME IInv, NEW k \in Keys, NEW id \in TaskIds, NEW w \in Keys,
           \/ PayTask(k, id, w)
           \/ \E pass \in BOOLEAN : SettleTaskAfterTimeout(id, k, w, pass)
    PROVE  \A j \in TaskIds : AccountsAgree(j)'
<1>1. /\ Exists(id) /\ TaskCanPay(task[id])
      /\ task'[id] = TaskPay(task[id])
      /\ vault'[id] = None
      /\ UNCHANGED <<assignment, resolution, now>>
      /\ \A j \in TaskIds \ {id} : Unchanged(j)
  BY DEF PayTask, CanPayTask, SettleTaskAfterTimeout, CanSettleTaskAfterTimeout,
         TaskCanPayAfterTimeout, PayOut, SignedByCreator, Unchanged, IInv, TypeOK
<1>2. AccountsAgree(id) /\ task[id] \in Task
  BY <1>1, AgreeingTask
<1>3. TaskPay(task[id]) \in Task /\ TaskPay(task[id]) # None
  BY <1>2, MarketplaceAssumption DEF TaskPay, Task, TaskStatus
<1>4. resolution[id] # None => resolution[id].state = "Ready"
  BY <1>1, <1>2
  DEF AccountsAgree, ResolutionAgrees, TaskCanPay, HasStatus, TaskResolution,
      ResolutionState, IInv, TypeOK
<1> USE <1>1, <1>2, <1>3, <1>4
    DEF AccountsAgree, TaskCanPay, TaskPay, HasStatus, Exists, Task
<1>5. TaskShaped(id)'
  BY DEF TaskShaped
<1>6. CustodyMatches(id)'
  BY DEF CustodyMatches, InCustody
<1>7. ResolutionAgrees(id)'
  BY DEF ResolutionAgrees
<1>8. AssignmentAgrees(id)'
  BY DEF AssignmentAgrees
<1>9. DeadlinesChained(id)'
  BY DEF DeadlinesChained
<1>10. AccountsAgree(id)'
  BY <1>5, <1>6, <1>7, <1>8, <1>9
<1> QED BY <1>10, OneTaskAtATime

(* A refund closes the vault of a task without a submission. *)
LEMMA RefundAgrees ==
    ASSUME IInv, NEW k \in Keys, NEW id \in TaskIds, RefundTaskAfterTimeout(k, id)
    PROVE  \A j \in TaskIds : AccountsAgree(j)'
<1>1. /\ Exists(id) /\ TaskCanRefundAfterTimeout(task[id], now)
      /\ task'[id] = TaskRefundAfterTimeout(task[id])
      /\ vault'[id] = None
      /\ UNCHANGED <<assignment, resolution, now>>
      /\ \A j \in TaskIds \ {id} : Unchanged(j)
  BY DEF RefundTaskAfterTimeout, CanRefundTaskAfterTimeout, Return, SignedByCreator,
         Unchanged, IInv, TypeOK
<1>2. AccountsAgree(id) /\ task[id] \in Task
  BY <1>1, AgreeingTask
<1>3. TaskRefundAfterTimeout(task[id]) \in Task /\ TaskRefundAfterTimeout(task[id]) # None
  BY <1>2, MarketplaceAssumption DEF TaskRefundAfterTimeout, Task, TaskStatus
<1> USE <1>1, <1>2, <1>3
    DEF AccountsAgree, TaskCanRefundAfterTimeout, TaskRefundAfterTimeout, HasStatus,
        Exists, Task
<1>4. TaskShaped(id)'
  BY DEF TaskShaped
<1>5. CustodyMatches(id)'
  BY DEF CustodyMatches, InCustody
<1>6. ResolutionAgrees(id)'
  BY DEF ResolutionAgrees
<1>7. AssignmentAgrees(id)'
  BY DEF AssignmentAgrees
<1>8. DeadlinesChained(id)'
  BY DEF DeadlinesChained
<1>9. AccountsAgree(id)'
  BY <1>4, <1>5, <1>6, <1>7, <1>8
<1> QED BY <1>9, OneTaskAtATime

(* A rejection opens the dispute in both accounts, and the third window. *)
LEMMA RejectSubmissionAgrees ==
    ASSUME IInv, NEW k \in Keys, NEW id \in TaskIds, NEW reference \in Texts,
           RejectSubmission(k, id, reference)
    PROVE  \A j \in TaskIds : AccountsAgree(j)'
<1>1. /\ Exists(id) /\ TaskCanRejectSubmission(task[id], now)
      /\ resolution[id] # None
      /\ ResolutionCanOpenDispute(resolution[id], now, reference)
      /\ task'[id] = TaskRejectSubmission(task[id])
      /\ resolution'[id] = ResolutionOpenDispute(resolution[id], now, reference)
      /\ UNCHANGED <<assignment, vault, vaultBalance, now>>
      /\ \A j \in TaskIds \ {id} : Unchanged(j)
  BY DEF RejectSubmission, CanRejectSubmission, TaskResolutionValid, SignedByCreator,
         Unchanged, IInv, TypeOK
<1>2. /\ AccountsAgree(id) /\ task[id] \in Task /\ now \in Nat
      /\ resolution[id] \in TaskResolution
  BY <1>1, AgreeingTask
<1>3. /\ TaskRejectSubmission(task[id]) \in Task
      /\ TaskRejectSubmission(task[id]) # None
      /\ ResolutionOpenDispute(resolution[id], now, reference) # None
      /\ reference # None /\ now # None
  <2>1. now \in Timestamps
    BY DEF IInv, TypeOK
  <2>2. TaskRejectSubmission(task[id]) \in Task
    BY <1>2, <2>1, TaskMethodsTyped
  <2>3. ResolutionOpenDispute(resolution[id], now, reference) \in TaskResolution
    BY <1>1, <1>2, <2>1, ResolutionMethodsTyped
  <2> QED BY <1>2, <2>2, <2>3, AccountsAssumption, MarketplaceAssumption
<1> USE <1>1, <1>2, <1>3
    DEF AccountsAgree, TaskCanRejectSubmission, TaskRejectSubmission, HasStatus,
        Exists, Task
<1>4. TaskShaped(id)'
  BY DEF TaskShaped
<1>5. CustodyMatches(id)'
  BY DEF CustodyMatches, InCustody
<1>6. ResolutionAgrees(id)'
  BY DEF ResolutionAgrees, ResolutionCanOpenDispute, ResolutionOpenDispute,
         RequireDisputed, TaskResolution
<1>7. AssignmentAgrees(id)'
  BY DEF AssignmentAgrees
<1>8. DeadlinesChained(id)'
  <2>1. task[id].review_deadline \in Nat
    BY AccountsAssumption DEF TaskValid
  <2> QED BY <2>1, AccountsAssumption
      DEF DeadlinesChained, ResolutionOpenDispute, TaskResolution
<1>9. AccountsAgree(id)'
  BY <1>4, <1>5, <1>6, <1>7, <1>8
<1> QED BY <1>9, OneTaskAtATime

(* The three ways out of a dispute all go through settle_dispute. *)
LEMMA SettleDisputeAgrees ==
    ASSUME IInv, NEW id \in TaskIds, NEW outcome \in DisputeOutcome,
           NEW c \in Keys, NEW w \in Keys, DisputeAccountsValid(id, c, w),
           RequireDisputed(resolution[id]),
           ResolutionValid(ResolutionFinish(resolution[id], outcome)),
           CanSettleDispute(id, outcome), SettleDispute(id, outcome)
    PROVE  \A j \in TaskIds : AccountsAgree(j)'
<1>1. /\ Exists(id) /\ TaskCanResolveDispute(task[id], outcome)
      /\ resolution[id] # None
      /\ task'[id] = TaskResolveDispute(task[id], outcome)
      /\ resolution'[id] = ResolutionFinish(resolution[id], outcome)
      /\ vault'[id] = None
      /\ UNCHANGED <<assignment, now>>
      /\ \A j \in TaskIds \ {id} : Unchanged(j)
  BY DEF SettleDispute, CanSettleDispute, DisputeAccountsValid, TaskResolutionValid,
         PayOut, Return, Unchanged, IInv, TypeOK
<1>2. /\ AccountsAgree(id) /\ task[id] \in Task /\ now \in Nat
      /\ resolution[id] \in TaskResolution
  BY <1>1, AgreeingTask
<1>3. /\ TaskResolveDispute(task[id], outcome) \in Task
      /\ TaskResolveDispute(task[id], outcome) # None
      /\ ResolutionFinish(resolution[id], outcome) # None
  <2>1. now \in Timestamps
    BY DEF IInv, TypeOK
  <2>2. TaskResolveDispute(task[id], outcome) \in Task
    BY <1>2, <2>1, TaskMethodsTyped
  <2>3. ResolutionFinish(resolution[id], outcome) \in TaskResolution
    BY <1>2, <2>1, ResolutionMethodsTyped
  <2> QED BY <2>2, <2>3, MarketplaceAssumption
<1> USE <1>1, <1>2, <1>3
    DEF AccountsAgree, TaskCanResolveDispute, TaskResolveDispute, HasStatus, Exists, Task
<1>4. TaskShaped(id)'
  BY DEF TaskShaped
<1>5. CustodyMatches(id)'
  BY DEF CustodyMatches, InCustody
<1>6. ResolutionAgrees(id)'
  BY DEF ResolutionAgrees, ResolutionFinish, TaskResolution, DisputeOutcome
<1>7. AssignmentAgrees(id)'
  BY DEF AssignmentAgrees
<1>8. DeadlinesChained(id)'
  BY DEF DeadlinesChained, ResolutionFinish, RequireDisputed, TaskResolution,
         ResolutionAgrees
<1>9. AccountsAgree(id)'
  BY <1>4, <1>5, <1>6, <1>7, <1>8
<1> QED BY <1>9, OneTaskAtATime

(* Initially there are no accounts. *)
LEMMA InitAgrees == Init => IInv
<1> SUFFICES ASSUME Init PROVE IInv
  OBVIOUS
<1>1. TypeOK
  BY AccountsAssumption, MarketplaceAssumption DEF Init, TypeOK
<1>2. ASSUME NEW id \in TaskIds PROVE AccountsAgree(id)
  BY DEF Init, AccountsAgree, TaskShaped, CustodyMatches, ResolutionAgrees,
         AssignmentAgrees, DeadlinesChained, HasStatus, Exists
<1> QED BY <1>1, <1>2 DEF IInv

(* Every instruction and every step of the environment keeps the           *)
(* invariant.                                                              *)
LEMMA NextAgrees == IInv /\ [Next]_vars => IInv'
<1> SUFFICES ASSUME IInv, [Next]_vars PROVE IInv'
  OBVIOUS
<1>0. TypeOK' /\ TypeOK
  BY NextTyped DEF IInv
<1> DEFINE Goal == \A j \in TaskIds : AccountsAgree(j)'
<1>keep. ASSUME NEW j \in TaskIds,
             task'[j] = task[j], assignment'[j] = assignment[j],
             resolution'[j] = resolution[j], vault'[j] = vault[j],
             vaultBalance'[j] >= vaultBalance[j], now' >= now
      PROVE  AccountsAgree(j)'
  <2>1. vaultBalance'[j] \in Nat /\ now' \in Nat
    BY <1>0, AccountsAssumption DEF TypeOK
  <2> QED BY <1>0, <1>keep, <2>1, Untouched DEF IInv
<1>nat. /\ now \in Nat
      /\ \A j \in TaskIds : vaultBalance[j] \in Nat
  BY <1>0, AccountsAssumption DEF TypeOK
<1>1. ASSUME NEW k \in Creators, CreateCreatorProfile(k) PROVE Goal
  <2>1. UNCHANGED <<task, assignment, resolution, vault, vaultBalance, now>>
    BY <1>1 DEF CreateCreatorProfile, CanCreateCreatorProfile
  <2> QED BY <1>keep, <1>nat, <2>1
<1>2. ASSUME NEW k \in Creators, NEW n \in 1 .. MaxTaskCount,
             NEW title \in Texts, NEW description \in Texts, NEW r \in Rewards,
             CreateTask(k, n, title, description, r)
      PROVE  Goal
  BY <1>2, CreateTaskAgrees
<1>3. ASSUME NEW id \in TaskIds, Preparation(id) PROVE Goal
  BY <1>3, InitializeTaskResolutionAgrees, AssignWorkerAgrees, AcceptAssignmentAgrees,
     AcceptTaskAgrees, CancelTaskAgrees
  DEF Preparation
<1>4. ASSUME NEW id \in TaskIds, Delivery(id) PROVE Goal
  BY <1>4, FundTaskAgrees, SubmitTaskAgrees, RefundAgrees, PaymentAgrees DEF Delivery
<1>5. ASSUME NEW id \in TaskIds, Dispute(id) PROVE Goal
  <2>1. ASSUME NEW k \in Keys, NEW reference \in Texts,
               RejectSubmission(k, id, reference)
        PROVE  Goal
    BY <2>1, RejectSubmissionAgrees
  <2>2. ASSUME NEW k \in Keys, NEW w \in Keys,
               \/ \E outcome \in DisputeOutcome :
                    \/ \E a \in Keys : ResolveDispute(a, id, k, w, outcome)
                    \/ ResolveDisputeByAgreement(k, w, id, outcome)
               \/ SettleDisputeAfterTimeout(id, k, w)
        PROVE  Goal
    <3>1. PICK outcome \in DisputeOutcome :
             /\ DisputeAccountsValid(id, k, w)
             /\ RequireDisputed(resolution[id])
             /\ ResolutionValid(ResolutionFinish(resolution[id], outcome))
             /\ CanSettleDispute(id, outcome)
             /\ SettleDispute(id, outcome)
      BY <2>2 DEF ResolveDispute, CanResolveDispute, ResolveDisputeByAgreement,
                  CanResolveDisputeByAgreement, SettleDisputeAfterTimeout,
                  CanSettleDisputeAfterTimeout, DisputeOutcome, ResolutionCanResolve,
                  ResolutionCanResolveByAgreement, ResolutionCanSettleAfterTimeout
    <3> QED BY <3>1, SettleDisputeAgrees
  <2> QED BY <1>5, <2>1, <2>2 DEF Dispute
<1>6. ASSUME AdvanceClock PROVE Goal
  BY <1>6, <1>keep, <1>nat DEF AdvanceClock, accounts, money
<1>7. ASSUME NEW k \in Keys, NEW id \in TaskIds, NEW amount \in Donations,
             Donate(k, id, amount)
      PROVE  Goal
  <2>1. amount \in Nat
    BY MarketplaceAssumption
  <2>2. /\ UNCHANGED <<task, assignment, resolution, vault, now>>
        /\ vaultBalance' = [vaultBalance EXCEPT ![id] = @ + amount]
    BY <1>7 DEF Donate, accounts
  <2>3. ASSUME NEW j \in TaskIds PROVE vaultBalance'[j] >= vaultBalance[j]
    BY <1>0, <1>nat, <2>1, <2>2 DEF TypeOK
  <2> QED BY <1>keep, <1>nat, <2>2, <2>3
<1>8. ASSUME NEW k \in Keys, NEW to \in Keys, NEW amount \in Transfers,
             Transfer(k, to, amount)
      PROVE  Goal
  BY <1>8, <1>keep, <1>nat DEF Transfer, accounts
<1>9. ASSUME UNCHANGED vars PROVE Goal
  BY <1>9, <1>keep, <1>nat DEF vars
<1>10. Goal
  BY <1>1, <1>2, <1>3, <1>4, <1>5, <1>6, <1>7, <1>8, <1>9 DEF Next, Setup
<1> QED BY <1>0, <1>10 DEF IInv

(* The accounts of every task agree in every reachable state. *)
THEOREM AccountsAlwaysAgree == Spec => []IInv
BY InitAgrees, NextAgrees, PTL DEF Spec

(* No task account ever fails the validation its next instruction starts  *)
(* with, and no task has its creator for a worker.                        *)
THEOREM TaskShapeHolds == Spec => []TaskShape
<1>1. IInv => TaskShape
  BY DEF IInv, AccountsAgree, TaskShape
<1> QED BY <1>1, AccountsAlwaysAgree, PTL

(* Money is in custody exactly while the status says so, exactly the      *)
(* reward is owed, and the vault can pay it and its own rent.             *)
THEOREM CustodyHolds == Spec => []CustodyMatchesStatus
<1>1. IInv => CustodyMatchesStatus
  BY DEF IInv, AccountsAgree, CustodyMatchesStatus
<1> QED BY <1>1, AccountsAlwaysAgree, PTL

(* Task and TaskResolution never contradict each other. *)
THEOREM ResolutionAgreementHolds == Spec => []ResolutionAgreement
<1>1. IInv => ResolutionAgreement
  BY DEF IInv, AccountsAgree, ResolutionAgreement
<1> QED BY <1>1, AccountsAlwaysAgree, PTL

(* Task and WorkerAssignment never contradict each other. *)
THEOREM AssignmentAgreementHolds == Spec => []AssignmentAgreement
<1>1. IInv => AssignmentAgreement
  BY DEF IInv, AccountsAgree, AssignmentAgreement
<1> QED BY <1>1, AccountsAlwaysAgree, PTL

(* Every window was opened inside the window before it. *)
THEOREM DeadlineChainHolds == Spec => []DeadlineChain
<1>1. IInv => DeadlineChain
  BY DEF IInv, AccountsAgree, DeadlineChain
<1> QED BY <1>1, AccountsAlwaysAgree, PTL

(* Every escrow is due to somebody within the three windows together,     *)
(* however late in its window each party acts.                            *)
THEOREM LockIsAlwaysBounded == Spec => []LockIsBounded
<1>1. IInv => LockIsBounded
  <2> SUFFICES ASSUME IInv, NEW id \in TaskIds, HasStatus(id, InCustody)
               PROVE  LET t == task[id]
                      IN /\ t.submission_deadline < t.funded_at + LockLimit
                         /\ t.review_deadline # None =>
                              t.review_deadline < t.funded_at + LockLimit
                         /\ t.status = "Disputed" =>
                              resolution[id].arbitration_deadline
                                < t.funded_at + LockLimit
    BY DEF LockIsBounded
  <2>1. /\ Exists(id) /\ AccountsAgree(id) /\ task[id] \in Task
        /\ resolution[id] # None => resolution[id] \in TaskResolution
        /\ now \in Nat
    BY AgreeingTask DEF HasStatus
  <2>2. task[id].funded_at \in Nat
    BY <2>1, AccountsAssumption
    DEF AccountsAgree, TaskShaped, TaskValid, HasStatus, InCustody, Task
  <2>3. task[id].submission_deadline = task[id].funded_at + SubmissionTimeout
    BY <2>1, <2>2, AccountsAssumption DEF AccountsAgree, DeadlinesChained
  <2>4. task[id].submission_deadline < task[id].funded_at + LockLimit
    BY <2>2, <2>3, AccountsAssumption DEF LockLimit
  <2>5. ASSUME task[id].review_deadline # None
        PROVE  /\ task[id].review_deadline \in Nat
               /\ task[id].review_deadline
                    < task[id].funded_at + SubmissionTimeout + ReviewTimeout
    <3>1. task[id].review_deadline \in Nat
      BY <2>1, <2>5, AccountsAssumption DEF Task
    <3> QED BY <2>1, <2>2, <2>3, <2>5, <3>1, AccountsAssumption
        DEF AccountsAgree, DeadlinesChained
  <2>6. ASSUME task[id].status = "Disputed"
        PROVE  resolution[id].arbitration_deadline < task[id].funded_at + LockLimit
    <3>1. resolution[id] # None /\ resolution[id].state = "Disputed"
      BY <2>1, <2>6 DEF AccountsAgree, ResolutionAgrees, HasStatus
    <3>2. task[id].review_deadline # None
      BY <2>1, <2>6 DEF AccountsAgree, TaskShaped, TaskValid
    <3>3. /\ resolution[id].opened_at \in Int
          /\ resolution[id].opened_at < task[id].review_deadline
          /\ resolution[id].arbitration_deadline
               = resolution[id].opened_at + ArbitrationTimeout
      BY <2>1, <2>5, <3>1, <3>2, AccountsAssumption DEF AccountsAgree, DeadlinesChained
    <3> QED BY <2>2, <2>5, <3>2, <3>3, AccountsAssumption DEF LockLimit
  <2> QED BY <2>2, <2>4, <2>5, <2>6, AccountsAssumption DEF LockLimit
<1> QED BY <1>1, AccountsAlwaysAgree, PTL

(* Two parties who race at a deadline can never both win: the guards of   *)
(* each pair of racing instructions exclude each other in every state     *)
(* whose accounts are well typed.                                         *)
THEOREM RacesHaveOneWinner == Spec => []OneWinnerPerDeadline
<1>1. TypeOK => OneWinnerPerDeadline
  <2> SUFFICES ASSUME TypeOK, NEW id \in TaskIds
               PROVE  /\ ~(CanSubmitSomething(id) /\ CanRefund(id))
                      /\ ~(CanRejectSomehow(id) /\ CanSettleTask(id))
                      /\ ~(CanArbitrate(id) /\ CanSettleDisputeNow(id))
    BY DEF OneWinnerPerDeadline
  <2>1. now \in Nat
    BY AccountsAssumption DEF TypeOK
  <2>2. Exists(id) => /\ task[id].submission_deadline \in Option(Timestamps)
                      /\ task[id].review_deadline \in Option(Timestamps)
    BY DEF TypeOK, Exists, Task
  <2>3. resolution[id] # None =>
           resolution[id].arbitration_deadline \in Option(Timestamps)
    BY DEF TypeOK, TaskResolution
  <2>4. ~(CanSubmitSomething(id) /\ CanRefund(id))
    BY <2>1, <2>2, AccountsAssumption
    DEF CanSubmitSomething, CanSubmitTask, TaskCanSubmit, CanRefund, TaskValid,
        CanRefundTaskAfterTimeout, TaskCanRefundAfterTimeout
  <2>5. ~(CanRejectSomehow(id) /\ CanSettleTask(id))
    BY <2>1, <2>2, AccountsAssumption
    DEF CanRejectSomehow, CanRejectSubmission, TaskCanRejectSubmission, CanSettleTask,
        CanSettleTaskAfterTimeout, TaskCanPayAfterTimeout
  <2>6. ~(CanArbitrate(id) /\ CanSettleDisputeNow(id))
    BY <2>1, <2>3, AccountsAssumption
    DEF CanArbitrate, CanResolveDispute, ResolutionCanResolve, CanSettleDisputeNow,
        CanSettleDisputeAfterTimeout, ResolutionCanSettleAfterTimeout,
        DisputeAccountsValid, TaskResolutionValid
  <2> QED BY <2>4, <2>5, <2>6
<1> QED BY <1>1, TypeCorrectness, PTL
=============================================================================
