--------------------------- MODULE MarketplaceSteps ---------------------------
(***************************************************************************)
(* What any step of the task_marketplace program does to the accounts: the *)
(* steps of the environment leave them alone, and every instruction writes *)
(* the accounts of one task, in one of eleven ways.  The action properties *)
(* follow from this summary, and so do the refinements (in modules that    *)
(* extend this one): none of them looks at the sixteen instructions again. *)
(***************************************************************************)
EXTENDS MarketplaceProofs

USE DEF Option, Timestamps, Pubkeys

(* The accounts of a task after an instruction. *)
Writes(id, t, a, r) ==
    /\ t \in Task
    /\ task' = [task EXCEPT ![id] = t]
    /\ assignment' = [assignment EXCEPT ![id] = a]
    /\ resolution' = [resolution EXCEPT ![id] = r]
    /\ now' = now

KeepsMoney == UNCHANGED <<vault, vaultBalance, wallet>>

PaysRent(key, account) ==
    /\ UNCHANGED <<vault, vaultBalance>>
    /\ Rent[account] \in 0 .. wallet[key]
    /\ Spend(key, Rent[account])

Creates(id) ==
    /\ ~Exists(id)
    /\ \E r \in Rewards \ {0} : Writes(id, NewTask(id[1], r), assignment[id], resolution[id])
    /\ PaysRent(id[1], "task")
    /\ profile[id[1]] # None
    /\ id[2] = profile[id[1]] + 1
    /\ profile' = [profile EXCEPT ![id[1]] = id[2]]

NamesArbitrator(id) ==
    /\ HasStatus(id, {"Open"})
    /\ resolution[id] = None
    /\ \E p \in Keys \ {task[id].creator} :
          Writes(id, task[id], assignment[id], NewResolution(p))
    /\ PaysRent(task[id].creator, "resolution")

SelectsWorker(id) ==
    /\ HasStatus(id, {"Open"})
    /\ assignment[id] = None
    /\ \E w \in Keys \ {task[id].creator} :
          Writes(id, TaskAssignWorker(task[id]), NewAssignment(w), resolution[id])
    /\ PaysRent(task[id].creator, "assignment")

Hires(id) ==
    /\ HasStatus(id, {"Open", "Assigned"})
    /\ task[id].worker = None
    /\ \E w \in Keys \ {task[id].creator} :
          Writes(id, TaskAccept(task[id], w),
                 IF task[id].status = "Open" THEN assignment[id]
                 ELSE AssignmentAccept(assignment[id], now), resolution[id])
    /\ KeepsMoney

Cancels(id) ==
    /\ HasStatus(id, {"Open", "Assigned", "Accepted"})
    /\ Writes(id, TaskCancel(task[id]), assignment[id], resolution[id])
    /\ KeepsMoney

Funds(id) ==
    /\ HasStatus(id, {"Accepted"})
    /\ task[id].funded_at = None
    /\ task[id].submission_deadline = None
    /\ Writes(id, TaskFund(task[id], now), assignment[id], resolution[id])
    /\ vault[id] = None
    /\ vault' = [vault EXCEPT ![id] = task[id].reward_amount]
    /\ \E amount \in 0 .. wallet[task[id].creator] :
          /\ amount >= task[id].reward_amount
          /\ vaultBalance[id] + amount >= VaultRent + task[id].reward_amount
          /\ vaultBalance' = [vaultBalance EXCEPT ![id] = @ + amount]
          /\ Spend(task[id].creator, amount)

Submits(id) ==
    /\ HasStatus(id, {"Funded"})
    /\ \E reference \in ValidTexts :
          Writes(id, TaskSubmit(task[id], reference, now), assignment[id], resolution[id])
    /\ KeepsMoney

PaysSubmission(id) ==
    /\ HasStatus(id, {"Submitted"})
    /\ Writes(id, TaskPay(task[id]), assignment[id], resolution[id])
    /\ PayOut(id)

Refunds(id) ==
    /\ HasStatus(id, {"Funded"})
    /\ Writes(id, TaskRefundAfterTimeout(task[id]), assignment[id], resolution[id])
    /\ Return(id)

Rejects(id) ==
    /\ HasStatus(id, {"Submitted"})
    /\ resolution[id] # None
    /\ \E reference \in ValidTexts :
          Writes(id, TaskRejectSubmission(task[id]), assignment[id],
                 ResolutionOpenDispute(resolution[id], now, reference))
    /\ KeepsMoney

Settles(id) ==
    /\ HasStatus(id, {"Disputed"})
    /\ resolution[id] # None
    /\ \E outcome \in DisputeOutcome :
          /\ Writes(id, TaskResolveDispute(task[id], outcome), assignment[id],
                    ResolutionFinish(resolution[id], outcome))
          /\ IF outcome = "PayWorker" THEN PayOut(id) ELSE Return(id)

Instruction(id) ==
    \/ Creates(id)
    \/ /\ profile' = profile
       /\ \/ NamesArbitrator(id) \/ SelectsWorker(id) \/ Hires(id) \/ Cancels(id)
          \/ Funds(id) \/ Submits(id) \/ PaysSubmission(id) \/ Refunds(id)
          \/ Rejects(id) \/ Settles(id)

OpensProfile(c) ==
    /\ profile[c] = None
    /\ profile' = [profile EXCEPT ![c] = 0]
    /\ PaysRent(c, "profile")

Gives(k, id) ==
    \E amount \in 0 .. wallet[k] :
        /\ vaultBalance' = [vaultBalance EXCEPT ![id] = @ + amount]
        /\ Spend(k, amount)

Pays(k, to) ==
    /\ \E amount \in 0 .. wallet[k] :
          wallet' = [wallet EXCEPT ![k] = @ - amount, ![to] = @ + amount]
    /\ UNCHANGED vaultBalance

(* A creator pays for a profile, somebody sends lamports to a vault or to  *)
(* another key, the clock ticks, or nothing happens.                       *)
Background ==
    /\ UNCHANGED <<task, assignment, resolution, vault>>
    /\ \/ \E c \in Creators : OpensProfile(c)
       \/ /\ profile' = profile
          /\ \/ UNCHANGED <<vaultBalance, wallet>>
             \/ \E k \in Keys, id \in TaskIds : Gives(k, id)
             \/ \E k \in Keys : \E to \in Keys \ {k} : Pays(k, to)

-----------------------------------------------------------------------------
(***************************************************************************)
(* Every step is one of these                                              *)
(***************************************************************************)

(* A key that can spend has what it spends. *)
LEMMA SpendsWithin ==
    ASSUME TypeOK, NEW key \in Keys, NEW amount \in Nat, CanSpend(key, amount)
    PROVE  amount \in 0 .. wallet[key]
<1>1. wallet[key] \in Nat
  BY DEF TypeOK
<1> QED BY <1>1 DEF CanSpend

(* An account an instruction does not mention is written as it was. *)
LEMMA WritesUnchanged ==
    ASSUME TypeOK, NEW id \in TaskIds
    PROVE  /\ task = [task EXCEPT ![id] = task[id]]
           /\ assignment = [assignment EXCEPT ![id] = assignment[id]]
           /\ resolution = [resolution EXCEPT ![id] = resolution[id]]
BY DEF TypeOK

(* A profile is opened in the background; a task is created. *)
LEMMA SetupStep ==
    ASSUME IInv, Setup
    PROVE  Background \/ \E id \in TaskIds : Instruction(id)
<1>0. TypeOK
  BY DEF IInv
<1>1. ASSUME NEW k \in Creators, CreateCreatorProfile(k) PROVE Background
  <2>1. k \in Keys /\ Rent["profile"] \in 0 .. wallet[k]
    BY <1>0, <1>1, SpendsWithin, MarketplaceAssumption
    DEF CreateCreatorProfile, CanCreateCreatorProfile, PermanentAccounts
  <2> QED BY <1>1, <2>1 DEF CreateCreatorProfile, CanCreateCreatorProfile, Background, OpensProfile, PaysRent
<1>2. ASSUME NEW k \in Creators, NEW n \in 1 .. MaxTaskCount,
             NEW title \in Texts, NEW description \in Texts, NEW r \in Rewards,
             CreateTask(k, n, title, description, r)
      PROVE  \E id \in TaskIds : Instruction(id)
  <2> DEFINE id == <<k, n>>
  <2>1. id \in TaskIds /\ id[1] = k
    BY DEF TaskIds
  <2>2. k \in Keys /\ Rent["task"] \in 0 .. wallet[k]
    BY <1>0, <1>2, SpendsWithin, MarketplaceAssumption
    DEF CreateTask, CanCreateTask, PermanentAccounts
  <2> HIDE DEF id
  <2>0. NewTask(k, r) \in Task
    BY <2>2, MarketplaceAssumption DEF NewTask, Task, TaskStatus
  <2>3. /\ ~Exists(id) /\ r \in Rewards \ {0}
        /\ Writes(id, NewTask(k, r), assignment[id], resolution[id])
    BY <1>0, <1>2, <2>0, <2>1, WritesUnchanged DEF CreateTask, CanCreateTask, Writes, id
  <2>4. /\ PaysRent(k, "task")
        /\ profile[id[1]] # None /\ id[2] = profile[id[1]] + 1
        /\ profile' = [profile EXCEPT ![id[1]] = id[2]]
    BY <1>2, <2>1, <2>2 DEF CreateTask, CanCreateTask, PaysRent, id
  <2>5. Creates(id)
    BY <2>1, <2>3, <2>4 DEF Creates
  <2> QED BY <2>1, <2>5 DEF Instruction
<1> QED BY <1>1, <1>2 DEF Setup

(* The instructions before the escrow name an arbitrator, hire or          *)
(* cancel.                                                                 *)
LEMMA PreparationStep ==
    ASSUME IInv, NEW id \in TaskIds, Preparation(id)
    PROVE  Instruction(id)
<1>0. TypeOK /\ (Exists(id) => task[id] \in Task)
  BY DEF IInv, TypeOK, Exists
<1> USE <1>0, WritesUnchanged DEF HasStatus, Exists, Writes, KeepsMoney
<1>1. ASSUME NEW k \in Keys, NEW p \in Pubkeys, InitializeTaskResolution(k, id, p)
      PROVE  NamesArbitrator(id)
  <2>1. Rent["resolution"] \in 0 .. wallet[k]
    BY <1>1, SpendsWithin, MarketplaceAssumption
    DEF InitializeTaskResolution, CanInitializeTaskResolution, PermanentAccounts
  <2>2. p \in Keys \ {k} /\ k = task[id].creator
    BY <1>1 DEF InitializeTaskResolution, CanInitializeTaskResolution, SignedByCreator
  <2>3. PaysRent(k, "resolution")
    BY <1>1, <2>1 DEF InitializeTaskResolution, PaysRent
  <2>4. Writes(id, task[id], assignment[id], NewResolution(p))
    BY <1>1 DEF InitializeTaskResolution, CanInitializeTaskResolution, SignedByCreator
  <2> QED BY <1>1, <2>2, <2>3, <2>4
      DEF InitializeTaskResolution, CanInitializeTaskResolution, SignedByCreator,
          NamesArbitrator
<1>2. ASSUME NEW k \in Keys, NEW p \in Pubkeys, AssignWorker(k, id, p)
      PROVE  SelectsWorker(id)
  <2>1. Rent["assignment"] \in 0 .. wallet[k]
    BY <1>2, SpendsWithin, MarketplaceAssumption DEF AssignWorker, CanAssignWorker, PermanentAccounts
  <2>2. p \in Keys \ {k} /\ k = task[id].creator
    BY <1>2 DEF AssignWorker, CanAssignWorker, TaskCanAssignWorker, SignedByCreator
  <2>3. PaysRent(k, "assignment")
    BY <1>2, <2>1 DEF AssignWorker, CanAssignWorker, PaysRent
  <2>4. task[id] \in Task /\ TaskAssignWorker(task[id]) \in Task
    BY <1>2 DEF AssignWorker, CanAssignWorker, SignedByCreator, TaskAssignWorker, Task, TaskStatus
  <2>5. Writes(id, TaskAssignWorker(task[id]), NewAssignment(p), resolution[id])
    BY <1>2, <2>4 DEF AssignWorker, CanAssignWorker
  <2> QED BY <1>2, <2>2, <2>3, <2>5
      DEF AssignWorker, CanAssignWorker, TaskCanAssignWorker, SignedByCreator, SelectsWorker
<1>3. ASSUME NEW k \in Keys, AcceptAssignment(k, id) PROVE Hires(id)
  <2>1. task[id] \in Task /\ TaskAccept(task[id], k) \in Task
    BY <1>3 DEF AcceptAssignment, CanAcceptAssignment, TaskAccept, Task, TaskStatus
  <2> QED BY <1>3, <2>1 DEF AcceptAssignment, CanAcceptAssignment, TaskCanAcceptAssignment,
                            TaskAcceptAssignment, TaskAccept, Hires
<1>4. ASSUME NEW k \in Keys, AcceptTask(k, id) PROVE Hires(id)
  <2>1. task[id] \in Task /\ TaskAccept(task[id], k) \in Task
    BY <1>4 DEF AcceptTask, TaskAccept, Task, TaskStatus
  <2> QED BY <1>4, <2>1 DEF AcceptTask, TaskCanAccept, Hires
<1>5. ASSUME NEW k \in Keys, CancelTask(k, id) PROVE Cancels(id)
  <2>1. task[id] \in Task /\ TaskCancel(task[id]) \in Task
    BY <1>5 DEF CancelTask, SignedByCreator, TaskCancel, Task, TaskStatus
  <2> QED BY <1>5, <2>1 DEF CancelTask, TaskCanCancel, SignedByCreator, Cancels
<1>6. profile' = profile
  BY DEF Preparation, InitializeTaskResolution, AssignWorker, CanAssignWorker, AcceptAssignment, CanAcceptAssignment,
         AcceptTask, CancelTask
<1> QED BY <1>1, <1>2, <1>3, <1>4, <1>5, <1>6 DEF Preparation, Instruction

(* Those of the escrow fund, submit, pay or refund. *)
LEMMA DeliveryStep ==
    ASSUME IInv, NEW id \in TaskIds, Delivery(id)
    PROVE  Instruction(id)
<1>0. /\ TypeOK /\ now \in Timestamps
      /\ Exists(id) => task[id] \in Task
  BY DEF IInv, TypeOK, Exists
<1> USE <1>0, WritesUnchanged DEF HasStatus, Exists, Writes, KeepsMoney
<1>1. ASSUME NEW k \in Keys, FundTask(k, id) PROVE Funds(id)
  <2>1. /\ Exists(id) /\ k = task[id].creator /\ TaskCanFund(task[id], now)
        /\ task[id] \in Task
    BY <1>1 DEF FundTask, CanFundTask, SignedByCreator, TypeOK
  <2> DEFINE reward == task[id].reward_amount
             cost == FundingCost(vaultBalance[id], reward)
  <2>2. reward \in Nat /\ vaultBalance[id] \in Nat
    BY <2>1 DEF Task, TypeOK
  <2>3. /\ cost \in Nat /\ cost >= reward
        /\ vaultBalance[id] + cost >= VaultRent + reward
        /\ FundedBalance(vaultBalance[id], reward) = vaultBalance[id] + cost
    BY <2>2, EscrowAssumption DEF FundedBalance, FundingCost, InitShortfall
  <2>4. cost \in 0 .. wallet[k]
    BY <1>1, <2>3, SpendsWithin DEF FundTask, CanFundTask
  <2>5. /\ vaultBalance' = [vaultBalance EXCEPT ![id] = @ + cost]
        /\ Spend(k, cost)
    BY <1>1, <2>3 DEF FundTask, CanFundTask
  <2> HIDE DEF cost
  <2>6. \E amount \in 0 .. wallet[task[id].creator] :
           /\ amount >= task[id].reward_amount
           /\ vaultBalance[id] + amount >= VaultRent + task[id].reward_amount
           /\ vaultBalance' = [vaultBalance EXCEPT ![id] = @ + amount]
           /\ Spend(task[id].creator, amount)
    BY <2>1, <2>3, <2>4, <2>5
  <2>7. /\ Writes(id, TaskFund(task[id], now), assignment[id], resolution[id])
        /\ vault[id] = None
        /\ vault' = [vault EXCEPT ![id] = task[id].reward_amount]
    <3>1. TaskFund(task[id], now) \in Task
      BY <2>1, TaskMethodsTyped
    <3> QED BY <1>1, <3>1 DEF FundTask, CanFundTask
  <2>8. /\ HasStatus(id, {"Accepted"})
        /\ task[id].funded_at = None
        /\ task[id].submission_deadline = None
    BY <2>1 DEF TaskCanFund
  <2> HIDE DEF HasStatus, Writes
  <2> QED BY <2>6, <2>7, <2>8 DEF Funds
<1>2. ASSUME NEW k \in Keys, NEW reference \in Texts, SubmitTask(k, id, reference)
      PROVE  Submits(id)
  <2>1. task[id] \in Task /\ TaskCanSubmit(task[id], k, reference, now)
    BY <1>2 DEF SubmitTask, CanSubmitTask
  <2>2. TaskSubmit(task[id], reference, now) \in Task
    BY <2>1, TaskMethodsTyped
  <2>3. Writes(id, TaskSubmit(task[id], reference, now), assignment[id], resolution[id])
    BY <1>2, <2>2 DEF SubmitTask
  <2>4. reference \in ValidTexts /\ HasStatus(id, {"Funded"}) /\ KeepsMoney
    BY <1>2, <2>1 DEF SubmitTask, CanSubmitTask, TaskCanSubmit
  <2> HIDE DEF Writes, HasStatus, KeepsMoney
  <2> QED BY <2>3, <2>4 DEF Submits
<1>3. ASSUME NEW k \in Keys, RefundTaskAfterTimeout(k, id) PROVE Refunds(id)
  <2>1. task[id] \in Task /\ TaskCanRefundAfterTimeout(task[id], now)
    BY <1>3 DEF RefundTaskAfterTimeout, CanRefundTaskAfterTimeout, SignedByCreator
  <2>2. TaskRefundAfterTimeout(task[id]) \in Task
    BY <2>1, TaskMethodsTyped
  <2>3. Writes(id, TaskRefundAfterTimeout(task[id]), assignment[id], resolution[id])
    BY <1>3, <2>2 DEF RefundTaskAfterTimeout
  <2>4. HasStatus(id, {"Funded"}) /\ Return(id)
    BY <1>3, <2>1 DEF RefundTaskAfterTimeout, CanRefundTaskAfterTimeout, SignedByCreator,
                      TaskCanRefundAfterTimeout
  <2> QED BY <2>3, <2>4 DEF Refunds
<1>4. ASSUME NEW k \in Keys, NEW w \in Keys,
             \/ PayTask(k, id, w)
             \/ \E pass \in BOOLEAN : SettleTaskAfterTimeout(id, k, w, pass)
      PROVE  PaysSubmission(id)
  <2>1. task[id] \in Task /\ TaskCanPay(task[id])
    BY <1>4 DEF PayTask, CanPayTask, SettleTaskAfterTimeout, CanSettleTaskAfterTimeout,
                TaskCanPayAfterTimeout, SignedByCreator
  <2>2. TaskPay(task[id]) \in Task
    BY <2>1, TaskMethodsTyped
  <2>3. Writes(id, TaskPay(task[id]), assignment[id], resolution[id])
    BY <1>4, <2>2 DEF PayTask, SettleTaskAfterTimeout
  <2>4. HasStatus(id, {"Submitted"}) /\ PayOut(id)
    BY <1>4, <2>1 DEF PayTask, CanPayTask, SettleTaskAfterTimeout,
                      CanSettleTaskAfterTimeout, SignedByCreator, TaskCanPay
  <2> QED BY <2>3, <2>4 DEF PaysSubmission
<1>5. profile' = profile
  BY DEF Delivery, FundTask, CanFundTask, SubmitTask, RefundTaskAfterTimeout, PayTask,
         SettleTaskAfterTimeout
<1> QED BY <1>1, <1>2, <1>3, <1>4, <1>5 DEF Delivery, Instruction

(* Those of a dispute reject or settle. *)
LEMMA DisputeStep ==
    ASSUME IInv, NEW id \in TaskIds, Dispute(id)
    PROVE  Instruction(id)
<1>0. /\ TypeOK /\ now \in Timestamps
      /\ Exists(id) => task[id] \in Task
  BY DEF IInv, TypeOK, Exists
<1> USE <1>0, WritesUnchanged DEF HasStatus, Exists, Writes, KeepsMoney
<1>1. ASSUME NEW k \in Keys, NEW reference \in Texts, RejectSubmission(k, id, reference)
      PROVE  Rejects(id)
  <2>1. /\ task[id] \in Task /\ TaskCanRejectSubmission(task[id], now)
        /\ resolution[id] # None /\ reference \in ValidTexts
    BY <1>1 DEF RejectSubmission, CanRejectSubmission, ResolutionCanOpenDispute,
                TaskResolutionValid, SignedByCreator
  <2>2. TaskRejectSubmission(task[id]) \in Task
    BY <2>1, TaskMethodsTyped
  <2>3. Writes(id, TaskRejectSubmission(task[id]), assignment[id],
               ResolutionOpenDispute(resolution[id], now, reference))
    BY <1>1, <2>2 DEF RejectSubmission
  <2>4. HasStatus(id, {"Submitted"}) /\ KeepsMoney
    BY <1>1, <2>1 DEF RejectSubmission, CanRejectSubmission, SignedByCreator,
                      TaskCanRejectSubmission
  <2> HIDE DEF Writes, HasStatus, KeepsMoney
  <2> QED BY <2>1, <2>3, <2>4 DEF Rejects
<1>2. ASSUME NEW k \in Keys, NEW w \in Keys,
             \/ \E outcome \in DisputeOutcome :
                  \/ \E a \in Keys : ResolveDispute(a, id, k, w, outcome)
                  \/ ResolveDisputeByAgreement(k, w, id, outcome)
             \/ SettleDisputeAfterTimeout(id, k, w)
      PROVE  Settles(id)
  <2>1. PICK outcome \in DisputeOutcome :
           /\ DisputeAccountsValid(id, k, w)
           /\ CanSettleDispute(id, outcome)
           /\ SettleDispute(id, outcome)
    BY <1>2 DEF ResolveDispute, CanResolveDispute, ResolveDisputeByAgreement,
                CanResolveDisputeByAgreement, SettleDisputeAfterTimeout,
                CanSettleDisputeAfterTimeout, DisputeOutcome
  <2>2. /\ task[id] \in Task /\ TaskCanResolveDispute(task[id], outcome)
        /\ resolution[id] # None
    BY <2>1 DEF DisputeAccountsValid, TaskResolutionValid, CanSettleDispute
  <2>3. TaskResolveDispute(task[id], outcome) \in Task
    BY <2>2, TaskMethodsTyped
  <2>4. Writes(id, TaskResolveDispute(task[id], outcome), assignment[id],
               ResolutionFinish(resolution[id], outcome))
    BY <2>1, <2>3 DEF SettleDispute
  <2>5. HasStatus(id, {"Disputed"})
    BY <2>1, <2>2 DEF DisputeAccountsValid, TaskCanResolveDispute
  <2> HIDE DEF Writes, HasStatus
  <2> QED BY <2>1, <2>2, <2>4, <2>5 DEF SettleDispute, Settles
<1>3. profile' = profile
  BY DEF Dispute, RejectSubmission, ResolveDispute, ResolveDisputeByAgreement,
         SettleDisputeAfterTimeout, SettleDispute
<1> QED BY <1>1, <1>2, <1>3 DEF Dispute, Instruction

(* Every step of the program is one of the environment, or an instruction *)
(* that writes the accounts of one task in one of the eleven ways.        *)
LEMMA StepShape ==
    ASSUME IInv, [Next]_vars
    PROVE  Background \/ \E id \in TaskIds : Instruction(id)
<1>0. TypeOK
  BY DEF IInv
<1>1. ASSUME NEW k \in Keys, NEW id \in TaskIds, NEW amount \in Donations,
             Donate(k, id, amount)
      PROVE  Background
  <2>1. amount \in 0 .. wallet[k]
    BY <1>0, <1>1, SpendsWithin, MarketplaceAssumption DEF Donate
  <2> QED BY <1>1, <2>1 DEF Donate, Background, Gives, accounts
<1>2. ASSUME NEW k \in Keys, NEW to \in Keys, NEW amount \in Transfers,
             Transfer(k, to, amount)
      PROVE  Background
  <2>1. amount \in 0 .. wallet[k]
    BY <1>0, <1>2, SpendsWithin, MarketplaceAssumption DEF Transfer
  <2> QED BY <1>2, <2>1 DEF Transfer, Background, Pays, accounts
<1>3. ASSUME AdvanceClock \/ UNCHANGED vars PROVE Background
  BY <1>3 DEF AdvanceClock, Background, accounts, money, vars
<1> QED
  BY <1>1, <1>2, <1>3, SetupStep, PreparationStep, DeliveryStep, DisputeStep DEF Next

-----------------------------------------------------------------------------
(***************************************************************************)
(* One task at a time                                                      *)
(***************************************************************************)

(* The accounts of the written task, and of every other. *)
LEMMA Written ==
    ASSUME TypeOK, NEW id \in TaskIds, NEW t, NEW a, NEW r, Writes(id, t, a, r)
    PROVE  /\ task'[id] = t /\ assignment'[id] = a /\ resolution'[id] = r
           /\ task'[id] \in Task /\ task'[id] # None
           /\ \A j \in TaskIds \ {id} :
                 /\ task'[j] = task[j]
                 /\ assignment'[j] = assignment[j]
                 /\ resolution'[j] = resolution[j]
BY MarketplaceAssumption DEF Writes, TypeOK

(* What a release leaves at the vault addresses. *)
LEMMA Released ==
    ASSUME TypeOK, NEW id \in TaskIds, PayOut(id) \/ Return(id)
    PROVE  /\ vault'[id] = None /\ vaultBalance'[id] = 0
           /\ \A j \in TaskIds \ {id} :
                 vault'[j] = vault[j] /\ vaultBalance'[j] = vaultBalance[j]
BY DEF PayOut, Return, TypeOK

(* An instruction leaves the accounts of every other task alone. *)
LEMMA OthersUnchanged ==
    ASSUME TypeOK, NEW id \in TaskIds, Instruction(id), NEW j \in TaskIds \ {id}
    PROVE  Unchanged(j)
<1>1. /\ task'[j] = task[j]
      /\ assignment'[j] = assignment[j]
      /\ resolution'[j] = resolution[j]
  BY Written
  DEF Instruction, Creates, NamesArbitrator, SelectsWorker, Hires, Cancels, Funds,
      Submits, PaysSubmission, Refunds, Rejects, Settles
<1>2. CASE PaysSubmission(id) \/ Refunds(id) \/ Settles(id)
  <2>1. PayOut(id) \/ Return(id)
    BY <1>2 DEF PaysSubmission, Refunds, Settles
  <2> QED BY <1>1, <2>1, Released DEF Unchanged
<1>3. CASE Funds(id)
  BY <1>1, <1>3 DEF Funds, Unchanged, TypeOK
<1>4. CASE \/ Creates(id) \/ NamesArbitrator(id) \/ SelectsWorker(id) \/ Hires(id)
           \/ Cancels(id) \/ Submits(id) \/ Rejects(id)
  <2>1. UNCHANGED <<vault, vaultBalance>>
    BY <1>4 DEF Creates, NamesArbitrator, SelectsWorker, Hires, Cancels, Submits,
                Rejects, PaysRent, KeepsMoney
  <2> QED BY <1>1, <2>1 DEF Unchanged
<1> QED BY <1>2, <1>3, <1>4 DEF Instruction

(* A step of the environment takes nothing away from a vault address. *)
LEMMA BackgroundKeeps ==
    ASSUME TypeOK, Background, NEW j \in TaskIds
    PROVE  /\ task'[j] = task[j]
           /\ assignment'[j] = assignment[j]
           /\ resolution'[j] = resolution[j]
           /\ vault'[j] = vault[j]
           /\ vaultBalance'[j] >= vaultBalance[j]
<1>1. vaultBalance \in [TaskIds -> Nat] /\ wallet \in [Keys -> Nat]
  BY DEF TypeOK
<1>2. ASSUME NEW k \in Keys, NEW id \in TaskIds, NEW amount \in 0 .. wallet[k],
             vaultBalance' = [vaultBalance EXCEPT ![id] = @ + amount]
      PROVE  vaultBalance'[j] >= vaultBalance[j]
  <2>1. amount \in Nat
    BY <1>1
  <2> QED BY <1>1, <1>2, <2>1
<1>3. ASSUME UNCHANGED vaultBalance PROVE vaultBalance'[j] >= vaultBalance[j]
  BY <1>1, <1>3
<1> QED BY <1>2, <1>3 DEF Background, OpensProfile, Gives, Pays, PaysRent

(* What an action property says of one task need only be proved of a step *)
(* that leaves the task alone, and of the instruction that writes it.     *)
LEMMA StepOfTask ==
    ASSUME IInv, [Next]_vars, NEW j \in TaskIds
    PROVE  \/ Instruction(j)
           \/ /\ task'[j] = task[j]
              /\ assignment'[j] = assignment[j]
              /\ resolution'[j] = resolution[j]
              /\ vault'[j] = vault[j]
              /\ vaultBalance'[j] >= vaultBalance[j]
<1>1. TypeOK /\ vaultBalance[j] \in Nat
  BY DEF IInv, TypeOK
<1>2. ASSUME NEW id \in TaskIds \ {j}, Instruction(id)
      PROVE  Unchanged(j)
  BY <1>1, <1>2, OthersUnchanged
<1> QED BY <1>1, <1>2, StepShape, BackgroundKeeps DEF Unchanged

-----------------------------------------------------------------------------
(***************************************************************************)
(* Action properties                                                       *)
(***************************************************************************)

(* What TerminalIsFinal says of one task. *)
StaysSettled(id) ==
    /\ task'[id] = task[id]
    /\ assignment'[id] = assignment[id]
    /\ resolution'[id] = resolution[id]
    /\ vault'[id] = None
    /\ vaultBalance'[id] >= vaultBalance[id]

(* No instruction writes the accounts of a settled task. *)
LEMMA SettledStays ==
    ASSUME IInv, [Next]_vars, NEW id \in TaskIds, HasStatus(id, Terminal)
    PROVE  ~Instruction(id) /\ StaysSettled(id)
<1>1. ~Instruction(id)
  BY DEF HasStatus, Terminal, Instruction, Creates, NamesArbitrator, SelectsWorker, Hires,
         Cancels, Funds, Submits, PaysSubmission, Refunds, Rejects, Settles
<1>2. vault[id] = None
  BY DEF IInv, AccountsAgree, CustodyMatches, HasStatus, Terminal, InCustody
<1> QED BY <1>1, <1>2, StepOfTask DEF StaysSettled

(* No instruction writes an account of a task that is Paid, Refunded or    *)
(* Cancelled, or takes lamports from its vault address: nothing that was   *)
(* settled can be settled again.                                           *)
THEOREM TerminalTasksAreFinal == Spec => TerminalIsFinal
<1>1. IInv /\ [Next]_vars =>
        [\A id \in TaskIds : HasStatus(id, Terminal) => StaysSettled(id)]_vars
  BY SettledStays
<1> QED BY <1>1, AccountsAlwaysAgree, PTL DEF Spec, TerminalIsFinal, StaysSettled

(* What EvidenceIsWrittenOnce says of one task. *)
KeepsEvidence(id) ==
    /\ Exists(id) =>
         /\ SetOnce(task[id].worker, task'[id].worker)
         /\ SetOnce(task[id].submission_reference, task'[id].submission_reference)
         /\ SetOnce(task[id].funded_at, task'[id].funded_at)
         /\ SetOnce(task[id].submission_deadline, task'[id].submission_deadline)
         /\ SetOnce(task[id].review_deadline, task'[id].review_deadline)
    /\ resolution[id] # None =>
         /\ SetOnce(resolution[id].opened_at, resolution'[id].opened_at)
         /\ SetOnce(resolution[id].arbitration_deadline,
                    resolution'[id].arbitration_deadline)
         /\ SetOnce(resolution[id].rejection_reference,
                    resolution'[id].rejection_reference)
         /\ SetOnce(resolution[id].outcome, resolution'[id].outcome)

(* What EvidenceIsWrittenOnce says of one task. *)
LEMMA EvidenceKept ==
    ASSUME IInv, [Next]_vars, NEW id \in TaskIds
    PROVE  KeepsEvidence(id)
<1>0. /\ TypeOK
      /\ Exists(id) => AccountsAgree(id) /\ task[id] \in Task
      /\ resolution[id] # None => resolution[id] \in TaskResolution
  BY DEF IInv, TypeOK, Exists
<1>1. CASE task'[id] = task[id] /\ resolution'[id] = resolution[id]
  BY <1>1 DEF KeepsEvidence, SetOnce
<1>2. CASE Creates(id) \/ NamesArbitrator(id)
  BY <1>0, <1>2, Written DEF KeepsEvidence, Creates, NamesArbitrator, SetOnce
<1>3. CASE SelectsWorker(id) \/ Hires(id) \/ Cancels(id)
  <2>1. Exists(id) /\ resolution'[id] = resolution[id]
    BY <1>0, <1>3, Written DEF SelectsWorker, Hires, Cancels, HasStatus
  <2>2. \/ task'[id] = TaskAssignWorker(task[id])
        \/ task[id].worker = None /\ \E w \in Keys : task'[id] = TaskAccept(task[id], w)
        \/ task'[id] = TaskCancel(task[id])
    BY <1>0, <1>3, Written DEF SelectsWorker, Hires, Cancels
  <2> QED BY <1>0, <2>1, <2>2
      DEF KeepsEvidence, SetOnce, Task, TaskAssignWorker, TaskAccept, TaskCancel
<1>8. CASE Funds(id)
  <2>1. /\ Exists(id) /\ resolution'[id] = resolution[id]
        /\ task'[id] = TaskFund(task[id], now)
        /\ task[id].funded_at = None /\ task[id].submission_deadline = None
    BY <1>0, <1>8, Written DEF Funds, HasStatus
  <2> QED BY <1>0, <2>1 DEF KeepsEvidence, SetOnce, Task, TaskFund
<1>9. CASE Submits(id)
  <2>1. /\ task[id].submission_reference = None
        /\ task[id].review_deadline = None
    BY <1>0, <1>9 DEF Submits, HasStatus, AccountsAgree, TaskShaped, TaskValid
  <2>2. PICK reference \in ValidTexts :
           /\ task'[id] = TaskSubmit(task[id], reference, now)
           /\ resolution'[id] = resolution[id]
    BY <1>0, <1>9, Written DEF Submits
  <2> QED BY <1>0, <1>9, <2>1, <2>2
      DEF KeepsEvidence, Submits, SetOnce, HasStatus, Task, TaskSubmit
<1>4. CASE PaysSubmission(id) \/ Refunds(id)
  BY <1>0, <1>4, Written
  DEF KeepsEvidence, PaysSubmission, Refunds, SetOnce, HasStatus, Task, TaskPay,
      TaskRefundAfterTimeout
<1>5. CASE Rejects(id)
  <2>1. resolution[id] # None /\ resolution[id].state = "Ready"
    BY <1>0, <1>5 DEF Rejects, HasStatus, AccountsAgree, ResolutionAgrees,
                      TaskResolution, ResolutionState
  <2>2. /\ resolution[id].opened_at = None
        /\ resolution[id].arbitration_deadline = None
        /\ resolution[id].rejection_reference = None
        /\ resolution[id].outcome = None
    <3>1. resolution[id] = NewResolution(resolution[id].arbitration_authority)
      BY <2>1 DEF IInv, AccountsAgree, ResolutionAgrees
    <3> QED BY <3>1 DEF NewResolution
  <2>3. task'[id] = TaskRejectSubmission(task[id])
    BY <1>0, <1>5, Written DEF Rejects
  <2> QED BY <1>0, <2>2, <2>3 DEF KeepsEvidence, SetOnce, TaskRejectSubmission, Task
<1>6. CASE Settles(id)
  <2>1. PICK outcome \in DisputeOutcome :
           /\ task'[id] = TaskResolveDispute(task[id], outcome)
           /\ resolution'[id] = ResolutionFinish(resolution[id], outcome)
    BY <1>0, <1>6, Written DEF Settles
  <2>2. resolution[id] # None /\ resolution[id].outcome = None
    BY <1>0, <1>6 DEF Settles, HasStatus, AccountsAgree, ResolutionAgrees, RequireDisputed
  <2> QED BY <1>0, <2>1, <2>2
      DEF KeepsEvidence, SetOnce, TaskResolveDispute, ResolutionFinish, Task, TaskResolution
<1> QED BY <1>1, <1>2, <1>3, <1>4, <1>5, <1>6, <1>8, <1>9, StepOfTask
    DEF Instruction

(* Whoever signs what and when, nobody can rewrite the worker, the         *)
(* reference, a deadline or the outcome a dispute is decided on.           *)
THEOREM EvidenceIsNeverRewritten == Spec => EvidenceIsWrittenOnce
<1>1. IInv /\ [Next]_vars => [\A id \in TaskIds : KeepsEvidence(id)]_vars
  BY EvidenceKept
<1> QED BY <1>1, AccountsAlwaysAgree, PTL DEF Spec, EvidenceIsWrittenOnce, KeepsEvidence

(* What ArbitratorIsKnownBeforehand says of one task. *)
KeepsArbitrator(id) ==
    /\ resolution[id] # None =>
         resolution'[id].arbitration_authority = resolution[id].arbitration_authority
    /\ (Exists(id) /\ task[id].status # "Open") =>
         (resolution[id] = None <=> resolution'[id] = None)
    /\ (HasStatus(id, {"Submitted"}) /\ resolution[id] = None) =>
         task'[id].status \in {"Submitted", "Paid"}

(* What ArbitratorIsKnownBeforehand says of one task. *)
LEMMA ArbitratorKept ==
    ASSUME IInv, [Next]_vars, NEW id \in TaskIds
    PROVE  KeepsArbitrator(id)
<1>0. /\ TypeOK /\ IInv'
      /\ Exists(id) => AccountsAgree(id) /\ task[id] \in Task
      /\ resolution[id] # None => resolution[id] \in TaskResolution
  BY NextAgrees DEF IInv, TypeOK, Exists
<1>1. CASE task'[id] = task[id] /\ resolution'[id] = resolution[id]
  BY <1>1 DEF KeepsArbitrator, HasStatus
<1>2. CASE NamesArbitrator(id)
  BY <1>2 DEF KeepsArbitrator, NamesArbitrator, HasStatus
<1>3. CASE \/ Creates(id) \/ SelectsWorker(id) \/ Hires(id) \/ Cancels(id)
           \/ Funds(id) \/ Submits(id) \/ Refunds(id)
  <2>1. resolution'[id] = resolution[id] /\ ~HasStatus(id, {"Submitted"})
    BY <1>0, <1>3, Written
    DEF Creates, SelectsWorker, Hires, Cancels, Funds, Submits, Refunds, HasStatus
  <2> QED BY <2>1 DEF KeepsArbitrator
<1>4. CASE PaysSubmission(id)
  BY <1>0, <1>4, Written DEF KeepsArbitrator, PaysSubmission, HasStatus, Task, TaskPay
<1>5. CASE Rejects(id)
  <2>1. PICK reference \in ValidTexts :
           resolution'[id] = ResolutionOpenDispute(resolution[id], now, reference)
    BY <1>0, <1>5, Written DEF Rejects
  <2>2. resolution'[id] # None
    <3>1. task'[id] = TaskRejectSubmission(task[id]) /\ task'[id] # None
      BY <1>0, <1>5, Written DEF Rejects
    <3>2. HasStatus(id, {"Disputed"})'
      BY <1>0, <1>5, <3>1
      DEF Rejects, HasStatus, Exists, TaskRejectSubmission, Task
    <3> QED BY <1>0, <3>2 DEF IInv, AccountsAgree, ResolutionAgrees, HasStatus
  <2>3. resolution'[id].arbitration_authority = resolution[id].arbitration_authority
    BY <1>0, <1>5, <2>1 DEF Rejects, ResolutionOpenDispute, TaskResolution
  <2> QED BY <1>5, <2>2, <2>3 DEF KeepsArbitrator, Rejects
<1>6. CASE Settles(id)
  <2>1. PICK outcome \in DisputeOutcome :
           resolution'[id] = ResolutionFinish(resolution[id], outcome)
    BY <1>0, <1>6, Written DEF Settles
  <2>2. resolution[id] # None /\ resolution'[id] \in TaskResolution
    BY <1>0, <1>6, <2>1, ResolutionMethodsTyped DEF Settles, TypeOK
  <2>3. resolution'[id].arbitration_authority = resolution[id].arbitration_authority
    BY <1>0, <2>1, <2>2 DEF ResolutionFinish, TaskResolution
  <2> QED BY <1>6, <2>2, <2>3, MarketplaceAssumption DEF KeepsArbitrator, Settles, HasStatus
<1> QED BY <1>1, <1>2, <1>3, <1>4, <1>5, <1>6, StepOfTask DEF Instruction

(* The arbitrator of a task is the one its worker could see when he took  *)
(* it, and a task without one cannot be disputed.                         *)
THEOREM ArbitratorIsAlwaysKnown == Spec => ArbitratorIsKnownBeforehand
<1>1. IInv /\ [Next]_vars => [\A id \in TaskIds : KeepsArbitrator(id)]_vars
  BY ArbitratorKept
<1> QED BY <1>1, AccountsAlwaysAgree, PTL
    DEF Spec, ArbitratorIsKnownBeforehand, KeepsArbitrator

(* What SettlementMatchesStatus says of one task. *)
SettlesByStatus(id) ==
    LET t == task[id]
        reward == IF task'[id].status = "Paid" THEN t.reward_amount ELSE 0
    IN /\ task'[id].status \in Terminal
       /\ vaultBalance'[id] = 0
       /\ wallet' = [wallet EXCEPT
                       ![t.worker] = @ + reward,
                       ![t.creator] = @ + (vaultBalance[id] - reward)]

(* What SettlementMatchesStatus says of one task. *)
LEMMA SettledByStatus ==
    ASSUME IInv, [Next]_vars, NEW id \in TaskIds, vaultBalance'[id] < vaultBalance[id]
    PROVE  SettlesByStatus(id)
<1>0. /\ TypeOK /\ TypeOK'
      /\ vaultBalance[id] \in Nat /\ vaultBalance'[id] \in Nat
      /\ wallet \in [Keys -> Nat]
  BY NextTyped DEF IInv, TypeOK
<1>1. PaysSubmission(id) \/ Refunds(id) \/ Settles(id)
  <2>1. Instruction(id)
    BY <1>0, StepOfTask
  <2>2. ASSUME Funds(id) PROVE FALSE
    <3>1. wallet[task[id].creator] \in Nat
      BY <1>0, <2>2 DEF Funds, HasStatus, Exists, TypeOK, Task
    <3>2. PICK amount \in 0 .. wallet[task[id].creator] :
             vaultBalance' = [vaultBalance EXCEPT ![id] = @ + amount]
      BY <2>2 DEF Funds
    <3> QED BY <1>0, <3>1, <3>2 DEF TypeOK
  <2>3. ASSUME UNCHANGED vaultBalance PROVE FALSE
    BY <1>0, <2>3
  <2> QED BY <2>1, <2>2, <2>3
      DEF Instruction, Creates, NamesArbitrator, SelectsWorker, Hires, Cancels, Submits,
          Rejects, PaysRent, KeepsMoney
<1>2. /\ HasStatus(id, InCustody) /\ AccountsAgree(id) /\ task[id] \in Task
  BY <1>0, <1>1
  DEF PaysSubmission, Refunds, Settles, HasStatus, InCustody, IInv, TypeOK, Exists
<1>3. /\ task[id].worker \in Keys /\ task[id].creator \in Keys
      /\ vault[id] = task[id].reward_amount
  BY <1>2 DEF AccountsAgree, TaskShaped, TaskValid, CustodyMatches, HasStatus, InCustody,
              Task
<1>4. ASSUME PayOut(id), task'[id].status = "Paid" PROVE SettlesByStatus(id)
  BY <1>0, <1>3, <1>4, Released DEF PayOut, WorkerAmount, Terminal, SettlesByStatus
<1>5. ASSUME Return(id), task'[id].status \in Terminal \ {"Paid"} PROVE SettlesByStatus(id)
  <2>1. wallet' = [wallet EXCEPT ![task[id].creator] = @ + vaultBalance[id]]
    BY <1>5 DEF Return
  <2>2. /\ wallet = [wallet EXCEPT ![task[id].worker] = @ + 0]
        /\ vaultBalance[id] - 0 = vaultBalance[id]
    BY <1>0, <1>3
  <2>3. vaultBalance'[id] = 0
    BY <1>0, <1>5, Released
  <2>4. wallet' = [wallet EXCEPT ![task[id].worker] = @ + 0,
                                 ![task[id].creator] = @ + (vaultBalance[id] - 0)]
    BY <2>1, <2>2
  <2> QED BY <1>5, <2>3, <2>4 DEF SettlesByStatus
<1>6. CASE PaysSubmission(id)
  <2>1. task'[id] = TaskPay(task[id]) /\ PayOut(id)
    BY <1>0, <1>6, Written DEF PaysSubmission
  <2> QED BY <1>2, <1>4, <2>1 DEF TaskPay, Task
<1>7. CASE Refunds(id)
  <2>1. task'[id] = TaskRefundAfterTimeout(task[id]) /\ Return(id)
    BY <1>0, <1>7, Written DEF Refunds
  <2> QED BY <1>2, <1>5, <2>1 DEF TaskRefundAfterTimeout, Task, Terminal
<1>8. CASE Settles(id)
  <2>1. PICK outcome \in DisputeOutcome :
           /\ task'[id] = TaskResolveDispute(task[id], outcome)
           /\ IF outcome = "PayWorker" THEN PayOut(id) ELSE Return(id)
    BY <1>0, <1>8, Written DEF Settles
  <2> QED BY <1>2, <1>4, <1>5, <2>1 DEF TaskResolveDispute, Task, Terminal, DisputeOutcome
<1> QED BY <1>1, <1>6, <1>7, <1>8

(* Lamports leave a vault only with the step that ends its task, all at   *)
(* once, and to the party the final status names.                         *)
THEOREM SettlementsMatchStatus == Spec => SettlementMatchesStatus
<1>1. IInv /\ [Next]_vars =>
        [\A id \in TaskIds : vaultBalance'[id] < vaultBalance[id] => SettlesByStatus(id)]_vars
  BY SettledByStatus
<1> QED BY <1>1, AccountsAlwaysAgree, PTL
    DEF Spec, SettlementMatchesStatus, SettlesByStatus

-----------------------------------------------------------------------------
(***************************************************************************)
(* Numbering                                                               *)
(***************************************************************************)

(* Accounts of a task are created once and never closed. *)
LEMMA TasksStay ==
    ASSUME IInv, NEW id \in TaskIds, Instruction(id), ~Creates(id)
    PROVE  \A j \in TaskIds : Exists(j)' <=> Exists(j)
<1>0. TypeOK
  BY DEF IInv
<1>1. Exists(id) /\ Exists(id)'
  BY <1>0, Written
  DEF Instruction, NamesArbitrator, SelectsWorker, Hires, Cancels, Funds, Submits,
      PaysSubmission, Refunds, Rejects, Settles, HasStatus, Exists
<1>2. \A j \in TaskIds \ {id} : Exists(j)' <=> Exists(j)
  BY <1>0, OthersUnchanged DEF Unchanged, Exists
<1> QED BY <1>1, <1>2

(* A task number is free until the count reaches it: two creations that    *)
(* read the same count cannot both succeed, none leaves a gap, and no      *)
(* number is used twice.                                                   *)
THEOREM NumberingIsContiguous == Spec => []ContiguousNumbering
<1> DEFINE Numbered(c, n) == Exists(<<c, n>>) <=> (profile[c] # None /\ n <= profile[c])
<1>1. Init => ContiguousNumbering
  BY DEF Init, ContiguousNumbering, Exists, TaskIds
<1>2. IInv /\ ContiguousNumbering /\ [Next]_vars => ContiguousNumbering'
  <2>1. SUFFICES ASSUME IInv, ContiguousNumbering, [Next]_vars,
                        NEW c \in Creators, NEW n \in 1 .. MaxTaskCount
                 PROVE  Numbered(c, n)'
    BY DEF ContiguousNumbering
  <2> DEFINE id == <<c, n>>
  <2>2. /\ TypeOK /\ Numbered(c, n) /\ id \in TaskIds /\ n \in Nat /\ n >= 1
        /\ profile \in [Creators -> Option(0 .. MaxTaskCount)]
        /\ profile[c] # None => profile[c] \in Nat
    BY <2>1, MarketplaceAssumption DEF ContiguousNumbering, IInv, TypeOK, TaskIds
  <2>3. ASSUME Exists(id)' <=> Exists(id), profile'[c] = profile[c]
        PROVE  Numbered(c, n)'
    BY <2>2, <2>3
  <2>4. CASE Background
    <3>1. Exists(id)' <=> Exists(id)
      BY <2>4 DEF Background, Exists
    <3>2. CASE profile' = profile
      BY <2>3, <3>1, <3>2
    <3>3. ASSUME NEW d \in Creators, OpensProfile(d) PROVE Numbered(c, n)'
      <4>1. CASE c = d
        <5>1. profile[c] = None /\ profile'[c] = 0
          BY <2>2, <3>3, <4>1 DEF OpensProfile
        <5> QED BY <2>2, <3>1, <5>1
      <4>2. CASE c # d
        BY <2>2, <2>3, <3>1, <3>3, <4>2 DEF OpensProfile
      <4> QED BY <4>1, <4>2
    <3> QED BY <2>4, <3>2, <3>3 DEF Background
  <2>5. ASSUME NEW j \in TaskIds, Instruction(j) PROVE Numbered(c, n)'
    <3>1. CASE ~Creates(j)
      BY <2>1, <2>2, <2>3, <2>5, <3>1, TasksStay DEF Instruction
    <3>2. CASE Creates(j)
      <4>1. PICK d \in Creators, m \in 1 .. MaxTaskCount : j = <<d, m>>
        BY DEF TaskIds
      <4>2. /\ profile[d] # None /\ m = profile[d] + 1 /\ m \in Nat
            /\ profile' = [profile EXCEPT ![d] = m]
        <5>1. j[1] = d /\ j[2] = m
          BY <4>1
        <5>2. /\ profile[d] # None /\ m = profile[d] + 1
              /\ profile' = [profile EXCEPT ![d] = m]
          BY <3>2, <5>1 DEF Creates
        <5> QED BY <5>2, MarketplaceAssumption
      <4>3. /\ Exists(j)'
            /\ \A i \in TaskIds \ {j} : Exists(i)' <=> Exists(i)
        BY <2>2, <2>5, <3>2, Written, OthersUnchanged DEF Creates, Unchanged, Exists
      <4>4. CASE c # d
        <5>1. id # j
          BY <4>1, <4>4
        <5> QED BY <2>2, <2>3, <4>2, <4>3, <4>4, <5>1
      <4>5. CASE c = d
        <5>1. profile'[c] = m /\ m # None
          BY <2>2, <4>2, <4>5, AccountsAssumption
        <5>2. CASE n = m
          BY <2>2, <4>1, <4>3, <4>5, <5>1, <5>2
        <5>3. CASE n # m
          <6>1. id # j
            BY <4>1, <5>3
          <6>2. n <= m <=> n <= profile[c]
            BY <2>2, <4>2, <4>5, <5>3
          <6> QED BY <2>2, <4>2, <4>3, <4>5, <5>1, <6>1, <6>2
        <5> QED BY <5>2, <5>3
      <4> QED BY <4>4, <4>5
    <3> QED BY <3>1, <3>2
  <2> QED BY <2>1, <2>4, <2>5, StepShape
<1> QED BY <1>1, <1>2, AccountsAlwaysAgree, PTL DEF Spec
=============================================================================
