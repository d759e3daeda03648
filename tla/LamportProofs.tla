----------------------------- MODULE LamportProofs -----------------------------
(***************************************************************************)
(* No instruction creates or destroys a lamport, and no escrow is blocked  *)
(* by the balances that its release would leave.  LamportsConserved counts *)
(* lamports as elements of a finite set, so that the sum over all accounts *)
(* needs no recursion: changing the balance of one address replaces one    *)
(* purse of disjoint lamports by another, and the cardinalities of finite  *)
(* sets give the new total.                                                *)
(***************************************************************************)
EXTENDS MarketplaceSteps, FiniteSetTheorems

USE DEF Option, Timestamps, Pubkeys

-----------------------------------------------------------------------------
(***************************************************************************)
(* Totals                                                                  *)
(***************************************************************************)

(* An address holds as many lamports as its balance says. *)
LEMMA PurseSize ==
    ASSUME NEW h, NEW n \in Nat
    PROVE  /\ IsFiniteSet({h} \X (1 .. n))
           /\ Cardinality({h} \X (1 .. n)) = n
<1>1. IsFiniteSet({h}) /\ Cardinality({h}) = 1
  BY FS_Singleton
<1>2. IsFiniteSet(1 .. n) /\ Cardinality(1 .. n) = n
  BY FS_Interval
<1>3. /\ IsFiniteSet({h} \X (1 .. n))
      /\ Cardinality({h} \X (1 .. n)) = Cardinality({h}) * Cardinality(1 .. n)
  BY <1>1, <1>2, FS_Product
<1> QED BY <1>1, <1>2, <1>3

(* Finitely many addresses hold finitely many lamports. *)
LEMMA LamportsFinite ==
    ASSUME NEW S, IsFiniteSet(S), NEW f \in [S -> Nat]
    PROVE  IsFiniteSet(Lamports(f)) /\ Total(f) \in Nat
<1> DEFINE T == {{h} \X (1 .. f[h]) : h \in S}
           g == [h \in S |-> {h} \X (1 .. f[h])]
<1>1. g \in Surjection(S, T)
  BY DEF Surjection
<1>2. IsFiniteSet(T)
  BY <1>1, FS_Surjection
<1>3. \A h \in S : IsFiniteSet({h} \X (1 .. f[h]))
  <2>1. \A h \in S : f[h] \in Nat
    OBVIOUS
  <2> QED BY <2>1, PurseSize
<1>4. IsFiniteSet(UNION T)
  BY <1>2, <1>3, FS_UNION
<1>5. Lamports(f) = UNION T
  BY DEF Lamports, Purse
<1> QED BY <1>4, <1>5, FS_CardinalityType DEF Total

(* A new balance at one address changes the total by the difference. *)
LEMMA TotalUpdate ==
    ASSUME NEW S, IsFiniteSet(S), NEW f \in [S -> Nat], NEW h \in S, NEW n \in Nat
    PROVE  Total([f EXCEPT ![h] = n]) = Total(f) - f[h] + n
<1> DEFINE g == [f EXCEPT ![h] = n]
           rest == Lamports(f) \ Purse(f, h)
<1>1. /\ Lamports(f) = rest \cup Purse(f, h)
      /\ rest \cap Purse(f, h) = {}
  BY DEF Lamports, Purse
<1>2. /\ Lamports(g) = rest \cup Purse(g, h)
      /\ rest \cap Purse(g, h) = {}
  BY DEF Lamports, Purse
<1>3. /\ IsFiniteSet(Purse(f, h)) /\ Cardinality(Purse(f, h)) = f[h]
      /\ IsFiniteSet(Purse(g, h)) /\ Cardinality(Purse(g, h)) = n
  BY PurseSize DEF Purse
<1>4. IsFiniteSet(rest) /\ Cardinality(rest) \in Nat
  BY LamportsFinite, FS_Difference, FS_CardinalityType
<1> HIDE DEF rest, g
<1>5. Cardinality({}) = 0
  BY FS_EmptySet
<1>6. /\ Cardinality(rest \cup Purse(f, h))
            = Cardinality(rest) + Cardinality(Purse(f, h)) - Cardinality({})
      /\ Cardinality(rest \cup Purse(g, h))
            = Cardinality(rest) + Cardinality(Purse(g, h)) - Cardinality({})
  BY <1>1, <1>2, <1>3, <1>4, FS_Union
<1>7. Total(f) = Cardinality(rest) + f[h] /\ Total(g) = Cardinality(rest) + n
  BY <1>1, <1>2, <1>3, <1>4, <1>5, <1>6 DEF Total
<1> QED BY <1>4, <1>7 DEF g

(* Nobody holds more than there is. *)
LEMMA TotalBounds ==
    ASSUME NEW S, IsFiniteSet(S), NEW f \in [S -> Nat], NEW h \in S
    PROVE  f[h] <= Total(f)
<1>1. Purse(f, h) \subseteq Lamports(f)
  BY DEF Purse, Lamports
<1>2. Cardinality(Purse(f, h)) <= Cardinality(Lamports(f))
  BY <1>1, LamportsFinite, FS_Subset
<1> QED BY <1>2, PurseSize DEF Purse, Total

-----------------------------------------------------------------------------
(***************************************************************************)
(* What wallets, tasks and profiles hold                                   *)
(***************************************************************************)

(* Finitely many keys make finitely many tasks. *)
LEMMA HoldersFinite == IsFiniteSet(TaskIds) /\ IsFiniteSet(Creators)
<1>1. IsFiniteSet(Creators)
  BY SupplyAssumption, MarketplaceAssumption, FS_Subset
<1>2. IsFiniteSet(1 .. MaxTaskCount)
  BY MarketplaceAssumption, FS_Interval
<1> QED BY <1>1, <1>2, FS_Product DEF TaskIds

(* Every address holds a natural number of lamports. *)
LEMMA LamportsTyped ==
    ASSUME TypeOK
    PROVE  /\ wallet \in [Keys -> Nat]
           /\ [id \in TaskIds |-> TaskLamports(id)] \in [TaskIds -> Nat]
           /\ [c \in Creators |-> ProfileLamports(c)] \in [Creators -> Nat]
<1>1. ASSUME NEW id \in TaskIds PROVE TaskLamports(id) \in Nat
  BY MarketplaceAssumption DEF TypeOK, TaskLamports, RentIf, PermanentAccounts
<1>2. ASSUME NEW c \in Creators PROVE ProfileLamports(c) \in Nat
  BY MarketplaceAssumption DEF ProfileLamports, RentIf, PermanentAccounts
<1> QED BY <1>1, <1>2 DEF TypeOK

(* The profiles hold what they held if none was opened. *)
LEMMA ProfilesKeepLamports ==
    ASSUME \A c \in Creators : profile'[c] = None <=> profile[c] = None
    PROVE  Total([c \in Creators |-> ProfileLamports(c)])'
             = Total([c \in Creators |-> ProfileLamports(c)])
<1>1. \A c \in Creators : ProfileLamports(c)' = ProfileLamports(c)
  BY DEF ProfileLamports
<1>2. [c \in Creators |-> ProfileLamports(c)]' = [c \in Creators |-> ProfileLamports(c)]
  BY <1>1
<1> QED BY <1>2

(* A step that touches one task changes the total of the tasks by what *)
(* that task gains.                                                    *)
LEMMA TaskGains ==
    ASSUME TypeOK, TypeOK', NEW id \in TaskIds,
           \A j \in TaskIds \ {id} : TaskLamports(j)' = TaskLamports(j)
    PROVE  Total([i \in TaskIds |-> TaskLamports(i)])'
             = Total([i \in TaskIds |-> TaskLamports(i)])
                 - TaskLamports(id) + TaskLamports(id)'
<1> DEFINE f == [i \in TaskIds |-> TaskLamports(i)]
           n == TaskLamports(id)'
<1>1. f \in [TaskIds -> Nat] /\ n \in Nat
  <2>1. n \in Nat
    BY MarketplaceAssumption DEF TypeOK, TaskLamports, RentIf, PermanentAccounts
  <2> QED BY <2>1, LamportsTyped
<1>2. f' = [f EXCEPT ![id] = n] /\ f[id] = TaskLamports(id)
  OBVIOUS
<1>3. Total(f)' = Total([f EXCEPT ![id] = n])
  BY <1>2
<1> HIDE DEF f, n
<1>4. Total([f EXCEPT ![id] = n]) = Total(f) - f[id] + n
  BY <1>1, TotalUpdate, HoldersFinite
<1> QED BY <1>2, <1>3, <1>4 DEF f, n

(* A payment by one key, and payments to two distinct keys. *)
LEMMA WalletPays ==
    ASSUME TypeOK, NEW key \in Keys, NEW amount \in 0 .. wallet[key], Spend(key, amount)
    PROVE  Total(wallet)' = Total(wallet) - amount
<1>1. /\ wallet \in [Keys -> Nat] /\ IsFiniteSet(Keys)
      /\ wallet[key] \in Nat /\ amount \in Nat /\ wallet[key] - amount \in Nat
  BY SupplyAssumption DEF TypeOK
<1>2. Total([wallet EXCEPT ![key] = wallet[key] - amount])
        = Total(wallet) - wallet[key] + (wallet[key] - amount)
  BY <1>1, TotalUpdate
<1>3. Total(wallet)' = Total([wallet EXCEPT ![key] = wallet[key] - amount])
  BY DEF Spend
<1>4. Total(wallet) \in Nat
  BY <1>1, LamportsFinite
<1> QED BY <1>1, <1>2, <1>3, <1>4

(* Two wallets that gain add what they gain to the total. *)
LEMMA WalletsGain ==
    ASSUME TypeOK, NEW w \in Keys, NEW c \in Keys \ {w}, NEW m \in Nat, NEW n \in Nat
    PROVE  Total([wallet EXCEPT ![w] = @ + m, ![c] = @ + n]) = Total(wallet) + m + n
<1> DEFINE f == [wallet EXCEPT ![w] = wallet[w] + m]
<1>1. /\ wallet \in [Keys -> Nat] /\ IsFiniteSet(Keys)
      /\ wallet[w] \in Nat /\ wallet[w] + m \in Nat /\ Total(wallet) \in Nat
  BY SupplyAssumption, LamportsFinite DEF TypeOK
<1>2. Total(f) = Total(wallet) - wallet[w] + (wallet[w] + m)
  BY <1>1, TotalUpdate
<1>3. f \in [Keys -> Nat] /\ c \in Keys /\ f[c] \in Nat /\ f[c] + n \in Nat
  BY <1>1
<1>4. [wallet EXCEPT ![w] = @ + m, ![c] = @ + n] = [f EXCEPT ![c] = f[c] + n]
  BY <1>1
<1> HIDE DEF f
<1>5. \A k \in Nat : Total([f EXCEPT ![c] = k]) = Total(f) - f[c] + k
  BY <1>1, <1>3, TotalUpdate
<1>6. Total([f EXCEPT ![c] = f[c] + n]) = Total(f) - f[c] + (f[c] + n)
  BY <1>3, <1>5
<1> QED BY <1>1, <1>2, <1>3, <1>4, <1>6

(* Lamports that a wallet pays into the accounts of a task stay in sight. *)
LEMMA PaidIntoTask ==
    ASSUME TypeOK, TypeOK', NEW id \in TaskIds, NEW key \in Keys,
           NEW amount \in 0 .. wallet[key], Spend(key, amount),
           TaskLamports(id)' = TaskLamports(id) + amount,
           \A j \in TaskIds \ {id} : TaskLamports(j)' = TaskLamports(j),
           \A c \in Creators : profile'[c] = None <=> profile[c] = None
    PROVE  LamportsHeld' = LamportsHeld
<1> DEFINE W == Total(wallet)
           T == Total([i \in TaskIds |-> TaskLamports(i)])
           P == Total([c \in Creators |-> ProfileLamports(c)])
           t == TaskLamports(id)
<1>1. W' = W - amount /\ T' = T - t + t' /\ P' = P /\ t' = t + amount
  BY WalletPays, TaskGains, ProfilesKeepLamports
<1>2. W \in Nat /\ T \in Nat /\ P \in Nat /\ t \in Nat /\ amount \in Nat
  BY LamportsTyped, LamportsFinite, HoldersFinite, SupplyAssumption
<1>3. LamportsHeld = W + T + P /\ LamportsHeld' = W' + T' + P'
  BY DEF LamportsHeld
<1> HIDE DEF W, T, P, t
<1> QED BY <1>1, <1>2, <1>3

(* Lamports released from a vault are those that the wallets receive. *)
LEMMA PaidOutOfTask ==
    ASSUME TypeOK, TypeOK', NEW id \in TaskIds, NEW amount \in Nat,
           Total(wallet)' = Total(wallet) + amount,
           TaskLamports(id) = TaskLamports(id)' + amount,
           \A j \in TaskIds \ {id} : TaskLamports(j)' = TaskLamports(j),
           profile' = profile
    PROVE  LamportsHeld' = LamportsHeld
<1> DEFINE W == Total(wallet)
           T == Total([i \in TaskIds |-> TaskLamports(i)])
           P == Total([c \in Creators |-> ProfileLamports(c)])
           before == TaskLamports(id)
           after == TaskLamports(id)'
<1>1. /\ W' = W + amount /\ T' = T - before + after /\ P' = P
      /\ before = after + amount
  BY TaskGains, ProfilesKeepLamports
<1>2. W \in Nat /\ T \in Nat /\ P \in Nat /\ before \in Nat
  BY LamportsTyped, LamportsFinite, HoldersFinite, SupplyAssumption
<1>3. LamportsHeld = W + T + P /\ LamportsHeld' = W' + T' + P'
  BY DEF LamportsHeld
<1>4. after \in Nat
  BY MarketplaceAssumption DEF TypeOK, TaskLamports, RentIf, PermanentAccounts
<1> HIDE DEF W, T, P, before, after
<1>5. W' + T' = W + T
  BY <1>1, <1>2, <1>4
<1> QED BY <1>1, <1>3, <1>5

-----------------------------------------------------------------------------
(***************************************************************************)
(* Conservation                                                            *)
(***************************************************************************)

(* Transfers, donations and the opening of a profile move lamports. *)
LEMMA BackgroundConserves ==
    ASSUME TypeOK, TypeOK', Background
    PROVE  LamportsHeld' = LamportsHeld
<1>1. CASE profile' = profile /\ UNCHANGED <<vaultBalance, wallet>>
  <2>1. /\ UNCHANGED [i \in TaskIds |-> TaskLamports(i)]
        /\ UNCHANGED [c \in Creators |-> ProfileLamports(c)]
    BY <1>1 DEF Background, TaskLamports, ProfileLamports, Exists
  <2> QED BY <1>1, <2>1 DEF LamportsHeld
<1>2. ASSUME NEW k \in Keys, NEW id \in TaskIds, Gives(k, id), profile' = profile
      PROVE  LamportsHeld' = LamportsHeld
  <2>1. PICK amount \in 0 .. wallet[k] :
           /\ vaultBalance' = [vaultBalance EXCEPT ![id] = @ + amount]
           /\ Spend(k, amount)
    BY <1>2 DEF Gives
  <2>2. /\ amount \in Nat /\ vaultBalance'[id] = vaultBalance[id] + amount
        /\ \A j \in TaskIds \ {id} : vaultBalance'[j] = vaultBalance[j]
        /\ vaultBalance \in [TaskIds -> Nat]
    BY <2>1 DEF TypeOK
  <2>3. TaskLamports(id)' = TaskLamports(id) + amount
    BY <2>2, MarketplaceAssumption
    DEF Background, TaskLamports, RentIf, Exists, PermanentAccounts
  <2>4. \A j \in TaskIds \ {id} : TaskLamports(j)' = TaskLamports(j)
    BY <2>2 DEF Background, TaskLamports, Exists
  <2> QED BY <1>2, <2>1, <2>3, <2>4, PaidIntoTask
<1>3. ASSUME NEW k \in Keys, NEW to \in Keys \ {k}, Pays(k, to), profile' = profile
      PROVE  LamportsHeld' = LamportsHeld
  <2>1. PICK amount \in 0 .. wallet[k] :
           wallet' = [wallet EXCEPT ![k] = @ - amount, ![to] = @ + amount]
    BY <1>3 DEF Pays
  <2> DEFINE f == [wallet EXCEPT ![k] = wallet[k] - amount]
  <2>2. /\ wallet \in [Keys -> Nat] /\ IsFiniteSet(Keys) /\ to \in Keys
        /\ wallet[k] \in Nat /\ wallet[to] \in Nat
        /\ amount \in Nat /\ wallet[k] - amount \in Nat
    BY SupplyAssumption DEF TypeOK
  <2>3. f \in [Keys -> Nat] /\ f[to] = wallet[to]
        /\ wallet' = [f EXCEPT ![to] = f[to] + amount]
    BY <2>1, <2>2
  <2>4. Total(f) = Total(wallet) - wallet[k] + (wallet[k] - amount)
    <3>1. \A n \in Nat : Total([wallet EXCEPT ![k] = n]) = Total(wallet) - wallet[k] + n
      BY <2>2, TotalUpdate
    <3> QED BY <2>2, <3>1
  <2> HIDE DEF f
  <2>5. Total([f EXCEPT ![to] = f[to] + amount]) = Total(f) - f[to] + (f[to] + amount)
    <3>1. \A n \in Nat : Total([f EXCEPT ![to] = n]) = Total(f) - f[to] + n
      BY <2>2, <2>3, TotalUpdate
    <3>2. f[to] + amount \in Nat
      BY <2>2, <2>3
    <3> QED BY <3>1, <3>2
  <2>6. Total(wallet)' = Total([f EXCEPT ![to] = f[to] + amount])
    BY <2>3
  <2>7. Total(wallet) \in Nat
    BY <2>2, LamportsFinite
  <2>8. Total(wallet)' = Total(wallet)
    BY <2>2, <2>3, <2>4, <2>5, <2>6, <2>7
  <2>9. /\ UNCHANGED [i \in TaskIds |-> TaskLamports(i)]
        /\ UNCHANGED [c \in Creators |-> ProfileLamports(c)]
    BY <1>3 DEF Background, Pays, TaskLamports, ProfileLamports, Exists
  <2> QED BY <2>8, <2>9 DEF LamportsHeld
<1>4. ASSUME NEW c \in Creators, OpensProfile(c)
      PROVE  LamportsHeld' = LamportsHeld
  <2> DEFINE W == Total(wallet)
             T == Total([i \in TaskIds |-> TaskLamports(i)])
             f == [d \in Creators |-> ProfileLamports(d)]
             rent == Rent["profile"]
  <2>1. W' = W - rent
    BY <1>4, WalletPays, MarketplaceAssumption DEF OpensProfile, PaysRent
  <2>2. T' = T
    <3>1. UNCHANGED [i \in TaskIds |-> TaskLamports(i)]
      BY <1>4 DEF Background, OpensProfile, PaysRent, TaskLamports, Exists
    <3> QED BY <3>1
  <2>3. f' = [f EXCEPT ![c] = rent] /\ f[c] = 0
    <3>1. /\ profile'[c] # None /\ profile[c] = None
          /\ \A d \in Creators \ {c} : profile'[d] = profile[d]
      BY <1>4, AccountsAssumption DEF OpensProfile, TypeOK
    <3> QED BY <3>1 DEF ProfileLamports, RentIf
  <2>4. rent \in Nat /\ f \in [Creators -> Nat]
    BY LamportsTyped, MarketplaceAssumption DEF PermanentAccounts
  <2>5. W \in Nat /\ T \in Nat /\ Total(f) \in Nat
    BY LamportsTyped, LamportsFinite, HoldersFinite, SupplyAssumption
  <2>6. LamportsHeld = W + T + Total(f) /\ LamportsHeld' = W' + T' + Total(f)'
    BY DEF LamportsHeld
  <2>7. Total(f)' = Total([f EXCEPT ![c] = rent])
    BY <2>3
  <2> HIDE DEF W, T, f, rent
  <2>8. Total([f EXCEPT ![c] = rent]) = Total(f) - f[c] + rent
    BY <2>4, TotalUpdate, HoldersFinite
  <2> QED BY <2>1, <2>2, <2>3, <2>4, <2>5, <2>6, <2>7, <2>8
<1> QED BY <1>1, <1>2, <1>3, <1>4 DEF Background

(* The tasks an instruction does not write hold what they held. *)
LEMMA OthersKeepLamports ==
    ASSUME TypeOK, NEW id \in TaskIds, Instruction(id)
    PROVE  \A j \in TaskIds \ {id} : TaskLamports(j)' = TaskLamports(j)
BY OthersUnchanged DEF Unchanged, TaskLamports, Exists

(* The lamports of the task an instruction writes, for each account that    *)
(* may be created: a new one holds its rent, and the others what they held. *)
LEMMA OpeningConserves ==
    ASSUME IInv, TypeOK', NEW id \in TaskIds, Instruction(id),
           Creates(id) \/ NamesArbitrator(id) \/ SelectsWorker(id)
    PROVE  LamportsHeld' = LamportsHeld
<1>0. /\ TypeOK
      /\ \A j \in TaskIds \ {id} : TaskLamports(j)' = TaskLamports(j)
      /\ \A account \in PermanentAccounts : Rent[account] \in Nat
      /\ vaultBalance[id] \in Nat
  BY OthersKeepLamports, MarketplaceAssumption DEF IInv, TypeOK
<1>1. CASE Creates(id)
  <2>1. /\ id[1] \in Creators /\ id[1] \in Keys /\ PaysRent(id[1], "task")
        /\ profile[id[1]] # None /\ profile'[id[1]] # None
    BY <1>0, <1>1, MarketplaceAssumption, AccountsAssumption
    DEF Creates, TaskIds, TypeOK
  <2>2. \A c \in Creators : profile'[c] = None <=> profile[c] = None
    BY <1>0, <1>1, <2>1 DEF Creates, TypeOK
  <2>3. /\ ~Exists(id) /\ Exists(id)' /\ vaultBalance' = vaultBalance
        /\ assignment'[id] = assignment[id] /\ resolution'[id] = resolution[id]
    BY <1>0, <1>1, Written DEF Creates, PaysRent, Exists
  <2>4. TaskLamports(id)' = TaskLamports(id) + Rent["task"]
    BY <1>0, <2>3 DEF TaskLamports, RentIf, PermanentAccounts
  <2> QED BY <1>0, <2>1, <2>2, <2>4, PaidIntoTask DEF PaysRent
<1>2. CASE NamesArbitrator(id)
  <2>1. task[id].creator \in Keys /\ PaysRent(task[id].creator, "resolution")
    BY <1>0, <1>2 DEF NamesArbitrator, HasStatus, Exists, TypeOK, Task
  <2>2. PICK p \in Keys :
           Writes(id, task[id], assignment[id], NewResolution(p))
    BY <1>2 DEF NamesArbitrator
  <2>3. NewResolution(p) \in TaskResolution
    BY DEF NewResolution, TaskResolution, ResolutionState
  <2>4. /\ resolution[id] = None /\ resolution'[id] # None
        /\ task'[id] = task[id] /\ assignment'[id] = assignment[id]
        /\ vaultBalance' = vaultBalance
    BY <1>0, <1>2, <2>2, <2>3, Written, MarketplaceAssumption DEF NamesArbitrator, PaysRent
  <2>5. TaskLamports(id)' = TaskLamports(id) + Rent["resolution"]
    BY <1>0, <2>4 DEF TaskLamports, RentIf, Exists, PermanentAccounts
  <2>6. profile' = profile
    BY <1>2 DEF Instruction, Creates, NamesArbitrator, HasStatus
  <2> QED BY <1>0, <2>1, <2>5, <2>6, PaidIntoTask DEF PaysRent
<1>3. CASE SelectsWorker(id)
  <2>1. task[id].creator \in Keys /\ PaysRent(task[id].creator, "assignment")
    BY <1>0, <1>3 DEF SelectsWorker, HasStatus, Exists, TypeOK, Task
  <2>2. PICK w \in Keys :
           Writes(id, TaskAssignWorker(task[id]), NewAssignment(w), resolution[id])
    BY <1>3 DEF SelectsWorker
  <2>3. NewAssignment(w) \in WorkerAssignment
    BY AccountsAssumption DEF NewAssignment, WorkerAssignment
  <2>4. /\ assignment[id] = None /\ assignment'[id] # None
        /\ Exists(id) /\ Exists(id)' /\ resolution'[id] = resolution[id]
        /\ vaultBalance' = vaultBalance
    BY <1>0, <1>3, <2>2, <2>3, Written, MarketplaceAssumption
    DEF SelectsWorker, PaysRent, HasStatus, Exists
  <2>5. TaskLamports(id)' = TaskLamports(id) + Rent["assignment"]
    BY <1>0, <2>4 DEF TaskLamports, RentIf, PermanentAccounts
  <2>6. profile' = profile
    BY <1>3 DEF Instruction, Creates, SelectsWorker, HasStatus
  <2> QED BY <1>0, <2>1, <2>5, <2>6, PaidIntoTask DEF PaysRent
<1> QED BY <1>1, <1>2, <1>3

(* An instruction after those that open accounts finds them all there.     *)
LEMMA RentStays ==
    ASSUME IInv, IInv', NEW id \in TaskIds, Instruction(id),
           ~(Creates(id) \/ NamesArbitrator(id) \/ SelectsWorker(id))
    PROVE  /\ profile' = profile
           /\ Exists(id)' <=> Exists(id)
           /\ assignment'[id] = None <=> assignment[id] = None
           /\ resolution'[id] = None <=> resolution[id] = None
<1>0. TypeOK /\ AccountsAgree(id)
  BY DEF IInv
<1>1. Exists(id) /\ Exists(id)'
  BY <1>0, Written
  DEF Instruction, Hires, Cancels, Funds, Submits, PaysSubmission, Refunds, Rejects,
      Settles, HasStatus, Exists
<1>2. assignment'[id] = None <=> assignment[id] = None
  <2>1. CASE Hires(id)
    <3>1. HasStatus(id, {"Assigned"}) =>
             assignment[id] \in WorkerAssignment /\ assignment[id] # None
      BY <1>0 DEF AccountsAgree, AssignmentAgrees, TypeOK
    <3>2. now \in Timestamps
      BY <1>0 DEF TypeOK
    <3>3. HasStatus(id, {"Assigned"}) =>
             /\ AssignmentAccept(assignment[id], now) \in WorkerAssignment
             /\ AssignmentAccept(assignment[id], now) # None
      BY <3>1, <3>2, MarketplaceAssumption DEF AssignmentAccept, WorkerAssignment
    <3>4. assignment'[id] = IF task[id].status = "Open" THEN assignment[id]
                            ELSE AssignmentAccept(assignment[id], now)
      BY <1>0, <2>1, Written DEF Hires
    <3> QED BY <2>1, <3>1, <3>3, <3>4 DEF Hires, HasStatus
  <2>2. CASE ~Hires(id)
    <3>1. assignment'[id] = assignment[id]
      BY <1>0, <2>2, Written
      DEF Instruction, Cancels, Funds, Submits, PaysSubmission, Refunds, Rejects, Settles
    <3> QED BY <3>1
  <2> QED BY <2>1, <2>2
<1>3. resolution'[id] = None <=> resolution[id] = None
  <2>1. CASE Rejects(id)
    <3>1. task[id] \in Task /\ task'[id] = TaskRejectSubmission(task[id])
      BY <1>0, <1>1, <2>1, Written DEF Rejects, TypeOK, Exists
    <3>2. HasStatus(id, {"Disputed", "Refunded"})'
      BY <1>1, <3>1 DEF TaskRejectSubmission, Task, HasStatus
    <3>3. ResolutionAgrees(id)'
      BY DEF IInv, AccountsAgree
    <3> QED BY <2>1, <3>2, <3>3 DEF ResolutionAgrees, Rejects
  <2>2. CASE Settles(id)
    <3>1. PICK outcome \in DisputeOutcome :
             resolution'[id] = ResolutionFinish(resolution[id], outcome)
      BY <1>0, <2>2, Written DEF Settles
    <3>2. resolution[id] # None /\ resolution[id] \in TaskResolution /\ now \in Timestamps
      BY <1>0, <2>2 DEF Settles, TypeOK
    <3>3. resolution'[id] \in TaskResolution
      BY <3>1, <3>2, ResolutionMethodsTyped
    <3> QED BY <3>2, <3>3, MarketplaceAssumption
  <2>3. CASE ~(Rejects(id) \/ Settles(id))
    <3>1. resolution'[id] = resolution[id]
      BY <1>0, <2>3, Written
      DEF Instruction, Hires, Cancels, Funds, Submits, PaysSubmission, Refunds
    <3> QED BY <3>1
  <2> QED BY <2>1, <2>2, <2>3
<1> QED BY <1>1, <1>2, <1>3 DEF Instruction

(* fund_task, submissions and rejections, and the releases.                *)
LEMMA EscrowConserves ==
    ASSUME IInv, IInv', NEW id \in TaskIds, Instruction(id),
           ~(Creates(id) \/ NamesArbitrator(id) \/ SelectsWorker(id))
    PROVE  LamportsHeld' = LamportsHeld
<1>0. /\ TypeOK /\ TypeOK' /\ profile' = profile
      /\ \A j \in TaskIds \ {id} : TaskLamports(j)' = TaskLamports(j)
      /\ vaultBalance[id] \in Nat /\ vaultBalance'[id] \in Nat
  BY OthersKeepLamports, RentStays DEF IInv, TypeOK
<1> DEFINE rent == RentIf(Exists(id), "task")
                   + RentIf(assignment[id] # None, "assignment")
                   + RentIf(resolution[id] # None, "resolution")
<1>1. /\ rent \in Nat
      /\ TaskLamports(id) = rent + vaultBalance[id]
      /\ TaskLamports(id)' = rent + vaultBalance'[id]
  BY RentStays, MarketplaceAssumption DEF TaskLamports, RentIf, PermanentAccounts
<1> HIDE DEF rent
<1>2. CASE KeepsMoney
  <2>1. TaskLamports(id)' = TaskLamports(id)
    BY <1>1, <1>2 DEF KeepsMoney
  <2>2. \A j \in TaskIds : TaskLamports(j)' = TaskLamports(j)
    BY <1>0, <2>1
  <2>3. /\ UNCHANGED [i \in TaskIds |-> TaskLamports(i)]
        /\ UNCHANGED [c \in Creators |-> ProfileLamports(c)]
    BY <1>0, <2>2 DEF ProfileLamports
  <2> QED BY <1>2, <2>3 DEF KeepsMoney, LamportsHeld
<1>3. CASE Funds(id)
  <2>1. PICK amount \in 0 .. wallet[task[id].creator] :
           /\ vaultBalance' = [vaultBalance EXCEPT ![id] = @ + amount]
           /\ Spend(task[id].creator, amount)
    BY <1>3 DEF Funds
  <2>2. task[id].creator \in Keys
    BY <1>0, <1>3 DEF Funds, HasStatus, Exists, TypeOK, Task
  <2>3. amount \in Nat /\ vaultBalance'[id] = vaultBalance[id] + amount
    BY <1>0, <2>1, <2>2 DEF TypeOK
  <2>4. TaskLamports(id)' = TaskLamports(id) + amount
    BY <1>0, <1>1, <2>3
  <2> QED BY <1>0, <2>1, <2>2, <2>4, PaidIntoTask
<1>4. ASSUME HasStatus(id, InCustody), PayOut(id) \/ Return(id)
      PROVE  LamportsHeld' = LamportsHeld
  <2> DEFINE c == task[id].creator
             w == task[id].worker
  <2>1. /\ c \in Keys /\ w \in Keys /\ w # c
        /\ vault[id] \in Nat /\ vaultBalance[id] - vault[id] \in Nat
    <3>1. task[id] \in Task /\ AccountsAgree(id)
      BY <1>4, AgreeingTask DEF HasStatus
    <3>2. /\ task[id].worker # None /\ task[id].worker # task[id].creator
          /\ vault[id] = task[id].reward_amount
          /\ vaultBalance[id] >= VaultRent + vault[id]
      BY <1>4, <3>1 DEF AccountsAgree, TaskShaped, TaskValid, HasStatus, InCustody,
                        CustodyMatches, CoversLiability
    <3>3. c \in Keys /\ w \in Keys /\ vault[id] \in Nat
      BY <3>1, <3>2 DEF Task
    <3> QED BY <1>0, <3>2, <3>3, EscrowAssumption
  <2>2. vaultBalance'[id] = 0
    BY <1>0, <1>4, Released
  <2>3. TaskLamports(id) = TaskLamports(id)' + vaultBalance[id]
    BY <1>0, <1>1, <2>2
  <2>4. Total(wallet)' = Total(wallet) + vaultBalance[id]
    <3>0. Total(wallet) \in Nat /\ wallet \in [Keys -> Nat] /\ vaultBalance[id] + 0 = vaultBalance[id]
      BY <1>0, LamportsTyped, LamportsFinite, SupplyAssumption
    <3>1. CASE PayOut(id)
      <4>1. wallet' = [wallet EXCEPT ![w] = @ + vault[id],
                                     ![c] = @ + (vaultBalance[id] - vault[id])]
        BY <3>1 DEF PayOut, WorkerAmount
      <4> HIDE DEF c, w
      <4>2. Total([wallet EXCEPT ![w] = @ + vault[id],
                                 ![c] = @ + (vaultBalance[id] - vault[id])])
              = Total(wallet) + vault[id] + (vaultBalance[id] - vault[id])
        BY <1>0, <2>1, WalletsGain
      <4>3. Total(wallet)' = Total(wallet) + vault[id] + (vaultBalance[id] - vault[id])
        BY <4>1, <4>2
      <4> QED BY <1>0, <2>1, <3>0, <4>3
    <3>2. CASE Return(id)
      <4>1. wallet' = [wallet EXCEPT ![c] = wallet[c] + vaultBalance[id]]
        BY <3>2 DEF Return
      <4> HIDE DEF c, w
      <4>2. \A n \in Nat : Total([wallet EXCEPT ![c] = n]) = Total(wallet) - wallet[c] + n
        BY <2>1, <3>0, TotalUpdate, SupplyAssumption
      <4>3. wallet[c] \in Nat /\ wallet[c] + vaultBalance[id] \in Nat
        BY <1>0, <2>1, <3>0
      <4>4. Total(wallet)' = Total(wallet) - wallet[c] + (wallet[c] + vaultBalance[id])
        BY <4>1, <4>2, <4>3
      <4> QED BY <1>0, <3>0, <4>3, <4>4
    <3> QED BY <1>4, <3>1, <3>2
  <2> QED BY <1>0, <2>3, <2>4, PaidOutOfTask
<1> QED
  BY <1>2, <1>3, <1>4
  DEF Instruction, Hires, Cancels, Submits, Rejects, PaysSubmission, Refunds, Settles,
      HasStatus, InCustody

(* No instruction, in any order, by any signer, creates or destroys a      *)
(* lamport: pay_worker and the closing of a vault move exactly what they   *)
(* take out of it.                                                         *)
THEOREM LamportsAreConserved == Spec => []LamportsConserved
<1>1. Init => LamportsConserved
  <2>1. SUFFICES ASSUME Init PROVE LamportsHeld = Total(InitialWallets)
    BY DEF LamportsConserved
  <2> DEFINE T == [id \in TaskIds |-> TaskLamports(id)]
             P == [c \in Creators |-> ProfileLamports(c)]
  <2>2. /\ \A id \in DOMAIN T : T[id] = 0
        /\ \A c \in DOMAIN P : P[c] = 0
    BY <2>1 DEF Init, TaskLamports, ProfileLamports, RentIf, Exists
  <2>3. Lamports(T) = {} /\ Lamports(P) = {}
    BY <2>2 DEF Lamports, Purse
  <2>4. Total(T) = 0 /\ Total(P) = 0
    BY <2>3, FS_EmptySet DEF Total
  <2>5. wallet = InitialWallets /\ Total(wallet) \in Nat
    BY <2>1, MarketplaceAssumption, SupplyAssumption, LamportsFinite DEF Init
  <2> QED BY <2>4, <2>5 DEF LamportsHeld
<1>2. IInv /\ IInv' /\ LamportsConserved /\ [Next]_vars => LamportsConserved'
  <2>1. SUFFICES ASSUME IInv, IInv', [Next]_vars PROVE LamportsHeld' = LamportsHeld
    BY DEF LamportsConserved
  <2>2. TypeOK /\ TypeOK'
    BY <2>1 DEF IInv
  <2> QED BY <2>1, <2>2, StepShape, BackgroundConserves, OpeningConserves, EscrowConserves
<1> QED BY <1>1, <1>2, AccountsAlwaysAgree, PTL DEF Spec

-----------------------------------------------------------------------------
(***************************************************************************)
(* Every escrow has a way out.  An instruction that releases a vault fails *)
(* if the task, the vault or the resolution does not validate, if a        *)
(* checked_add overflows, or if the runtime refuses the balances it would  *)
(* leave.  The invariant of MarketplaceProofs excludes the first; that     *)
(* lamports are conserved, and that there are no more than a u64 holds,    *)
(* excludes the second; the rent in the vault excludes the third for the   *)
(* creator, and the reward does for any worker whose wallet is not so poor *)
(* that it would stay below its rent.                                      *)
(***************************************************************************)

(* No wallet and vault together hold more lamports than there are.         *)
LEMMA BalancesFit ==
    ASSUME TypeOK, LamportsConserved, NEW k \in Keys, NEW id \in TaskIds
    PROVE  FitsU64(wallet[k] + vaultBalance[id])
<1> DEFINE T == [i \in TaskIds |-> TaskLamports(i)]
           P == [c \in Creators |-> ProfileLamports(c)]
<1>1. wallet[k] <= Total(wallet) /\ T[id] <= Total(T)
  BY LamportsTyped, TotalBounds, HoldersFinite, SupplyAssumption
<1>2. Total(wallet) \in Nat /\ Total(T) \in Nat /\ Total(P) \in Nat
  BY LamportsTyped, LamportsFinite, HoldersFinite, SupplyAssumption
<1>3. Total(wallet) + Total(T) + Total(P) <= MaxU64
  BY SupplyAssumption DEF LamportsConserved, LamportsHeld
<1>4. vaultBalance[id] <= T[id] /\ T[id] \in Nat
  BY MarketplaceAssumption DEF TypeOK, TaskLamports, RentIf, PermanentAccounts
<1>5. wallet[k] \in Nat /\ vaultBalance[id] \in Nat /\ MaxU64 \in Nat
  BY EscrowAssumption DEF TypeOK
<1> HIDE DEF T, P
<1> QED BY <1>1, <1>2, <1>3, <1>4, <1>5 DEF FitsU64

(* What every release checks of a vault in custody. *)
LEMMA VaultIsValid ==
    ASSUME IInv, NEW id \in TaskIds, HasStatus(id, InCustody)
    PROVE  /\ Exists(id) /\ task[id] \in Task /\ TaskValid(task[id])
           /\ VaultValid(id)
           /\ task[id].creator \in Keys /\ task[id].worker \in Keys
           /\ task[id].worker # None /\ task[id].worker # task[id].creator
           /\ vault[id] \in Nat /\ vault[id] > 0 /\ vault[id] = task[id].reward_amount
           /\ vaultBalance[id] \in Nat /\ vaultBalance[id] >= VaultRent + vault[id]
<1>1. /\ Exists(id) /\ AccountsAgree(id) /\ task[id] \in Task
      /\ vaultBalance[id] \in Nat
  BY AgreeingTask DEF HasStatus
<1>2. /\ TaskValid(task[id]) /\ task[id].worker # None
      /\ task[id].worker # task[id].creator /\ task[id].reward_amount > 0
  BY <1>1 DEF AccountsAgree, TaskShaped, TaskValid, HasStatus, InCustody
<1>3. /\ vault[id] # None /\ vault[id] = task[id].reward_amount
      /\ CoversLiability(vault[id], vaultBalance[id])
  BY <1>1 DEF AccountsAgree, CustodyMatches
<1>4. /\ task[id].worker \in Keys /\ task[id].creator \in Keys
      /\ task[id].reward_amount \in Nat
  BY <1>1, <1>2 DEF Task
<1>5. VaultValid(id)
  BY <1>2, <1>3 DEF VaultValid, EscrowValid
<1>6. vaultBalance[id] >= VaultRent + vault[id]
  BY <1>3 DEF CoversLiability
<1> QED BY <1>1, <1>2, <1>3, <1>4, <1>5, <1>6

(* The creator can always receive what is left in the vault. *)
LEMMA CreatorReceives ==
    ASSUME IInv, LamportsConserved, NEW id \in TaskIds, HasStatus(id, InCustody)
    PROVE  CanReturn(id)
<1>1. TypeOK /\ wallet[task[id].creator] \in Nat
  BY VaultIsValid DEF IInv, TypeOK
<1>2. FitsU64(wallet[task[id].creator] + vaultBalance[id])
  BY <1>1, BalancesFit, VaultIsValid
<1>3. RentExempt(wallet[task[id].creator] + vaultBalance[id])
  BY <1>1, VaultIsValid, EscrowAssumption DEF RentExempt
<1> QED BY <1>2, <1>3 DEF CanReturn, CanCloseInto

(* The reward can be paid to a worker whose wallet may receive it.         *)
LEMMA WorkerReceives ==
    ASSUME IInv, LamportsConserved, NEW id \in TaskIds, HasStatus(id, InCustody),
           WorkerCanReceive(id)
    PROVE  CanPayOut(id)
<1> DEFINE c == task[id].creator
           w == task[id].worker
           rest == vaultBalance[id] - vault[id]
<1>1. /\ TypeOK /\ wallet[c] \in Nat /\ wallet[w] \in Nat
      /\ VaultRent \in Nat /\ WalletMinimum \in Nat /\ WalletMinimum <= VaultRent
      /\ MaxU64 \in Nat
  BY VaultIsValid, EscrowAssumption DEF IInv, TypeOK
<1>2. /\ FitsU64(wallet[c] + vaultBalance[id])
      /\ FitsU64(wallet[w] + vaultBalance[id])
  BY <1>1, BalancesFit, VaultIsValid
<1>3. /\ vault[id] \in Nat /\ vaultBalance[id] \in Nat
      /\ vaultBalance[id] >= VaultRent + vault[id]
      /\ RentExempt(wallet[w] + vault[id])
  BY VaultIsValid DEF WorkerCanReceive
<1> HIDE DEF c, w
<1>4. CanPayWorker(vault[id], vaultBalance[id], wallet[w])
  BY <1>1, <1>2, <1>3 DEF CanPayWorker, WorkerAmount, FitsU64
<1>5. CanCloseInto(wallet[c], rest)
  BY <1>1, <1>2, <1>3 DEF CanCloseInto, FitsU64, RentExempt
<1> QED BY <1>4, <1>5 DEF CanPayOut, WorkerAmount, c, w

(* Whoever acts and whatever is sent where, a Funded task past its         *)
(* deadline can be refunded, and a Submitted one can be paid, by anybody   *)
(* once its review deadline has passed.                                    *)
THEOREM EscrowsHaveExits == Spec => []EscrowHasExit
<1>1. IInv /\ LamportsConserved => EscrowHasExit
  <2>1. SUFFICES ASSUME IInv, LamportsConserved, NEW id \in TaskIds
        PROVE  /\ (HasStatus(id, {"Funded"}) /\ now >= task[id].submission_deadline) =>
                    CanRefundTaskAfterTimeout(task[id].creator, id)
               /\ (HasStatus(id, {"Submitted"}) /\ WorkerCanReceive(id)) =>
                    /\ CanPayTask(task[id].creator, id, task[id].worker)
                    /\ now >= task[id].review_deadline =>
                         \A pass \in BOOLEAN : (pass => resolution[id] # None) =>
                            CanSettleTaskAfterTimeout(id, task[id].creator,
                                                      task[id].worker, pass)
    BY DEF EscrowHasExit
  <2>2. ASSUME HasStatus(id, {"Funded"}), now >= task[id].submission_deadline
        PROVE  CanRefundTaskAfterTimeout(task[id].creator, id)
    <3>1. HasStatus(id, InCustody)
      BY <2>2 DEF HasStatus, InCustody
    <3>2. TaskCanRefundAfterTimeout(task[id], now)
      BY <2>1, <2>2, <3>1, VaultIsValid
      DEF TaskCanRefundAfterTimeout, TaskRefundAfterTimeout, TaskValid, HasStatus, Task
    <3> QED BY <2>1, <3>1, <3>2, VaultIsValid, CreatorReceives
        DEF CanRefundTaskAfterTimeout, SignedByCreator
  <2>3. ASSUME HasStatus(id, {"Submitted"}), WorkerCanReceive(id)
        PROVE  /\ CanPayTask(task[id].creator, id, task[id].worker)
               /\ now >= task[id].review_deadline =>
                    \A pass \in BOOLEAN : (pass => resolution[id] # None) =>
                       CanSettleTaskAfterTimeout(id, task[id].creator,
                                                 task[id].worker, pass)
    <3>1. HasStatus(id, InCustody)
      BY <2>3 DEF HasStatus, InCustody
    <3>2. TaskCanPay(task[id])
      BY <2>1, <2>3, <3>1, VaultIsValid DEF TaskCanPay, TaskPay, TaskValid, HasStatus, Task
    <3>3. CanPayOut(id)
      BY <2>1, <2>3, <3>1, WorkerReceives
    <3>4. CanPayTask(task[id].creator, id, task[id].worker)
      BY <2>1, <3>1, <3>2, <3>3, VaultIsValid DEF CanPayTask, SignedByCreator
    <3>5. ASSUME now >= task[id].review_deadline, NEW pass \in BOOLEAN,
                 pass => resolution[id] # None
          PROVE  CanSettleTaskAfterTimeout(id, task[id].creator, task[id].worker, pass)
      <4>1. resolution[id] # None =>
               TaskResolutionValid(id) /\ resolution[id].state = "Ready"
        <5>1. ResolutionAgrees(id) /\ (resolution[id] # None => resolution[id] \in TaskResolution)
          BY <2>1 DEF IInv, AccountsAgree, TypeOK
        <5>2. resolution[id] # None => resolution[id].state = "Ready"
          BY <2>3, <5>1 DEF ResolutionAgrees, HasStatus, TaskResolution, ResolutionState,
                            DisputeOutcome
        <5> QED BY <2>1, <3>1, <5>1, <5>2, VaultIsValid
            DEF ResolutionAgrees, TaskResolutionValid
      <4> QED BY <2>1, <3>1, <3>2, <3>3, <3>5, <4>1, VaultIsValid
          DEF CanSettleTaskAfterTimeout, TaskCanPayAfterTimeout
    <3> QED BY <3>4, <3>5
  <2> QED BY <2>2, <2>3
<1> QED BY <1>1, AccountsAlwaysAgree, LamportsAreConserved, PTL

(* A dispute whose arbitrator is neither of its parties can be ended by    *)
(* both parties at any time, by the arbitrator before its deadline and by  *)
(* anybody from then on.                                                   *)
THEOREM DisputesHaveExits == Spec => []ThreePartyDisputeHasExits
<1>1. IInv /\ LamportsConserved => ThreePartyDisputeHasExits
  <2>1. SUFFICES ASSUME IInv, LamportsConserved, NEW id \in TaskIds,
                        HasStatus(id, {"Disputed"}), WorkerCanReceive(id),
                        ~ArbitratorIsWorker(id), NEW outcome \in DisputeOutcome
        PROVE  LET c == task[id].creator
                   w == task[id].worker
                   r == resolution[id]
               IN  /\ CanResolveDisputeByAgreement(c, w, id, outcome)
                   /\ IF now < r.arbitration_deadline
                      THEN CanResolveDispute(r.arbitration_authority, id, c, w, outcome)
                      ELSE CanSettleDisputeAfterTimeout(id, c, w)
    BY DEF ThreePartyDisputeHasExits
  <2> DEFINE c == task[id].creator
             w == task[id].worker
             r == resolution[id]
  <2>2. HasStatus(id, InCustody)
    BY <2>1 DEF HasStatus, InCustody
  <2>3. /\ r \in TaskResolution /\ ResolutionValid(r) /\ RequireDisputed(r) /\ r # None
        /\ r.arbitration_authority # c
        /\ r.arbitration_deadline \in Nat /\ r.arbitration_deadline # None
        /\ now \in Nat
    <3>1. /\ ResolutionAgrees(id) /\ r # None /\ r \in TaskResolution
          /\ DeadlinesChained(id) /\ Exists(id) /\ now \in Nat
      BY <2>1, <2>2 DEF IInv, AccountsAgree, ResolutionAgrees, TypeOK, HasStatus
    <3>2. ResolutionValid(r) /\ RequireDisputed(r) /\ r.arbitration_authority # c
      BY <2>1, <3>1 DEF ResolutionAgrees
    <3>3. r.arbitration_deadline # None
      BY <3>2 DEF ResolutionValid, RequireDisputed
    <3> QED BY <3>1, <3>2, <3>3 DEF TaskResolution
  <2>4. DisputeAccountsValid(id, c, w)
    BY <2>1, <2>2, <2>3, VaultIsValid
    DEF DisputeAccountsValid, TaskResolutionValid, ArbitratorIsWorker
  <2>5. \A o \in DisputeOutcome : /\ CanSettleDispute(id, o)
                                  /\ ResolutionValid(ResolutionFinish(r, o))
    <3>1. \A o \in DisputeOutcome : TaskCanResolveDispute(task[id], o)
      BY <2>1, <2>2, VaultIsValid
      DEF TaskCanResolveDispute, TaskResolveDispute, TaskValid, HasStatus, Task, DisputeOutcome
    <3>2. \A o \in DisputeOutcome : ResolutionValid(ResolutionFinish(r, o))
      BY <2>3, AccountsAssumption
      DEF ResolutionValid, ResolutionFinish, TaskResolution, DisputeOutcome
    <3> QED BY <2>1, <2>2, <3>1, <3>2, CreatorReceives, WorkerReceives DEF CanSettleDispute
  <2>6. CanResolveDisputeByAgreement(c, w, id, outcome)
    BY <2>3, <2>4, <2>5 DEF CanResolveDisputeByAgreement, ResolutionCanResolveByAgreement
  <2>7. ASSUME now < r.arbitration_deadline
        PROVE  CanResolveDispute(r.arbitration_authority, id, c, w, outcome)
    BY <2>3, <2>4, <2>5, <2>7 DEF CanResolveDispute, ResolutionCanResolve
  <2>8. ASSUME ~(now < r.arbitration_deadline)
        PROVE  CanSettleDisputeAfterTimeout(id, c, w)
    <3>1. now >= r.arbitration_deadline
      BY <2>3, <2>8
    <3> QED BY <2>3, <2>4, <2>5, <3>1
        DEF CanSettleDisputeAfterTimeout, ResolutionCanSettleAfterTimeout, DisputeOutcome
  <2> QED BY <2>6, <2>7, <2>8
<1> QED BY <1>1, AccountsAlwaysAgree, LamportsAreConserved, PTL
=============================================================================
