---------------------------- MODULE EscrowCustody ----------------------------
(***************************************************************************)
(* What the marketplace promises about money, without statuses, deadlines  *)
(* or disputes.  The reward of a task is taken from its creator once, kept *)
(* on fixed terms, and released once: either exactly the reward goes to    *)
(* the worker and whatever else the vault holds to the creator, or all of  *)
(* it goes back to the creator.  No other step takes lamports out of a     *)
(* vault, or puts any into a purse that it does not take from another.     *)
(***************************************************************************)
EXTENDS Integers

CONSTANTS Ids, Parties, None, Rent, InitialPurse

VARIABLES
    phase,   \* of each task's money: "none", "held", "paid" or "returned"
    terms,   \* creator, worker and reward, fixed when the money is taken
    held,    \* lamports at the vault address
    purse    \* lamports of each party

custodyVars == <<phase, terms, held, purse>>

Init ==
    /\ phase = [id \in Ids |-> "none"]
    /\ terms = [id \in Ids |-> None]
    /\ held = [id \in Ids |-> 0]
    /\ purse = InitialPurse

(* The creator pays for whatever the vault address lacks to hold the rent *)
(* and the reward, and the vault holds at least that afterwards.          *)
Deposit(id, creator, worker, reward, amount) ==
    /\ phase[id] = "none"
    /\ creator # worker
    /\ reward > 0
    /\ amount \in 0 .. purse[creator]
    /\ amount >= reward
    /\ held[id] + amount >= Rent + reward
    /\ phase' = [phase EXCEPT ![id] = "held"]
    /\ terms' = [terms EXCEPT ![id] =
                    [creator |-> creator, worker |-> worker, reward |-> reward]]
    /\ held' = [held EXCEPT ![id] = @ + amount]
    /\ purse' = [purse EXCEPT ![creator] = @ - amount]

(* Releases the money: `paid` to the worker, the rest to the creator. *)
Release(id, paid) ==
    /\ held' = [held EXCEPT ![id] = 0]
    /\ purse' = [purse EXCEPT ![terms[id].worker]  = @ + paid,
                              ![terms[id].creator] = @ + (held[id] - paid)]
    /\ UNCHANGED terms

PayWorker(id) ==
    /\ phase[id] = "held"
    /\ held[id] >= terms[id].reward
    /\ phase' = [phase EXCEPT ![id] = "paid"]
    /\ Release(id, terms[id].reward)

ReturnToCreator(id) ==
    /\ phase[id] = "held"
    /\ phase' = [phase EXCEPT ![id] = "returned"]
    /\ Release(id, 0)

(* Somebody else's lamports at the vault address. *)
Gift(party, id, amount) ==
    /\ amount \in 0 .. purse[party]
    /\ held' = [held EXCEPT ![id] = @ + amount]
    /\ purse' = [purse EXCEPT ![party] = @ - amount]
    /\ UNCHANGED <<phase, terms>>

(* A party pays the rent of accounts that are not vaults. *)
SpendElsewhere(party, amount) ==
    /\ amount \in 0 .. purse[party]
    /\ purse' = [purse EXCEPT ![party] = @ - amount]
    /\ UNCHANGED <<phase, terms, held>>

(* The parties pay each other. *)
Pay(from, to, amount) ==
    /\ amount \in 0 .. purse[from]
    /\ purse' = [purse EXCEPT ![from] = @ - amount, ![to] = @ + amount]
    /\ UNCHANGED <<phase, terms, held>>

Next ==
    \/ \E id \in Ids : PayWorker(id) \/ ReturnToCreator(id)
    \/ \E id \in Ids, c, w \in Parties :
          \E amount \in 0 .. purse[c] :
             \E reward \in 0 .. amount : Deposit(id, c, w, reward, amount)
    \/ \E p \in Parties : \E amount \in 0 .. purse[p] :
          \/ SpendElsewhere(p, amount)
          \/ \E id \in Ids : Gift(p, id, amount)
          \/ \E q \in Parties \ {p} : Pay(p, q, amount)

Spec == Init /\ [][Next]_custodyVars
=============================================================================
