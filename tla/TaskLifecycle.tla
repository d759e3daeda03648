---------------------------- MODULE TaskLifecycle ----------------------------
(***************************************************************************)
(* What the marketplace promises about the life of a task, without money,  *)
(* deadlines or disputes' accounts: its status follows the lifecycle       *)
(* diagram, it gets a worker exactly when it becomes Accepted and evidence *)
(* of the work exactly when it becomes Submitted, and none of the three    *)
(* moves again once the task is Paid, Refunded or Cancelled.               *)
(***************************************************************************)
CONSTANTS Ids, Workers, Evidence, None

VARIABLES status, worker, evidence

lifecycleVars == <<status, worker, evidence>>

Terminal == {"Paid", "Refunded", "Cancelled"}

Edges ==
    {<<"Absent", "Open">>,
     <<"Open", "Assigned">>, <<"Open", "Accepted">>, <<"Assigned", "Accepted">>,
     <<"Accepted", "Funded">>, <<"Funded", "Submitted">>,
     <<"Submitted", "Paid">>, <<"Submitted", "Disputed">>,
     <<"Disputed", "Paid">>, <<"Disputed", "Refunded">>}
    \cup ({"Open", "Assigned", "Accepted", "Funded"} \X {"Cancelled"})

Init ==
    /\ status = [id \in Ids |-> "Absent"]
    /\ worker = [id \in Ids |-> None]
    /\ evidence = [id \in Ids |-> None]

Move(id, to) ==
    /\ <<status[id], to>> \in Edges
    /\ status' = [status EXCEPT ![id] = to]

Hire(id) ==
    /\ Move(id, "Accepted")
    /\ \E w \in Workers : worker' = [worker EXCEPT ![id] = w]
    /\ UNCHANGED evidence

Deliver(id) ==
    /\ Move(id, "Submitted")
    /\ \E e \in Evidence : evidence' = [evidence EXCEPT ![id] = e]
    /\ UNCHANGED worker

Proceed(id) ==
    /\ \E to \in {"Open", "Assigned", "Funded", "Disputed"} \cup Terminal :
          Move(id, to)
    /\ UNCHANGED <<worker, evidence>>

Next == \E id \in Ids : Hire(id) \/ Deliver(id) \/ Proceed(id)

Spec == Init /\ [][Next]_lifecycleVars
=============================================================================
