-------------------------- MODULE MCTaskMarketplace --------------------------
(***************************************************************************)
(* Constants and symmetries of the runs.                                   *)
(***************************************************************************)
EXTENDS PropertyModelMapping, TLC

CONSTANTS alice, bob, carol,   \* keys
          nobody,              \* Pubkey::default()
          blank, text, other   \* a refused and two accepted strings

FreeAccounts == [a \in PermanentAccounts |-> 0]

OneLamportAccounts == [a \in PermanentAccounts |-> 1]

(* Only the creator owns anything. *)
PoorWorkers == [k \in Keys |-> IF k = alice THEN 6 ELSE 0]

(* Alice can pay every rent and fund; carol gives; bob's wallet is empty. *)
Generous ==
    [k \in Keys |-> CASE k = alice -> 9 [] k = bob -> 0 [] OTHER -> 2]

(* Each creator can fund a task only if the other one pays first. *)
TwoCreators == [k \in Keys |-> IF k \in Creators THEN 2 ELSE 0]

CreatorsSymmetry == Permutations(Creators)

OtherKeys == Permutations(Keys \ Creators)
=============================================================================
