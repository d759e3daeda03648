------------------------- MODULE MCMarketplaceEvents -------------------------
(***************************************************************************)
(* Constants for TLC's runs of the event log.                              *)
(***************************************************************************)
EXTENDS EventProperties, TLC

CONSTANTS alice, bob, carol,   \* keys
          nobody,              \* Pubkey::default()
          text                 \* an accepted string

FreeAccounts == [a \in PermanentAccounts |-> 0]

(* Only the creator owns anything: enough to fund a task and give once. *)
PoorWorkers == [k \in Keys |-> IF k = alice THEN 5 ELSE 0]

OtherKeys == Permutations(Keys \ Creators)
=============================================================================
