----------------------------- MODULE MCSmokeTest -----------------------------
(***************************************************************************)
(* Constants for TLC's runs of the smoke test, in lamports of devnet:      *)
(* an account of n bytes costs (128 + n) * 6960 lamports of rent.          *)
(***************************************************************************)
EXTENDS SmokeTest, FiniteSets, TLC

CONSTANTS alice, ann, ben, carol,   \* keys
          nobody,                   \* Pubkey::default()
          text,                     \* what the script sends
          run1, run2

RentOf(bytes) == (128 + bytes) * 6960

WalletRent == RentOf(0)

VaultAccountRent == RentOf(8 + 106)

AccountRents ==
    [profile    |-> RentOf(8 + 40),
     task       |-> RentOf(8 + 922),
     assignment |-> RentOf(8 + 147),
     resolution |-> RentOf(8 + 364)]

RewardOfScript == 1000000

MinBalanceOfScript == 25000000

WorkerKeys == run1 :> ann @@ run2 :> ben

OneWorkerKey == run1 :> ann

(* The operator has just what the script asks for. *)
JustEnough ==
    [k \in Keys |-> CASE k = alice -> MinBalanceOfScript
                      [] k = carol -> 2 * WalletRent
                      [] OTHER -> 0]

(* After a first run that succeeds the operator has just what the script *)
(* asks for again.                                                       *)
EnoughForTwo ==
    [JustEnough EXCEPT ![alice] =
        @ + RewardOfScript + AccountRents.profile + AccountRents.task
          + AccountRents.assignment]

Gifts == {WalletRent}
=============================================================================
