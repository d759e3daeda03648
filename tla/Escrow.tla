------------------------------- MODULE Escrow -------------------------------
(***************************************************************************)
(* The lamport arithmetic of the program: escrow.rs (validate_escrow,      *)
(* pay_worker), and what the runtime and Anchor do with lamports around    *)
(* it: `init` tops a new account up to its rent, `close` empties an        *)
(* account into its destination, and a transaction may not leave a wallet  *)
(* with a balance that is neither zero nor rent exempt.                    *)
(***************************************************************************)
EXTENDS TaskAccounts

CONSTANTS
    VaultRent,      \* Rent::minimum_balance of an EscrowVault account
    WalletMinimum,  \* the same of an account without data
    MaxU64          \* u64::MAX, scaled

(* An account with data costs more rent than one without. *)
ASSUME EscrowAssumption ==
    /\ VaultRent \in Nat
    /\ WalletMinimum \in Nat
    /\ WalletMinimum <= VaultRent
    /\ MaxU64 \in Nat

(* A u64 checked_add succeeds. *)
FitsU64(n) == n <= MaxU64

(* The balance the runtime lets a transaction leave in a data-less account. *)
RentExempt(balance) == balance = 0 \/ balance >= WalletMinimum

(* What `init` takes from its payer: an address that already holds *)
(* lamports is only topped up.                                     *)
InitShortfall(balance) == IF balance < VaultRent THEN VaultRent - balance ELSE 0

(* What fund_task takes from the creator for a vault address that holds *)
(* `balance`, and what the vault then holds.                            *)
FundingCost(balance, reward) == InitShortfall(balance) + reward

FundedBalance(balance, reward) == balance + FundingCost(balance, reward)

\* Mutant: any surplus is taken for an error.
CoversLiabilityExactly(escrowed, balance) == balance = VaultRent + escrowed

(* rent_exempt_minimum.checked_add(escrowed_lamports), and a vault that *)
(* holds at least that.                                                 *)
CoversLiability(escrowed, balance) ==
    /\ FitsU64(VaultRent + escrowed)
    /\ balance >= VaultRent + escrowed

(* validate_escrow. *)
EscrowValid(t, escrowed, balance) ==
    /\ TaskValid(t)
    /\ escrowed = t.reward_amount
    /\ CoversLiability(escrowed, balance)

(* pay_worker: the amount that leaves the vault for the worker's wallet. *)
WorkerAmount(escrowed) == escrowed

CanPayWorker(escrowed, balance, workerWallet) ==
    /\ balance >= WorkerAmount(escrowed)
    /\ FitsU64(workerWallet + WorkerAmount(escrowed))
    /\ RentExempt(workerWallet + WorkerAmount(escrowed))

(* `close = creator`. *)
CanCloseInto(creatorWallet, remaining) ==
    /\ FitsU64(creatorWallet + remaining)
    /\ RentExempt(creatorWallet + remaining)
=============================================================================
