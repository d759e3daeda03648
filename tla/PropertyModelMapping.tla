------------------------- MODULE PropertyModelMapping -------------------------
(***************************************************************************)
(* The program, on a ledger with nothing but one task, seen as the model   *)
(* that the repository's property tests are run on.  What the model counts *)
(* is read off the accounts; what it believes the worker received is what  *)
(* the wallets of everybody but the creator have gained.                   *)
(***************************************************************************)
EXTENDS MarketplaceProperties

(* One creator with one task and one possible reward, and nobody who sends *)
(* lamports outside the program: the setting of the tests.                 *)
OneTaskAlone ==
    /\ \E c \in Creators : Creators = {c}
    /\ \E r \in Rewards : Rewards = {r}
    /\ MaxTaskCount = 1
    /\ Donations = {} /\ Transfers = {}

TheCreator == CHOOSE c \in Creators : TRUE

TheTask == <<TheCreator, 1>>

(* The model starts with its task created. *)
TestTask == IF Exists(TheTask) THEN task[TheTask]
            ELSE NewTask(TheCreator, CHOOSE r \in Rewards : TRUE)

Holdings(f) == Total([k \in Keys \ Creators |-> f[k]])

Earnings == Holdings(wallet) - Holdings(InitialWallets)

OneIf(condition) == IF condition THEN 1 ELSE 0

Payouts == OneIf(HasStatus(TheTask, {"Paid"}))

Returns == OneIf(CustodyPhase(TheTask) = "returned")

VaultCloses == OneIf(WasFunded(TheTask) /\ vault[TheTask] = None)

DisputesFinished ==
    OneIf(resolution[TheTask] # None /\ resolution[TheTask].state = "Resolved")

TestModel == INSTANCE PropertyModel WITH
    Creator              <- TheCreator,
    Selectable           <- Keys,
    Arbitrators          <- Keys,
    RewardAmounts        <- Rewards,
    References           <- ValidTexts,
    task                 <- TestTask,
    assignment           <- assignment[TheTask],
    resolution           <- resolution[TheTask],
    vault_liability      <- vault[TheTask],
    worker_received      <- Earnings,
    payout_count         <- Payouts,
    refund_count         <- Returns,
    vault_close_count    <- VaultCloses,
    dispute_finish_count <- DisputesFinished,
    panicked             <- FALSE

(* Everything the program does to a task, its model in the property tests  *)
(* can do too, although the model has no signers to compare, no lamports   *)
(* to move, and always looks at the resolution before it settles a task:   *)
(* what the tests establish of their model holds of the program.           *)
ImplementsTestModel == TestModel!ModelSpec
=============================================================================
