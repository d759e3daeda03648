\* One run, with just enough lamports, among strangers.
SPECIFICATION FairSmokeSpec
CONSTANTS
    alice = alice
    ann = ann
    ben = ben
    carol = carol
    nobody = nobody
    text = text
    run1 = run1
    run2 = run2
    None = None
    DefaultKey = nobody
    Keys = {alice, ann, carol}
    Texts = {text}
    ValidTexts = {text}
    SubmissionTimeout = 1
    ReviewTimeout = 1
    ArbitrationTimeout = 1
    MaxTimestamp = 3
    VaultRent <- VaultAccountRent
    WalletMinimum <- WalletRent
    MaxU64 = 2147483647
    Creators = {alice}
    MaxTaskCount = 1
    Rewards = {1000000}
    Donations <- Gifts
    Transfers <- Gifts
    Rent <- AccountRents
    InitialWallets <- JustEnough
    Runs = {run1}
    Operator = alice
    WorkerOf <- OneWorkerKey
    Strangers = {carol}
    SmokeText = text
    RewardLamports <- RewardOfScript
    MinCreatorBalance <- MinBalanceOfScript
INVARIANT OnlyInterferenceFailsARun
PROPERTIES
    EveryRunEnds
    AbandonedEscrowEnds
CHECK_DEADLOCK FALSE
