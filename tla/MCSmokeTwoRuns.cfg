\* Two runs of the same operator, at the same time or one after the other.
SPECIFICATION SmokeSpec
CONSTANTS
    alice = alice
    ann = ann
    ben = ben
    carol = carol
    nobody = nobody
    text = text
    run1 = run1
    run2 = run2
    None = None
    DefaultKey = nobody
    Keys = {alice, ann, ben, carol}
    Texts = {text}
    ValidTexts = {text}
    SubmissionTimeout = 1
    ReviewTimeout = 1
    ArbitrationTimeout = 1
    MaxTimestamp = 3
    VaultRent <- VaultAccountRent
    WalletMinimum <- WalletRent
    MaxU64 = 2147483647
    Creators = {alice}
    MaxTaskCount = 2
    Rewards = {1000000}
    Donations = {}
    Transfers = {}
    Rent <- AccountRents
    InitialWallets <- EnoughForTwo
    Runs = {run1, run2}
    Operator = alice
    WorkerOf <- WorkerKeys
    Strangers = {carol}
    SmokeText = text
    RewardLamports <- RewardOfScript
    MinCreatorBalance <- MinBalanceOfScript
INVARIANTS
    OnlyInterferenceFailsARun
    OneDriverPerTask
CHECK_DEADLOCK FALSE
