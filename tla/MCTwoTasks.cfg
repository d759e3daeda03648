\* One creator with two tasks, up to the overflow of task_count.
SPECIFICATION Spec
CONSTANTS
    alice = alice
    bob = bob
    carol = carol
    nobody = nobody
    blank = blank
    text = text
    other = other
    None = None
    DefaultKey = nobody
    Texts = {text}
    ValidTexts = {text}
    SubmissionTimeout = 1
    ReviewTimeout = 1
    ArbitrationTimeout = 1
    VaultRent = 1
    WalletMinimum = 1
    MaxU64 = 20
    Rewards = {1}
    Keys = {alice, bob}
    MaxTimestamp = 2
    Creators = {alice}
    MaxTaskCount = 2
    Donations = {}
    Transfers = {}
    Rent <- FreeAccounts
    InitialWallets <- PoorWorkers
INVARIANT ContiguousNumbering
CHECK_DEADLOCK FALSE
