\* The smallest instance in which a dispute can lose its exits.
SPECIFICATION Spec
CONSTANTS
    alice = alice
    bob = bob
    carol = carol
    nobody = nobody
    blank = blank
    text = text
    other = other
    None = None
    DefaultKey = nobody
    Texts = {text}
    ValidTexts = {text}
    SubmissionTimeout = 1
    ReviewTimeout = 1
    ArbitrationTimeout = 1
    VaultRent = 1
    WalletMinimum = 1
    MaxU64 = 20
    Rewards = {1}
    Keys = {alice, bob}
    MaxTimestamp = 3
    Creators = {alice}
    MaxTaskCount = 1
    Donations = {}
    Transfers = {}
    Rent <- FreeAccounts
    InitialWallets <- PoorWorkers
INVARIANT DisputeHasExit
CHECK_DEADLOCK FALSE
