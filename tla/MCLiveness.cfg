\* One task and one reward under fairness, and next to the model of the property tests.
SPECIFICATION FairSpec
CONSTANTS
    alice = alice
    bob = bob
    carol = carol
    nobody = nobody
    blank = blank
    text = text
    other = other
    None = None
    DefaultKey = nobody
    Keys = {alice, bob, carol}
    Texts = {blank, text}
    ValidTexts = {text}
    SubmissionTimeout = 2
    ReviewTimeout = 2
    ArbitrationTimeout = 2
    MaxTimestamp = 7
    VaultRent = 2
    WalletMinimum = 1
    MaxU64 = 10
    Creators = {alice}
    MaxTaskCount = 1
    Rewards = {1}
    Donations = {}
    Transfers = {}
    Rent <- FreeAccounts
    InitialWallets <- PoorWorkers
PROPERTIES
    SubmissionIsSettled
    EscrowIsReleased
    ImplementsTestModel
CHECK_DEADLOCK FALSE
