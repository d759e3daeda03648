\* One task and its log over every way its life can go.
SPECIFICATION LogSpec
CONSTANTS
    alice = alice
    bob = bob
    carol = carol
    nobody = nobody
    text = text
    None = None
    DefaultKey = nobody
    Keys = {alice, bob, carol}
    Texts = {text}
    ValidTexts = {text}
    SubmissionTimeout = 2
    ReviewTimeout = 1
    ArbitrationTimeout = 1
    MaxTimestamp = 4
    VaultRent = 2
    WalletMinimum = 1
    MaxU64 = 10
    Creators = {alice}
    MaxTaskCount = 1
    Rewards = {2}
    Donations = {1}
    Transfers = {}
    Rent <- FreeAccounts
    InitialWallets <- PoorWorkers
SYMMETRY OtherKeys
INVARIANTS
    ReaderCanReorder
    LogTellsStatus
    EventsStayTrue
    AuditorKnowsLiability
PROPERTY ReleaseIsAnnounced
CHECK_DEADLOCK FALSE
