\* One task over the whole range of time, up to the overflow of every deadline;
\* every key may take every role, evidence may differ.
SPECIFICATION Spec
CONSTANTS
    alice = alice
    bob = bob
    carol = carol
    nobody = nobody
    blank = blank
    text = text
    other = other
    None = None
    DefaultKey = nobody
    Keys = {alice, bob, carol}
    Texts = {blank, text, other}
    ValidTexts = {text, other}
    SubmissionTimeout = 2
    ReviewTimeout = 2
    ArbitrationTimeout = 2
    MaxTimestamp = 7
    VaultRent = 2
    WalletMinimum = 2
    MaxU64 = 10
    Creators = {alice}
    MaxTaskCount = 1
    Rewards = {0, 1, 2}
    Donations = {}
    Transfers = {}
    Rent <- FreeAccounts
    InitialWallets <- PoorWorkers
SYMMETRY OtherKeys
INVARIANTS
    ResolutionAgreement
    AssignmentAgreement
    DeadlineChain
    LockIsBounded
    OneWinnerPerDeadline
    EscrowHasExit
    ThreePartyDisputeHasExits
PROPERTIES
    EvidenceIsWrittenOnce
    ArbitratorIsKnownBeforehand
    ImplementsLifecycle
CHECK_DEADLOCK FALSE
