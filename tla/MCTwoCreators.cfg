\* Two creators who work for each other; carol arbitrates (or works, or both).
SPECIFICATION Spec
CONSTANTS
    alice = alice
    bob = bob
    carol = carol
    nobody = nobody
    blank = blank
    text = text
    other = other
    None = None
    DefaultKey = nobody
    Texts = {text}
    ValidTexts = {text}
    SubmissionTimeout = 1
    ReviewTimeout = 1
    ArbitrationTimeout = 1
    VaultRent = 1
    WalletMinimum = 1
    MaxU64 = 20
    Rewards = {1}
    Keys = {alice, bob, carol}
    MaxTimestamp = 2
    Creators = {alice, bob}
    MaxTaskCount = 1
    Donations = {}
    Transfers = {}
    Rent <- FreeAccounts
    InitialWallets <- TwoCreators
SYMMETRY CreatorsSymmetry
INVARIANT LamportsConserved
PROPERTIES
    SettlementMatchesStatus
    TerminalIsFinal
CHECK_DEADLOCK FALSE
