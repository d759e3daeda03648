\* One task and the lamports around it: rents, gifts to the vault address and transfers
\* at any time, rewards a poor wallet may not receive and rewards nobody can fund.
SPECIFICATION Spec
CONSTANTS
    alice = alice
    bob = bob
    carol = carol
    nobody = nobody
    blank = blank
    text = text
    other = other
    None = None
    DefaultKey = nobody
    Keys = {alice, bob, carol}
    Texts = {blank, text}
    ValidTexts = {text}
    SubmissionTimeout = 1
    ReviewTimeout = 1
    ArbitrationTimeout = 1
    MaxTimestamp = 3
    VaultRent = 3
    WalletMinimum = 2
    MaxU64 = 16
    Creators = {alice}
    MaxTaskCount = 1
    Rewards = {1, 3, 14}
    Donations = {1, 2}
    Transfers = {2}
    Rent <- OneLamportAccounts
    InitialWallets <- Generous
CHECK_DEADLOCK FALSE
INVARIANTS
    TypeOK
    TaskShape
    CustodyMatchesStatus
    LamportsConserved
    EscrowHasExit
    ThreePartyDisputeHasExits
PROPERTIES
    SettlementMatchesStatus
    ImplementsCustody
