\* The same, looking for an unwrap that fails.
SPECIFICATION ModelSpec
CONSTANTS
    creator = creator
    worker_a = worker_a
    worker_b = worker_b
    arbitrator = arbitrator
    outsider = outsider
    nobody = nobody
    text = text
    None = None
    DefaultKey = nobody
    Keys = {creator, worker_a, worker_b, arbitrator, outsider}
    Texts = {text}
    ValidTexts = {text}
    References = {text}
    SubmissionTimeout = 2
    ReviewTimeout = 2
    ArbitrationTimeout = 2
    MaxTimestamp = 6
    Creator = creator
    Selectable = {worker_a}
    Arbitrators = {arbitrator}
    RewardAmounts = {2}
INVARIANT UnwrapsAreSafe
CHECK_DEADLOCK FALSE
