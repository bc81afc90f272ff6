SPECIFICATION ProtocolSpec
CONSTANTS
    alice = alice
    bob = bob
    carol = carol
    NoClient = NoClient
    NoGroup = NoGroup
    NoCommit = NoCommit
    NoLeaf = NoLeaf
    NoSnap = NoSnap
    Clients = {alice, bob}
    Handles = {1, 2}
    Persisting = {}
    Groups = {1}
    ReplaceStored = TRUE
    KeysEach = 2
    MaxLeaf = 2
    MaxIndex = 3
    MaxQueue = 2
    MaxFresh = 9
    MaxGen = 1
    MaxOffset = 4
    Accounts <- TwoAccounts
INVARIANTS PendingFlagged NeverAhead RosterConsistent QueueTracksOffset
PROPERTIES OffsetMonotone
CHECK_DEADLOCK FALSE
