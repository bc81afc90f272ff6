SPECIFICATION CleanSpec
CONSTANTS
    alice = alice
    bob = bob
    carol = carol
    NoClient = NoClient
    NoGroup = NoGroup
    NoCommit = NoCommit
    NoLeaf = NoLeaf
    NoSnap = NoSnap
    Clients = {alice, bob}
    Handles = {1}
    Persisting = {}
    Groups = {1}
    ReplaceStored = TRUE
    KeysEach = 1
    MaxLeaf = 2
    MaxIndex = 3
    MaxQueue = 2
    MaxFresh = 4
    MaxGen = 1
    MaxOffset = 4
    Accounts <- SharedAccounts
INVARIANTS OwnedByIdentity LayersAgree
CHECK_DEADLOCK FALSE
