SPECIFICATION AdminSpec
CONSTANTS
    alice = alice
    bob = bob
    carol = carol
    NoClient = NoClient
    NoGroup = NoGroup
    NoCommit = NoCommit
    NoLeaf = NoLeaf
    NoSnap = NoSnap
    Clients = {alice, bob, carol}
    Handles = {1, 2, 3}
    Persisting = {}
    Groups = {1}
    ReplaceStored = TRUE
    KeysEach = 2
    MaxLeaf = 4
    MaxIndex = 6
    MaxQueue = 2
    MaxFresh = 13
    MaxGen = 1
    MaxOffset = 6
    Accounts <- ThreeAccounts
INVARIANTS DenseMapExact
PROPERTIES Converges
CHECK_DEADLOCK FALSE
