SPECIFICATION DegradedSpec
CONSTANTS
    alice = alice
    bob = bob
    carol = carol
    NoClient = NoClient
    NoGroup = NoGroup
    NoCommit = NoCommit
    NoLeaf = NoLeaf
    NoSnap = NoSnap
    Clients = {alice, bob}
    Handles = {1, 2}
    Persisting = {}
    Groups = {1, 2}
    ReplaceStored = TRUE
    KeysEach = 1
    MaxLeaf = 2
    MaxIndex = 3
    MaxQueue = 1
    MaxFresh = 5
    MaxGen = 1
    MaxOffset = 1
    Accounts <- TwoAccounts
INVARIANTS RosterConsistent
PROPERTIES Resynchronises
CHECK_DEADLOCK FALSE
