SPECIFICATION CrashSpec
CONSTANTS
    alice = alice
    bob = bob
    carol = carol
    NoClient = NoClient
    NoGroup = NoGroup
    NoCommit = NoCommit
    NoLeaf = NoLeaf
    NoSnap = NoSnap
    Clients = {alice, bob}
    Handles = {1, 2}
    Persisting = {1, 2}
    Groups = {1}
    ReplaceStored = FALSE
    KeysEach = 1
    MaxLeaf = 2
    MaxIndex = 3
    MaxQueue = 1
    MaxFresh = 6
    MaxGen = 1
    MaxOffset = 2
    Accounts <- TwoAccounts
INVARIANTS TypeOK ExportRestorable NotStranded GenerationsUnique
PROPERTIES ImplementsLifecycle
CHECK_DEADLOCK FALSE
