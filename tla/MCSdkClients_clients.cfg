SPECIFICATION Spec
CONSTANTS
    Threads = {t1, t2}
    Addresses = {a1, a2}
    Objects = {o1, o2}
    Main = t1
    Null = Null
    Unborn = Unborn
    Calls <- EntryPoints
    Languages <- AllLanguages
    MaxCalls = 3
INVARIANTS TypeOK HandleOwnedOnce BuffersOwned TextNotOlder
PROPERTIES ImplementsAtomic CallsComplete
CHECK_DEADLOCK FALSE
