SPECIFICATION Spec
CONSTANTS
    Threads = {t1}
    Addresses = {a1}
    Objects = {o1}
    Main = t1
    Null = Null
    Unborn = Unborn
    Calls <- EntryPoints
    Languages <- DartOnly
    MaxCalls = 1
INVARIANTS FinalizedOnce
CHECK_DEADLOCK FALSE
