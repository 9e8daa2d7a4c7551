SPECIFICATION Spec
CONSTANTS
    o1 = o1
    o2 = o2
    v1 = v1
    v2 = v2
    bad = bad
    NoInstance = NoInstance
    Oid <- MCOid
    Instance <- MCInstance
    ValidInstance <- MCValidInstance
    MaxSequence = 4
    MaxJournal = 5
INVARIANTS
    TypeOK
    JournalNumbered
    JournalTellsActive
    StoreIsJournalled
    DeletesFollowPuts
PROPERTIES
    ChangesReachPollers
    HistoryOnlyGrows
    ImplementsExchange
CHECK_DEADLOCK FALSE
