SPECIFICATION Spec
CONSTANTS
    a = a
    b = b
    c = c
    rel1 = rel1
    rel2 = rel2
    nat = nat
    alien = alien
    NoInstance = NoInstance
    Setups <- Sound
    MaxWrites = 5
    MaxSequence = 20
    Oid <- MCOid
    PublisherOid <- MCPublisherOid
    ConsumerOid <- MCConsumerOid
    Instance <- MCInstance
    ValidInstance <- MCInstance
    Readable <- MCReadable
    Accepted <- MCAccepted
INVARIANTS
    TypeOK
    CursorCovers
    PullConverges
CHECK_DEADLOCK FALSE
