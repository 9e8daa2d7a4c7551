SPECIFICATION Spec
CONSTANTS
    usa = usa
    gbr = gbr
    NoNode = NoNode
    o1 = o1
    o2 = o2
    rel1 = rel1
    rel2 = rel2
    nat = nat
    own = own
    NoInstance = NoInstance
    MaxSequence = 12
    Node <- MCNode
    Pull <- MCPull
    Publisher <- MCPublisher
    Webhooks <- MCWebhooks
    Readable <- MCReadable
    Oid <- MCOid
    Instance <- MCInstance
    ValidInstance <- MCInstance
    Deployments <- OverlapDeployments
CHECK_DEADLOCK FALSE
PROPERTY DisappearsOnlyByDelete
