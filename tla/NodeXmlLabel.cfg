SPECIFICATION Spec
CONSTANTS
    usa = usa
    gbr = gbr
    eyes = eyes
    sar = sar
    o1 = o1
    o2 = o2
    o3 = o3
    k1 = k1
    k2 = k2
    dnA = dnA
    dnC = dnC
    idA = idA
    cnA = cnA
    cnC = cnC
    fpC = fpC
    fpX = fpX
    Target = Target
    Unit = Unit
    name = name
    links = links
    NATO = NATO
    NatoOid = NatoOid
    None = None
    Nobody = Nobody
    Unreadable = Unreadable
    NoPolicyId = NoPolicyId
    NoAssertion = NoAssertion
    NoDigest = NoDigest
    NoKey = NoKey
    NoHeader = NoHeader
    NoParameter = NoParameter
    NoInstance = NoInstance
    NoWalk = NoWalk
    NoPackage = NoPackage
    MimVersion = "5.1.0"
    MaxLevel = 2
    Unclassified = 0
    AllowedLevels <- MCAllowedLevels
    Country <- MCCountry
    Caveat <- MCCaveat
    Mission <- MCMission
    IntersectReleasability = TRUE
    StripEmpty = TRUE
    PolicyId <- MCPolicyId
    Defaults <- MCDefaults
    NoSecurity <- MCNoSecurity
    XmlName <- MCXmlName
    DefaultPrincipal <- MCDefaultPrincipal
    Oid <- MCOid
    Instance <- MCInstance
    ValidInstance <- MCValidInstance
    MaxSequence = 9
    PutRequest <- XmlPutRequest
    OidRequest <- MCOidRequest
    Reader <- MCReader
    QueryRequest <- MCQueryRequest
    ReleaseRequest <- MCReleaseRequest
    Own <- MCOwn
    TheFederation <- MCFederation
    TheDirectory <- MCDirectory
    Config <- MCConfig
    TrustedKey = {k1}
    NodeDomain <- MCNodeDomain
    TargetDomain <- MCTargetDomain
    NodeSubject <- MCNodeSubject
    NodeKey = k1
    Kas = "kas"
    PageSize = 1
    MaxJournal = 4
    ReleaseBy = 1
INVARIANTS
    OperatorsAreCleared
CHECK_DEADLOCK FALSE
