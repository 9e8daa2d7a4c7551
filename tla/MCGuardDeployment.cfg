SPECIFICATION FairSpec
CONSTANTS
    usa = usa
    gbr = gbr
    eyes = eyes
    sar = sar
    HIGH = HIGH
    LOW = LOW
    THIRD = THIRD
    nato = nato
    uk = uk
    r1 = r1
    r2 = r2
    spif = spif
    None = None
    NoPolicyId = NoPolicyId
    NoDomainId = NoDomainId
    NoRuleId = NoRuleId
    Unparsable = Unparsable
    NoDocument = NoDocument
    MaxLevel = 2
    Unclassified = 0
    AllowedLevels <- MCAllowedLevels
    Country <- MCCountry
    Caveat <- MCCaveat
    Mission <- MCMission
    IntersectReleasability = TRUE
    StripEmpty = TRUE
    PolicyId <- MCPolicyId
    DomainId <- MCDomainId
    RuleId <- MCRuleId
    SpifRule = spif
    Nato = nato
    HighId = HIGH
    LowId = LOW
    Secret = 2
    Restricted = 1
    DefaultReleasable <- MCDefault
    Configs <- MCConfigs
    Registries <- MCRegistries
    Documents <- MCDocuments
    NewDomains <- MCNewDomains
    NewRules <- MCNewRules
    Labels <- MCLabels
    Faults = {"audit", "siem"}
    Attempts = 3
    MaxChanges = 2
    MaxTransfers = 2
    MaxForwards = 1
INVARIANTS
    TypeOK
    NatoGovernsReleasability
    CategoriesAreKept
    AccreditedReleasesAreDurable
    ForwardedIsDelivered
PROPERTIES
    ForwardEnds
CHECK_DEADLOCK FALSE
