SPECIFICATION FairSpec
CONSTANTS
    Object = Object
    Action = Action
    Metadata = Metadata
    Request = Request
    Unit = Unit
    Vessel = Vessel
    Trackcode = Trackcode
    Hot = Hot
    Float = Float
    Child = Child
    Ownedby = Ownedby
    Owns = Owns
    Speed = Speed
    Label = Label
    UnitRange = UnitRange
    UnitRangeCode = UnitRangeCode
    NoName = NoName
    NoParent = NoParent
    NameOrder <- MCNameOrder
    Display <- MCDisplay
    EventLike <- MCEventLike
    CodeLike <- MCCodeLike
    ActionRoot = "ACTION"
    ObjectName = Object
    ActionName = Action
    MetadataNames <- MCMetadata
    MinMetadataElements = 1
    SampleNames = {Object, Unit}
    CodeListName <- MCCodeListName
    Declarations <- MCDeclarations
    MaxDeclarations = 4
    Options <- MCOptions
    Core <- MCCore
    Instances <- MCInstances
INVARIANTS
    OntologyIsKept
    ImportsLoad
    ReportedIsLoaded
    ComplianceIsEarned
    ValidationIsComplete
PROPERTIES
    LoopsEnd
CHECK_DEADLOCK FALSE
