CONSTANTS
    KeyOrder <- MCKeyOrder
    IntegerWords <- MCIntegerWords
    FloatWords <- MCFloatWords
    NonFinite = {"nan"}
    PortWords <- MCPortWords
    LengthWords <- MCLengthWords
    DeviceWords = {"PA-VM-01", "PA-lan"}
    DateWords = {"2026/06/02"}
    AfterBracket <- MCAfterBracket
    CommentWords = {"#"}
    Address <- MCAddress
    Found <- MCFound
    WordMarks <- MCWordMarks
    SuspiciousPatterns <- MCSuspiciousPatterns
    SuspiciousProcesses <- MCSuspiciousProcesses
    CriticalAssets <- MCCriticalAssets
    CorrelationRules <- MCCorrelationRules
    City <- MCCity
    Sources <- MCSources
    FeedAnswers <- MCFeedAnswers
    Invocations <- MCInvocations
    Databases = {"run/geoip/dbip-city-lite.mmdb"}
    VarPaths = {"/var/lib/city.mmdb"}
    MaxUsize = 1000000000
    Keys = {}
    NoSource = none
    CacheCap = 2
    Threshold = 1
    Window = 5
    CountMax = 3
    Workers = {"w1", "w2"}
    SyslogLines <- MCSyslogLines
    EkLines <- MCEkLines
    MaxItems = 2
    MaxLoads = 2
SPECIFICATION Spec
CHECK_DEADLOCK FALSE
INVARIANTS
    FieldsArrive
    FlowArrives
    ListedIsReported
    JudgedAfterLoad
    AlertMatchesRecord
PROPERTY
    StdinEnds
