CONSTANTS
    c1 = c1
    app = app
    residue = residue
    EmptyId = EmptyId
    ClientIds <- MCClientIds
    KnownClients <- MCClientIds
    Loggers <- MCAppLoggers
    NoTokenLoggers = {}
    ClientAge = 1
    TokenLife = 0
    MaxTime = 2
    MaxGen = 2
    MaxTokens = 1
    KnownLoggers <- MCAppLoggers
    Blacklist = {}
    InternalLogger = residue
    PlainLoggers = {}
    AllowPlain = FALSE
    AllowBulk = TRUE
    AllowUnknown = FALSE
    MaxItemsInBulk = 2
    MaxBulkLen = 2
    MaxRequests = 2
    SenderIds <- MCClientIds
    Encodings = {"sym"}
    ItemValidity = {TRUE}

SPECIFICATION Spec
INVARIANT NoDanglingClientUse
