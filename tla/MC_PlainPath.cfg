CONSTANTS
    c1 = c1
    app = app
    residue = residue
    EmptyId = EmptyId
    ClientIds <- MCClientIds
    KnownClients <- MCClientIds
    Loggers <- MCLoggers
    NoTokenLoggers = {}
    ClientAge = 1
    TokenLife = 0
    MaxTime = 2
    MaxGen = 2
    MaxTokens = 1
    KnownLoggers <- MCAppLoggers
    Blacklist = {}
    InternalLogger = residue
    PlainLoggers <- MCAppLoggers
    AllowPlain = TRUE
    AllowBulk = FALSE
    AllowUnknown = TRUE
    MaxItemsInBulk = 2
    MaxBulkLen = 1
    MaxRequests = 2
    SenderIds <- MCSenderIds
    Encodings = {"sym", "plain"}
    ItemValidity = {TRUE, FALSE}

SPECIFICATION Spec
INVARIANT IInv
