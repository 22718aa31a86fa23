CONSTANTS
    a = a
    b = b
    Chunks <- MCChunks
    MaxChunks = 3
    Statuses = {200, 404}
    UrlKinds = {"http", "https", "invalid"}

SPECIFICATION CurlSpec
INVARIANT ContentOnlyFromOk
