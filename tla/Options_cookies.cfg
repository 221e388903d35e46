\* One call of uncgi, with one request that has cookies.
CONSTANTS
    Name <- MCName
    Extends <- MCExtends
    Word = {"x", "y", "z", "k", "l"}
    Requests <- MCRequests
    MAX_CNAME = 4
    Separators = {","}
    MaxCalls = 1
    Interactive = FALSE
SPECIFICATION Spec
INVARIANT CookieKeysAreNames
