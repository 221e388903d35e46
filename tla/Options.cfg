\* A CGI script, or its author at a terminal: at most two calls of uncgi.
CONSTANTS
    Name <- MCName
    Extends <- MCExtends
    Word = {"x", "y", "z", "k", "l"}
    Requests <- MCRequests
    MAX_CNAME = 4
    Separators = {","}
    MaxCalls = 2
    Interactive = TRUE
SPECIFICATION Spec
INVARIANTS OInv FieldsAreKept CookiesAreKept TableIsEmptied PrintsAsTold OptionsAreShown ErrorsWhereTold
