CONSTANTS
    Junk = Junk
    Unwritten = Unwritten
    Docs <- MCDocs
    Path <- MCPath
    Callback = {f, g}
    NodePathCap = 6
    HandlerCap = 2
    NoCall = NoCall
    MaxCallbacks = 4
SPECIFICATION ParserSpec
SYMMETRY Symmetry
INVARIANTS
    CallsExact
    SafeWithinLimits
