CONSTANTS
    Thread = {t1, t2, t3}
    Client = {c1, c2}
    Null = Null
    Nothing = Nothing
    HTTP_OK = 200
    NotSet = NotSet
    Header = {h1}
    Param = {p1}
    Status = {404}
SPECIFICATION ServiceSpec
SYMMETRY Symmetry
INVARIANT MethodAsAsked
