\* The service alone, with fairness.
CONSTANTS
    serve = serve
    cli = cli
    r1 = r1
    r2 = r2
    r3 = r3
    Process = {serve}
    Request = {r1, r2, r3}
    Host <- OneHost
    Key = {k1}
    Token = {}
    Overlap = FALSE
SPECIFICATION FairSpec
INVARIANT TurnsDistinct
PROPERTY StoredBecomesSearchable
CHECK_DEADLOCK FALSE
