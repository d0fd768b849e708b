\* Two processes on one pair of databases.
CONSTANTS
    serve = serve
    cli = cli
    r1 = r1
    r2 = r2
    r3 = r3
    Process = {serve, cli}
    Request = {r1, r2, r3}
    Host <- SharedHost
    Key = {k1}
    Token = {t1}
    Overlap = TRUE
SPECIFICATION Spec
INVARIANTS TypeOK IndexIsPrefix AnsweredIsSearchable LinksMirrored
PROPERTY ImplementsLog
SYMMETRY Symmetry
CHECK_DEADLOCK FALSE
