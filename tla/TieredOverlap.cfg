\* Two chats of one session at once; nothing fails.
CONSTANTS
    c1 = c1
    c2 = c2
    t1 = t1
    t2 = t2
    k1 = k1
    Session = {a}
    Snippet = {x}
    Key = {k1}
    Token = {t1, t2}
    ForeignKeys = FALSE
    Chat = {c1, c2}
    NoSession = NoSession
    TopK = 1
    WikiTopK = 1
    PersonalWeight = 1
    MinScore = 2
    MaxMatches = 2
    MaxRows = 2
    OneAtATime = FALSE
    Failing = {}
SPECIFICATION Spec
INVARIANT NeverRepeated
SYMMETRY Symmetry
CHECK_DEADLOCK FALSE
