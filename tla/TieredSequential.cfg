\* A session has one chat at a time; rows are inserted, deleted and reindexed at
\* any moment, the process may restart, any database call of a chat may fail that
\* does not make the tracker forget.
CONSTANTS
    c1 = c1
    c2 = c2
    t1 = t1
    t2 = t2
    k1 = k1
    Session = {a}
    Snippet = {x}
    Key = {k1}
    Token = {t1}
    ForeignKeys = FALSE
    Chat = {c1, c2}
    NoSession = NoSession
    TopK = 1
    WikiTopK = 1
    PersonalWeight = 1
    MinScore = 2
    MaxMatches = 2
    MaxRows = 2
    OneAtATime = TRUE
    Failing = {"fetch", "store"}
SPECIFICATION Spec
INVARIANTS TypeOK NeverRepeated AnswerWithoutDuplicates ExclusionMeansSeen
SYMMETRY Symmetry
CHECK_DEADLOCK FALSE
