\* Three passes of the command line on one session, beside the service that
\* stores its memories; nothing fails and nothing is killed.
CONSTANTS
    w1 = w1
    w2 = w2
    w3 = w3
    t1 = t1
    k1 = k1
    Session = {a}
    Snippet <- Snippets
    Key = {k1}
    Token = {t1}
    ForeignKeys = FALSE
    Worker = {w1, w2, w3}
    Kind <- AllPasses
    NoSession = NoSession
    Entity <- NoneNamed
    NoToken = NoToken
    SnippetKeys <- OneKey
    MaxMemories = 3
    Serial = FALSE
    Crashes = FALSE
    Stops = FALSE
    Omits = FALSE
    Failing = {}
SPECIFICATION Spec
INVARIANT NothingLostForGood
SYMMETRY Symmetry
CHECK_DEADLOCK FALSE
