\* Two passes of the command line on one session, one after the other.
CONSTANTS
    w1 = w1
    w2 = w2
    w3 = w3
    t1 = t1
    k1 = k1
    Session = {a}
    Snippet <- Snippets
    Key = {k1}
    Token = {t1}
    ForeignKeys = FALSE
    Worker = {w1, w2}
    Kind <- AllPasses
    NoSession = NoSession
    Entity <- NoneNamed
    NoToken = NoToken
    SnippetKeys <- OneKey
    MaxMemories = 3
    Serial = TRUE
    Crashes = FALSE
    Stops = FALSE
    Omits = FALSE
    Failing = {}
SPECIFICATION Spec
INVARIANT SemkeysLive
SYMMETRY Symmetry
CHECK_DEADLOCK FALSE
