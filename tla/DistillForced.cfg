\* A pass of the command line and a forced one, one after the other; clearing
\* the watermark may fail.
CONSTANTS
    w1 = w1
    w2 = w2
    w3 = w3
    t1 = t1
    k1 = k1
    Session = {a}
    Snippet <- Snippets
    Key = {k1}
    Token = {t1}
    ForeignKeys = FALSE
    Worker = {w1, w3}
    Kind <- PassesAndForced
    NoSession = NoSession
    Entity <- NoneNamed
    NoToken = NoToken
    SnippetKeys <- OneKey
    MaxMemories = 3
    Serial = TRUE
    Crashes = FALSE
    Stops = FALSE
    Omits = FALSE
    Failing = {"clearMark"}
SPECIFICATION Spec
INVARIANT KnowledgeKept
CHECK_DEADLOCK FALSE
