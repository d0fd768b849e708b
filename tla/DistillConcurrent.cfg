\* A distillation of the service and a forced pass of the command line over both sessions at
\* once; every call that can end or cut short a distillation may fail, processes may be killed.
CONSTANTS
    w1 = w1
    w2 = w2
    w3 = w3
    t1 = t1
    k1 = k1
    Session = {a, b}
    Snippet <- Snippets
    Key = {k1}
    Token = {t1}
    ForeignKeys = FALSE
    Worker = {w1, w3}
    Kind <- LastForced
    NoSession = NoSession
    Entity <- FirstNamed
    NoToken = NoToken
    SnippetKeys <- OneKey
    MaxMemories = 2
    Serial = FALSE
    Crashes = TRUE
    Stops = FALSE
    Omits = FALSE
    Failing = {"request", "clear", "clearMark", "readMark", "readMemories", "distill", "merge", "replace", "setMark", "store", "link", "scanKeys", "scanRows"}
SPECIFICATION FairSpec
INVARIANT WatermarkSound
PROPERTY LeftIsDistilled
CHECK_DEADLOCK FALSE
