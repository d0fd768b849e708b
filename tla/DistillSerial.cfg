\* One distillation at a time, crashes, a model that leaves facts out.
CONSTANTS
    w1 = w1
    w2 = w2
    w3 = w3
    t1 = t1
    k1 = k1
    Session = {a, b}
    Snippet <- Snippets
    Key = {k1}
    Token = {t1}
    ForeignKeys = FALSE
    Worker = {w1, w2, w3}
    Kind <- AllAuto
    NoSession = NoSession
    Entity <- FirstNamed
    NoToken = NoToken
    SnippetKeys <- OneKey
    MaxMemories = 3
    Serial = TRUE
    Crashes = TRUE
    Stops = TRUE
    Omits = TRUE
    Failing = {"distill", "merge", "link"}
SPECIFICATION Spec
INVARIANTS TypeOK KnowledgeKept IndexCurrent EntityTagged MatcherMirrors LinkIndexMirrors WatermarkSound StopCompletesReplacements
PROPERTIES ImplementsKnowledge
SYMMETRY Symmetry
CHECK_DEADLOCK FALSE
