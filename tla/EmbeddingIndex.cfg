\* Three clusterings, one rewritten while the index is built from its five tables;
\* every text of up to three words.
CONSTANTS
    x = x
    y = y
    u = u
    Word = {x, y, u}
    Names <- ThreeNames
    Token = {11, 12, 13}
    Cluster = {1, 2, 3}
    Snapshots <- Clusterings
    NoIndex = NoIndex
    Torn = Torn
    MaxText = 3
    MaxReclusters = 1
    MaxBuilds = 2
    TopClusters = 2
    T2 = 60
    T1 = 50
    T0 = 40
SPECIFICATION Spec
INVARIANT TypeOK
INVARIANT CandidatesMatch
INVARIANT WholeMatchFound
INVARIANT SharedChildGainsNothing
INVARIANT LongestPhraseWins
INVARIANT LearnedNameIsHit
CHECK_DEADLOCK FALSE
