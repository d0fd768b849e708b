------------------------------ MODULE Embedding ------------------------------
(***************************************************************************)
(* What a text is turned into: the life of the cluster index (the tables a *)
(* clustering job writes, Build with its five statements and its file, the *)
(* copy a process loads when it starts) and of the registry of names, and  *)
(* what Index.Query and Matcher.Match answer from them.                    *)
(***************************************************************************)
EXTENDS ClusterIndex, PhraseScan

CONSTANTS
    Word,           \* words, after SplitWords and ToLower
    Names,          \* entities the registry may learn, as they are written
    Token, Cluster, \* token ids and cluster ids
    Snapshots,      \* contents the tables may have
    NoIndex,        \* no file, or nothing loaded
    Torn,           \* a file that was begun and not finished
    MaxText,        \* bound: words of a text
    MaxReclusters,  \* bound: how often the tables are rewritten
    MaxBuilds       \* bound: runs of `semcom build'

\* The rows of a table: a function on the ids that have one.
IsRows(f, Id, Value) == DOMAIN f \subseteq Id /\ f \in [DOMAIN f -> Value]
IsMembers(f) == IsRows(f, Cluster, SUBSET Cluster)
Texts == UNION {[1..n -> Word] : n \in 1..MaxText}

\* The tables Build reads, one after the other, and what comes next.
After == [words |-> "l0", l0 |-> "l1", l1 |-> "l2", l2 |-> "l3", l3 |-> "create"]
BuildSteps == DOMAIN After \cup {"idle", "create", "encode"}

\* The contents of the five tables.
IsTables(t) ==
    /\ DOMAIN t = DOMAIN After
    /\ IsRows(t.words, Texts, Token)
    /\ IsRows(t.l0, Cluster, SUBSET Token)
    /\ IsMembers(t.l1) /\ IsMembers(t.l2) /\ IsMembers(t.l3)

\* An entity as the model wrote it, in lower case: the words SplitWords finds in it,
\* and whether it is those words with one space between two and nothing else.  A
\* hyphen, a dot or a second space is lost to SplitWords and kept by the registry.
Spellings == [words : Texts, spaced : BOOLEAN]
WrittenAs(words) == [words |-> words, spaced |-> TRUE]

ASSUME TextAssumption == MaxText \in Nat /\ Names \subseteq Spellings
ASSUME SnapshotAssumption == \A t \in Snapshots : IsTables(t)
ASSUME FiniteAssumption == IsFiniteSet(Token) /\ IsFiniteSet(Cluster)
ASSUME BoundAssumption == MaxReclusters \in Nat /\ MaxBuilds \in Nat

VARIABLES
    db,             \* PostgreSQL: the five tables
    reclusters,     \* how often they were rewritten
    step,           \* next step of Build: a table to read, or one of the last two
    read,           \* what Build has read so far
    builds,         \* runs of Build
    file,           \* index.bin
    idx,            \* the index a process has loaded
    registry,       \* names Matcher knows, spelled as they were learned
    reply           \* what a text was turned into, until the process learns a name or ends

buildVars == <<step, read, builds>>
vars == <<db, reclusters, buildVars, file, idx, registry, reply>>

NoReply == [text |-> << >>]

Init ==
    /\ db \in Snapshots
    /\ reclusters = 0
    /\ step = "idle" /\ read = db /\ builds = 0
    /\ file = NoIndex
    /\ idx = NoIndex
    /\ registry = {}
    /\ reply = NoReply

-----------------------------------------------------------------------------
(* The index file *)

\* The clustering job (not part of this code) writes other clusters.
Recluster ==
    /\ reclusters < MaxReclusters
    /\ reclusters' = reclusters + 1
    /\ db' \in Snapshots \ {db}
    /\ UNCHANGED <<buildVars, file, idx, registry, reply>>

StartBuild ==
    /\ step = "idle" /\ builds < MaxBuilds
    /\ builds' = builds + 1
    /\ step' = "words"
    /\ UNCHANGED <<db, reclusters, read, file, idx, registry, reply>>

\* loadWords, loadL0, loadMembers: one statement each, no transaction.
ReadTable ==
    /\ step \in DOMAIN After
    /\ read' = [read EXCEPT ![step] = db[step]]
    /\ step' = After[step]
    /\ UNCHANGED <<db, reclusters, builds, file, idx, registry, reply>>

\* os.Create truncates what was there.
CreateFile ==
    /\ step = "create"
    /\ file' = Torn
    /\ step' = "encode"
    /\ UNCHANGED <<db, reclusters, read, builds, idx, registry, reply>>

EncodeFile ==
    /\ step = "encode"
    /\ file' = Compile(read)
    /\ step' = "idle"
    /\ UNCHANGED <<db, reclusters, read, builds, idx, registry, reply>>

\* A statement or the encoder fails, or the command is killed.
AbortBuild ==
    /\ step # "idle"
    /\ step' = "idle"
    /\ UNCHANGED <<db, reclusters, read, builds, file, idx, registry, reply>>

-----------------------------------------------------------------------------
(* A process that uses it *)

\* Load: a file that cannot be decoded is fatal.
Load ==
    /\ idx = NoIndex
    /\ file \notin {NoIndex, Torn}
    /\ idx' = file
    /\ UNCHANGED <<db, reclusters, buildVars, file, registry, reply>>

Exit ==
    /\ idx # NoIndex
    /\ idx' = NoIndex
    /\ reply' = NoReply
    /\ UNCHANGED <<db, reclusters, buildVars, file, registry>>

\* Only an entity with a word the vocabulary lacks is learned.
OutOfVocabulary(name) == Unknown(name.words, DOMAIN idx.words) # {}

\* AddToken stores the name as it is written (what is stored of it in the database
\* is in SessionDistillation).
AddToken(name) ==
    /\ idx # NoIndex
    /\ OutOfVocabulary(name)
    /\ registry' = registry \cup {name}
    /\ reply' = NoReply
    /\ UNCHANGED <<db, reclusters, buildVars, file, idx>>

\* What Match can find: it joins words of the text with one space between two and
\* looks up what comes out, so of the names those that are written like this.
Phrases(names) == {words \in {n.words : n \in names} : WrittenAs(words) \in names}

\* Index.Query and Matcher.Match on one text, as Ingest and Chat call them.  They
\* change nothing, so one reply is looked at at a time.
Query(text) ==
    LET q == {idx.words[p] : p \in Hits(text, DOMAIN idx.words)} IN
    /\ idx # NoIndex /\ reply = NoReply
    /\ \E top \in TopOverlaps(q, idx.b3) :
        LET levels == Levels(idx, q, top)
        IN reply' = [text |-> text, q |-> q, oov |-> Unknown(text, DOMAIN idx.words),
                     levels |-> levels, tokens |-> TokensOf(idx, DOMAIN levels.c0),
                     names |-> Hits(text, Phrases(registry))]
    /\ UNCHANGED <<db, reclusters, buildVars, file, idx, registry>>

Next ==
    \/ Recluster
    \/ StartBuild \/ ReadTable \/ CreateFile \/ EncodeFile \/ AbortBuild
    \/ Load \/ Exit
    \/ \E name \in Names : AddToken(name)
    \/ \E text \in Texts : Query(text)

Spec == Init /\ [][Next]_vars

-----------------------------------------------------------------------------
(* Properties *)

Replied == reply # NoReply

\* The levels of a reply, each with the members that lead to it and its bitmaps.
Drills == {<<reply.levels.c3, idx.l3, reply.levels.c2, idx.b2, T2>>,
           <<reply.levels.c2, idx.l2, reply.levels.c1, idx.b1, T1>>,
           <<reply.levels.c1, idx.l1, reply.levels.c0, idx.b0, T0>>}

TypeOK ==
    /\ db \in Snapshots
    /\ reclusters \in 0..MaxReclusters /\ builds \in 0..MaxBuilds
    /\ step \in BuildSteps
    /\ IsTables(read)
    /\ idx # NoIndex => IsRows(idx.b3, Cluster, SUBSET Token)
    /\ registry \subseteq Names
    /\ Replied => /\ idx # NoIndex
                  /\ reply.q \subseteq Token
                  /\ DOMAIN reply.levels.c0 \subseteq DOMAIN idx.l0

\* "Narrows at each level to only the tokens that matched": however the narrowed
\* queries of several parents were joined on the way, a candidate carries exactly
\* the tokens of the text its cluster has, and at least one; so every key a text
\* gets is a cluster with one of its words, also from tables that were read while
\* they were being rewritten.
CandidatesMatch ==
    Replied =>
        /\ \A c \in DOMAIN reply.levels.c3 :
               reply.levels.c3[c] = reply.q \cap idx.b3[c] /\ reply.levels.c3[c] # {}
        /\ \A d \in Drills : \A c \in DOMAIN d[3] :
               d[3][c] = reply.q \cap d[4][c] /\ d[3][c] # {}

\* A cluster that has all the tokens of a text is among its keys if any chain of
\* memberships leads to it, unless there are more such clusters at the top than
\* are looked into: neither the thresholds nor other branches get in the way.
WholeMatchFound ==
    Replied /\ reply.q # {} =>
        LET whole == {c \in DOMAIN idx.b3 : reply.q \subseteq idx.b3[c]}
        IN Cardinality(whole) <= TopClusters =>
            \A c3 \in DOMAIN idx.l3 : \A c2 \in idx.l3[c3] \cap DOMAIN idx.l2 :
            \A c1 \in idx.l2[c2] \cap DOMAIN idx.l1 : \A c0 \in idx.l1[c1] \cap DOMAIN idx.b0 :
                reply.q \subseteq idx.b0[c0] => c0 \in DOMAIN reply.levels.c0

\* Joining the queries of several parents never lets a child pass that one of them
\* would not let pass by itself (the comment of drillDown says it gives the child
\* "the best chance to pass").
SharedChildGainsNothing ==
    Replied => \A d \in Drills : \A c \in DOMAIN d[3] :
        \A p \in ParentsOf(c, d[1], d[2]) : Enough(d[1][p], d[4][c], d[5])

\* "The longest matching phrase wins": what a text is embedded and matched by are
\* the pieces of a cut of it, over the vocabulary and over the registry, into phrases
\* that no known phrase outgrows and words at which none starts.
LongestPhraseWins ==
    Replied =>
        /\ \E known \in SUBSET DOMAIN idx.words :
               /\ ReadAs(reply.text, DOMAIN idx.words, known, reply.oov)
               /\ reply.q = {idx.words[p] : p \in known}
        /\ \E unmapped \in SUBSET {PieceOf(reply.text, p) : p \in Intervals(reply.text)} :
               ReadAs(reply.text, Phrases(registry), reply.names, unmapped)

\* A name the registry has learned is matched where the text is that name, whatever
\* other names are part of it or go beyond it, if it was learned as its words with
\* one space between two; a name that was written with a hyphen, a dot or two spaces
\* is not matched even there.
LearnedNameIsHit ==
    Replied /\ reply.text \in {n.words : n \in registry} =>
        IF WrittenAs(reply.text) \in registry
        THEN reply.names = {reply.text}
        ELSE reply.text \notin reply.names
==============================================================================
