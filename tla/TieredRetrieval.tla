---------------------------- MODULE TieredRetrieval ----------------------------
(***************************************************************************)
(* tieredRetrieve, the part of Orchestrator.Chat that chooses which        *)
(* distillations go into a prompt: what the session tracker has recorded   *)
(* as shown is excluded, the rest is scored, every personal token adds its *)
(* newest distillations, the rows are fetched and recorded as shown, and   *)
(* only then is the prompt stored and the call answered.  Each step is one *)
(* access to a store or an index; other chats, a distillation replacing    *)
(* rows and a restart come in between.                                     *)
(***************************************************************************)
EXTENDS DistillRetriever, Sequences

CONSTANTS
    Chat,           \* calls of Chat, each made once
    NoSession,      \* the empty session id
    TopK,           \* topKDistilled
    WikiTopK,       \* wikiTopKPerToken
    PersonalWeight, \* personalWeight
    MinScore,       \* minRelevanceScore
    MaxMatches,     \* bound: personal tokens in a prompt, repetitions counted
    MaxRows,        \* bound: distillations ever inserted
    OneAtATime,     \* TRUE when a session has one chat at a time
    Failing         \* the calls that may return an error

ASSUME NoSessionAssumption == NoSession \notin Session
ASSUME LimitAssumption ==
    /\ {TopK, WikiTopK, PersonalWeight, MinScore} \subseteq Nat \ {0}
    /\ {MaxMatches, MaxRows} \subseteq Nat
    /\ OneAtATime \in BOOLEAN

VARIABLES
    rebuild,    \* what the Rebuild under way does next and what it has read
    shown,      \* memory.db: session_distillation_retrievals, <<session, id>>
    pc,         \* [Chat -> next step]
    sess,       \* [Chat -> its session id]
    keys,       \* [Chat -> keys the prompt embeds to]
    matches,    \* [Chat -> sequence of the personal tokens of the prompt]
    excluded,   \* [Chat -> ids it leaves out]
    scored,     \* [Chat -> sequence of the ids chosen by score]
    wiki,       \* [Chat -> sequence of the ids added for a token]
    hits        \* [Chat -> sequence of the rows it returns]

chatVars == <<pc, sess, keys, matches, excluded, scored, wiki, hits>>
vars == <<storeVars, retrieverVars, rebuild, shown, chatVars>>

NoRebuild == [next |-> "keys", keys |-> {}, rows |-> {}]

Ended == {"idle", "answered", "failed", "lost"}
Busy(c) == pc[c] \notin Ended
Goto(c, to) == pc' = [pc EXCEPT ![c] = to]

Elements(q) == {q[i] : i \in DOMAIN q}
Chosen(c) == Elements(scored[c]) \cup Elements(wiki[c])

\* What a sort of the set S by falling rank, cut after n elements, can leave: distinct
\* elements, none behind a lower one or behind one left out.
Leading(S, n, rank) ==
    LET size == IF Cardinality(S) < n THEN Cardinality(S) ELSE n
    IN {q \in [1..size -> S] :
          /\ \A i, j \in 1..size : i < j => q[i] # q[j] /\ rank[q[i]] >= rank[q[j]]
          /\ \A i \in 1..size : \A x \in S \ Elements(q) : rank[q[i]] >= rank[x]}

\* The members of a set of positions, from the first to the last.
Rising(S) == {at \in [1..Cardinality(S) -> S] :
                \A i, j \in DOMAIN at : i < j => at[i] < at[j]}

Init ==
    /\ InitStore
    /\ InitRetriever
    /\ rebuild = NoRebuild
    /\ shown = {}
    /\ pc = [c \in Chat |-> "idle"]
    /\ sess = [c \in Chat |-> NoSession]
    /\ keys = [c \in Chat |-> {}]
    /\ matches = [c \in Chat |-> << >>]
    /\ excluded = [c \in Chat |-> {}]
    /\ scored = [c \in Chat |-> << >>]
    /\ wiki = [c \in Chat |-> << >>]
    /\ hits = [c \in Chat |-> << >>]

-----------------------------------------------------------------------------
(* Around the chats: distillations of other sessions, and restarts *)

\* The rows and the index change as distillOneSession changes them (the order it
\* does so in, and its failures, are in SessionDistillation): a row has the token of
\* its entity or none.
StoreRow ==
    /\ nextID <= MaxRows
    /\ \E s \in Session, text \in Snippet, ks \in SUBSET Key :
        \E ts \in {{}} \cup {{t} : t \in Token} : InsertDistillation(s, text, ts, ks)
    /\ UNCHANGED <<retrieverVars, rebuild, shown, chatVars>>

DropRows ==
    /\ \E s \in Session : OfSession(s) # {} /\ DeleteDistillationsBySessionID(s)
    /\ UNCHANGED <<retrieverVars, rebuild, shown, chatVars>>

\* Rebuild: two scans, which no lock covers, and the swap.  One at a time is enough
\* to leave the index behind the tables; several are in SessionDistillation.
ScanKeys ==
    /\ rebuild.next = "keys"
    /\ rebuild' = [next |-> "rows", keys |-> semkeys, rows |-> {}]
    /\ UNCHANGED <<storeVars, retrieverVars, shown, chatVars>>

ScanRows ==
    /\ rebuild.next = "rows"
    /\ rebuild' = [next |-> "swap", keys |-> rebuild.keys, rows |-> TokenRows]
    /\ UNCHANGED <<storeVars, retrieverVars, shown, chatVars>>

SwapIndexes ==
    /\ rebuild.next = "swap"
    /\ Swap(rebuild.keys, rebuild.rows)
    /\ rebuild' = NoRebuild
    /\ UNCHANGED <<storeVars, shown, chatVars>>

\* The process is killed and started again: the chats it served get no answer, the
\* index is read anew, what the tracker recorded stays.
Restart ==
    /\ NewDistillationRetriever
    /\ rebuild' = NoRebuild
    /\ pc' = [c \in Chat |-> IF Busy(c) THEN "lost" ELSE pc[c]]
    /\ UNCHANGED <<storeVars, shown, sess, keys, matches, excluded, scored, wiki, hits>>

-----------------------------------------------------------------------------
(* One chat *)

\* Any text: any keys, and tokens in the order Match met them, repetitions kept.
Ask(c) ==
    /\ pc[c] = "idle"
    /\ \E s \in Session \cup {NoSession}, ks \in SUBSET Key, n \in 0..MaxMatches :
        /\ OneAtATime => \A d \in Chat : Busy(d) => sess[d] # s
        /\ sess' = [sess EXCEPT ![c] = s]
        /\ keys' = [keys EXCEPT ![c] = ks]
        /\ \E q \in [1..n -> Token] : matches' = [matches EXCEPT ![c] = q]
    /\ Goto(c, "exclude")
    /\ UNCHANGED <<storeVars, retrieverVars, rebuild, shown, excluded, scored, wiki, hits>>

\* GetRetrievedDistillationIDs; without a session nothing is excluded, and an error
\* of the query is answered with the empty bitmap.
LoadExclusions(c) ==
    /\ pc[c] = "exclude"
    /\ \/ excluded' = [excluded EXCEPT ![c] =
                            {row[2] : row \in {r \in shown : r[1] = sess[c]}}]
       \/ "exclude" \in Failing /\ UNCHANGED excluded
    /\ Goto(c, "score")
    /\ UNCHANGED <<storeVars, retrieverVars, rebuild, shown, sess, keys, matches, scored, wiki, hits>>

\* distillRetriever.Query, and the loop over what it returns.
TakeScored(c) ==
    /\ pc[c] = "score"
    /\ LET score == [id \in Candidates(keys[c], matches[c], excluded[c]) |->
                        Score(id, keys[c], matches[c], PersonalWeight)]
           relevant == {id \in DOMAIN score : score[id] >= MinScore}
       IN \E q \in Leading(relevant, TopK, score) : scored' = [scored EXCEPT ![c] = q]
    /\ Goto(c, IF matches[c] = << >> THEN "fetch" ELSE "wiki")
    /\ UNCHANGED <<storeVars, retrieverVars, rebuild, shown, sess, keys, matches, excluded, wiki, hits>>

\* Mutant of AddWiki: what an earlier token added is not left out again.
AddWikiAgain(c) ==
    /\ pc[c] = "wiki"
    /\ LET fresh == GetByPersonalID(Head(matches[c])) \ (excluded[c] \cup Elements(scored[c]))
       IN \E q \in Leading(fresh, WikiTopK, [id \in fresh |-> id]) :
            wiki' = [wiki EXCEPT ![c] = @ \o q]
    /\ matches' = [matches EXCEPT ![c] = Tail(@)]
    /\ Goto(c, IF Len(matches[c]) = 1 THEN "fetch" ELSE "wiki")
    /\ UNCHANGED <<storeVars, retrieverVars, rebuild, shown, sess, keys, excluded, scored, hits>>

\* The wiki loop's round for the next token: its newest distillations, those already
\* chosen and those excluded passed over.  Each round locks the index anew.
AddWiki(c) ==
    /\ pc[c] = "wiki"
    /\ LET fresh == GetByPersonalID(Head(matches[c])) \ (excluded[c] \cup Chosen(c))
       IN \E q \in Leading(fresh, WikiTopK, [id \in fresh |-> id]) :
            wiki' = [wiki EXCEPT ![c] = @ \o q]
    /\ matches' = [matches EXCEPT ![c] = Tail(@)]
    /\ Goto(c, IF Len(matches[c]) = 1 THEN "fetch" ELSE "wiki")
    /\ UNCHANGED <<storeVars, retrieverVars, rebuild, shown, sess, keys, excluded, scored, hits>>

\* GetDistillationsByIDs, one query; ids without a row are passed over.  Nothing
\* chosen, nothing to fetch or to mark.
Fetch(c) ==
    /\ pc[c] = "fetch"
    /\ LET ids == scored[c] \o wiki[c]
           found == {i \in DOMAIN ids : ids[i] \in LiveIDs}
       IN \E at \in Rising(found), rows \in [1..Cardinality(found) -> distillations] :
            /\ \A i \in DOMAIN rows : rows[i].id = ids[at[i]]
            /\ hits' = [hits EXCEPT ![c] = rows]
    /\ Goto(c, IF Chosen(c) = {} \/ sess[c] = NoSession THEN "store" ELSE "mark")
    /\ UNCHANGED <<storeVars, retrieverVars, rebuild, shown, sess, keys, matches, excluded, scored, wiki>>

\* Mutant of Mark: only what was chosen by score is recorded.
MarkScoredOnly(c) ==
    /\ pc[c] = "mark"
    /\ shown' = shown \cup ({sess[c]} \X Elements(scored[c]))
    /\ Goto(c, "store")
    /\ UNCHANGED <<storeVars, retrieverVars, rebuild, sess, keys, matches, excluded, scored, wiki, hits>>

\* MarkDistillationRetrieved, one transaction; an error is logged and forgotten.
Mark(c) ==
    /\ pc[c] = "mark"
    /\ \/ shown' = shown \cup ({sess[c]} \X {d.id : d \in Elements(hits[c])})
       \/ "mark" \in Failing /\ UNCHANGED shown
    /\ Goto(c, "store")
    /\ UNCHANGED <<storeVars, retrieverVars, rebuild, sess, keys, matches, excluded, scored, wiki, hits>>

\* The prompt is stored, linked and indexed (MemoryIndex), and the hits returned.
Answer(c) ==
    /\ pc[c] = "store"
    /\ Goto(c, "answered")
    /\ UNCHANGED <<storeVars, retrieverVars, rebuild, shown, sess, keys, matches, excluded, scored,
                   wiki, hits>>

\* An error of the fetch or of one of the writes is all the caller gets.
Fail(c) ==
    /\ pc[c] \in {"fetch", "store"} \cap Failing
    /\ pc[c] = "fetch" => Chosen(c) # {}
    /\ Goto(c, "failed")
    /\ UNCHANGED <<storeVars, retrieverVars, rebuild, shown, sess, keys, matches, excluded, scored,
                   wiki, hits>>

Next ==
    \/ StoreRow \/ DropRows \/ ScanKeys \/ ScanRows \/ SwapIndexes \/ Restart
    \/ \E c \in Chat :
        \/ Ask(c) \/ LoadExclusions(c) \/ TakeScored(c) \/ AddWiki(c)
        \/ Fetch(c) \/ Mark(c) \/ Answer(c) \/ Fail(c)

Spec == Init /\ [][Next]_vars

-----------------------------------------------------------------------------
(* Properties *)

\* What a Rebuild under way has read names ids given so far.
RebuildTypeOK ==
    /\ rebuild.next \in {"keys", "rows", "swap"}
    /\ rebuild.keys \subseteq Key \X (1..nextID - 1)
    /\ rebuild.rows \subseteq Token \X (1..nextID - 1)

\* Chats, tracker and indexes are well typed and name ids that have been given.
TypeOK ==
    /\ StoreTypeOK
    /\ RetrieverTypeOK
    /\ RebuildTypeOK
    /\ shown \subseteq Session \X (1..nextID - 1)
    /\ pc \in [Chat -> Ended \cup {"exclude", "score", "wiki", "fetch", "mark", "store"}]
    /\ sess \in [Chat -> Session \cup {NoSession}]
    /\ keys \in [Chat -> SUBSET Key]
    /\ matches \in [Chat -> Seq(Token)]
    /\ excluded \in [Chat -> SUBSET (1..nextID - 1)]
    /\ scored \in [Chat -> Seq(1..nextID - 1)]
    /\ wiki \in [Chat -> Seq(1..nextID - 1)]
    /\ hits \in [Chat -> Seq(Distillation)]
    /\ \A c \in Chat : Len(scored[c]) <= TopK

\* "Previously returned distillation IDs (within the same session) are excluded":
\* no two answers of a session hold the same distillation, whatever is deleted,
\* inserted and rebuilt between them and however often the process restarts.
NeverRepeated ==
    \A c, d \in Chat :
        c # d /\ pc[c] = "answered" /\ pc[d] = "answered"
              /\ sess[c] = sess[d] /\ sess[c] # NoSession =>
            \A x \in Elements(hits[c]), y \in Elements(hits[d]) : x.id # y.id

\* One answer holds no distillation twice, although a token may occur twice in a
\* prompt and the index may be replaced between the scoring and any of the wiki
\* rounds.
AnswerWithoutDuplicates ==
    \A c \in Chat : \A i, j \in DOMAIN hits[c] : hits[c][i].id = hits[c][j].id => i = j

\* A stored distillation a session is denied is one that was prepared for it, the
\* very row: deleted rows stay in the tracker, and their ids must never come back.
ExclusionMeansSeen ==
    \A row \in shown : \A d \in distillations : d.id = row[2] =>
        \E c \in Chat : sess[c] = row[1] /\ d \in Elements(hits[c])

\* The tracker holds what was "returned in this session": what it marks is in an
\* answer, in one that is on its way, or in one the process died with.
MarkedWereReturned ==
    \A row \in shown : \E c \in Chat :
        /\ sess[c] = row[1] /\ pc[c] \in {"store", "answered", "lost"}
        /\ \E d \in Elements(hits[c]) : d.id = row[2]
==============================================================================
