----------------------------- MODULE MemoryIndex -----------------------------
(***************************************************************************)
(* The write path of the orchestrator: what Orchestrator.Ingest and the    *)
(* second half of Orchestrator.Chat do to the memory store, the personal   *)
(* links and the two in-memory indexes that serve retrieval, one shared    *)
(* access per step, for several requests at once and across crashes.       *)
(*                                                                         *)
(* `memories' is table memories of memory.db with the rows of              *)
(* memory_semkeys folded into it (Insert writes both in one transaction);  *)
(* AUTOINCREMENT makes the id of a row its position.  The same database    *)
(* may be open in a second process (`orchestrator ingest-openclaw' beside  *)
(* `orchestrator serve'), each with its own indexes and turn counter.      *)
(***************************************************************************)
EXTENDS Integers, Sequences

CONSTANTS
    Process,    \* runs of the orchestrator binary
    Request,    \* calls of Ingest or Chat, each made once
    Host,       \* [Request -> Process], the process a request is sent to
    Key,        \* semantic keys (l0 ids)
    Token,      \* personal token ids
    Overlap     \* TRUE when two processes may have the databases open at once

ASSUME HostAssumption == Host \in [Request -> Process]
ASSUME OverlapAssumption == Overlap \in BOOLEAN

VARIABLES
    memories,       \* durable: sequence of [turn, keys]
    links,          \* durable: set of <<token, memory id>>
    up,             \* [Process -> serving or not]
    index,          \* [Process -> Retriever.index as a set of <<key, memory id>>]
    lastID,         \* [Process -> Retriever.lastID]
    turnSeq,        \* [Process -> Orchestrator.turnSeq]
    personalIndex,  \* [Process -> PersonalRetriever.index as <<token, memory id>>]
    pc,             \* [Request -> the next step of the request]
    semKey,         \* [Request -> keys its text embeds to]
    matched,        \* [Request -> personal tokens its text matches]
    turn,           \* [Request -> turn id drawn for it]
    memID           \* [Request -> id of the row stored for it]

durable == <<memories, links>>
volatile == <<up, index, lastID, turnSeq, personalIndex>>
request == <<pc, semKey, matched, turn, memID>>
vars == <<durable, volatile, request>>

InFlight == {"turn", "insert", "link", "addlinks", "refresh"}
Answered == {"done", "failed"}

\* The request goes on at label `to' (the request's other variables: see action).
Goto(r, to) == pc' = [pc EXCEPT ![r] = to]

-----------------------------------------------------------------------------
(* semcom_store *)

MemoryIDs == 1..Len(memories)

\* SELECT semkey_value, memory_id FROM memory_semkeys WHERE memory_id > after
SemKeysSince(after) ==
    {row \in Key \X MemoryIDs :
        row[2] > after /\ row[1] \in memories[row[2]].keys}

AllSemKeys == SemKeysSince(0)

\* The one largest element of S (as a set, empty when there is none).
Highest(S) == {top \in S : \A x \in S : x <= top}

\* What the loops of Open and Refresh leave in lastID, `least' before them.
LastIDs(least, rows) == Highest({least} \cup {row[2] : row \in rows})

\* Mutant of MaxTurnID: the number of rows, as if no insert ever failed.
CountTurns == {Len(memories)}

\* SELECT COALESCE(MAX(turn_id), 0) FROM memories
MaxTurnID == Highest({0} \cup {memories[i].turn : i \in MemoryIDs})

-----------------------------------------------------------------------------
Init ==
    /\ memories = << >>
    /\ links = {}
    /\ up = [p \in Process |-> FALSE]
    /\ index = [p \in Process |-> {}]
    /\ lastID = [p \in Process |-> 0]
    /\ turnSeq = [p \in Process |-> 0]
    /\ personalIndex = [p \in Process |-> {}]
    /\ pc = [r \in Request |-> "idle"]
    /\ semKey = [r \in Request |-> {}]
    /\ matched = [r \in Request |-> {}]
    /\ turn = [r \in Request |-> 0]
    /\ memID = [r \in Request |-> 0]

\* Mutant of Start: the links are not loaded, as if only requests filled the
\* personal index.
StartWithoutLinks(p) ==
    /\ ~up[p]
    /\ Overlap \/ \A q \in Process : ~up[q]
    /\ up' = [up EXCEPT ![p] = TRUE]
    /\ index' = [index EXCEPT ![p] = AllSemKeys]
    /\ \E top \in LastIDs(0, AllSemKeys) :
        lastID' = [lastID EXCEPT ![p] = top]
    /\ \E top \in MaxTurnID :
        turnSeq' = [turnSeq EXCEPT ![p] = top]
    /\ UNCHANGED <<durable, personalIndex, request>>

\* Mutant of Start: the watermark is read, the rows below it are not.
StartAtWatermark(p) ==
    /\ ~up[p]
    /\ Overlap \/ \A q \in Process : ~up[q]
    /\ up' = [up EXCEPT ![p] = TRUE]
    /\ \E top \in LastIDs(0, AllSemKeys) :
        lastID' = [lastID EXCEPT ![p] = top]
    /\ \E top \in MaxTurnID :
        turnSeq' = [turnSeq EXCEPT ![p] = top]
    /\ personalIndex' = [personalIndex EXCEPT ![p] = links]
    /\ UNCHANGED <<durable, index, request>>

\* main: both indexes are built from the databases and the turn counter is
\* seeded before the process takes its first request.
Start(p) ==
    /\ ~up[p]
    /\ Overlap \/ \A q \in Process : ~up[q]
    /\ up' = [up EXCEPT ![p] = TRUE]
    /\ index' = [index EXCEPT ![p] = AllSemKeys]
    /\ \E top \in LastIDs(0, AllSemKeys) :
        lastID' = [lastID EXCEPT ![p] = top]
    /\ \E top \in MaxTurnID :
        turnSeq' = [turnSeq EXCEPT ![p] = top]
    /\ personalIndex' = [personalIndex EXCEPT ![p] = links]
    /\ UNCHANGED <<durable, request>>

\* The process ends, by a signal or a crash: what was in memory is gone and the
\* requests it was serving never get an answer.
Stop(p) ==
    /\ up[p]
    /\ up' = [up EXCEPT ![p] = FALSE]
    /\ index' = [index EXCEPT ![p] = {}]
    /\ lastID' = [lastID EXCEPT ![p] = 0]
    /\ turnSeq' = [turnSeq EXCEPT ![p] = 0]
    /\ personalIndex' = [personalIndex EXCEPT ![p] = {}]
    /\ pc' = [r \in Request |->
                IF Host[r] = p /\ pc[r] \in InFlight THEN "lost" ELSE pc[r]]
    /\ UNCHANGED <<durable, semKey, matched, turn, memID>>

-----------------------------------------------------------------------------
(* Ingest, and Chat after its retrieval *)

\* The embedding and the matching run side by side and are both awaited; any
\* text, so any keys and any tokens.
Receive(r) ==
    /\ pc[r] = "idle"
    /\ up[Host[r]]
    /\ Goto(r, "turn")
    /\ \E keys \in SUBSET Key, tokens \in SUBSET Token :
        /\ semKey' = [semKey EXCEPT ![r] = keys]
        /\ matched' = [matched EXCEPT ![r] = tokens]
    /\ UNCHANGED <<durable, volatile, turn, memID>>

\* o.turnSeq.Add(1)
DrawTurn(r) ==
    /\ pc[r] = "turn"
    /\ turnSeq' = [turnSeq EXCEPT ![Host[r]] = @ + 1]
    /\ turn' = [turn EXCEPT ![r] = turnSeq[Host[r]] + 1]
    /\ Goto(r, "insert")
    /\ UNCHANGED <<durable, up, index, lastID, personalIndex, semKey, matched, memID>>

\* Mutant of Insert: the id is read before the row is appended.
InsertReadingIDFirst(r) ==
    /\ pc[r] = "insert"
    /\ memories' = Append(memories, [turn |-> turn[r], keys |-> semKey[r]])
    /\ memID' = [memID EXCEPT ![r] = Len(memories)]
    /\ Goto(r, IF matched[r] # {} THEN "link" ELSE "refresh")
    /\ UNCHANGED <<links, volatile, semKey, matched, turn>>

\* store.Insert: the row and its keys in one transaction.
Insert(r) ==
    /\ pc[r] = "insert"
    /\ memories' = Append(memories, [turn |-> turn[r], keys |-> semKey[r]])
    /\ memID' = [memID EXCEPT ![r] = Len(memories) + 1]
    /\ Goto(r, IF matched[r] # {} THEN "link" ELSE "refresh")
    /\ UNCHANGED <<links, volatile, semKey, matched, turn>>

\* personalStore.LinkMemory: one transaction of INSERT OR IGNORE.
LinkMemory(r) ==
    /\ pc[r] = "link"
    /\ links' = links \cup (matched[r] \X {memID[r]})
    /\ Goto(r, "addlinks")
    /\ UNCHANGED <<memories, volatile, semKey, matched, turn, memID>>

\* personalRetriever.AddLink, one token at a time under its own lock.
AddLink(r) ==
    /\ pc[r] = "addlinks"
    /\ LET unlinked == {t \in matched[r] : <<t, memID[r]>> \notin personalIndex[Host[r]]}
       IN \E t \in unlinked :
            /\ personalIndex' =
                [personalIndex EXCEPT ![Host[r]] = @ \cup {<<t, memID[r]>>}]
            /\ Goto(r, IF unlinked = {t} THEN "refresh" ELSE "addlinks")
    /\ UNCHANGED <<durable, up, index, lastID, turnSeq, semKey, matched, turn, memID>>

\* Mutant of Refresh: only the rows of the request's own memory are patched in.
RefreshOwnRow(r) ==
    LET p == Host[r]
        rows == {row \in AllSemKeys : row[2] = memID[r]}
    IN /\ pc[r] = "refresh"
       /\ index' = [index EXCEPT ![p] = @ \cup rows]
       /\ \E top \in LastIDs(lastID[p], rows) :
            lastID' = [lastID EXCEPT ![p] = top]
       /\ Goto(r, "done")
       /\ UNCHANGED <<durable, up, turnSeq, personalIndex, semKey, matched, turn, memID>>

\* Mutant of Refresh: the watermark follows the request, not the rows read.
RefreshToOwnRow(r) ==
    LET p == Host[r]
        rows == SemKeysSince(lastID[p])
    IN /\ pc[r] = "refresh"
       /\ index' = [index EXCEPT ![p] = @ \cup rows]
       /\ lastID' = [lastID EXCEPT ![p] = memID[r]]
       /\ Goto(r, "done")
       /\ UNCHANGED <<durable, up, turnSeq, personalIndex, semKey, matched, turn, memID>>

\* retriever.Refresh, all of it under the write lock.
Refresh(r) ==
    LET p == Host[r]
        rows == SemKeysSince(lastID[p])
    IN /\ pc[r] = "refresh"
       /\ index' = [index EXCEPT ![p] = @ \cup rows]
       /\ \E top \in LastIDs(lastID[p], rows) :
            lastID' = [lastID EXCEPT ![p] = top]
       /\ Goto(r, "done")
       /\ UNCHANGED <<durable, up, turnSeq, personalIndex, semKey, matched, turn, memID>>

\* Any of the three database calls returns an error (the request's context is
\* cancelled, SQLITE_BUSY): its transaction is rolled back, the request is
\* answered with the error, and what the earlier calls stored stays.
Fail(r) ==
    /\ pc[r] \in {"insert", "link", "refresh"}
    /\ Goto(r, "failed")
    /\ UNCHANGED <<durable, volatile, semKey, matched, turn, memID>>

Step(r) ==
    \/ DrawTurn(r)
    \/ Insert(r)
    \/ LinkMemory(r)
    \/ AddLink(r)
    \/ Refresh(r)
    \/ Fail(r)

Next ==
    \/ \E p \in Process : Start(p) \/ Stop(p)
    \/ \E r \in Request : Receive(r) \/ Step(r)

Spec == Init /\ [][Next]_vars

\* A request's goroutine is always scheduled again, and whoever runs the
\* service starts it again when it is down.
Fairness ==
    /\ \A r \in Request : WF_vars(Step(r))
    /\ \A p \in Process : WF_vars(Start(p))

FairSpec == Spec /\ Fairness

-----------------------------------------------------------------------------
(* Properties *)

\* Types, and the ranges of every id: no watermark and no answer names a row
\* the store does not hold.
TypeOK ==
    /\ memories \in Seq([turn : Nat, keys : SUBSET Key])
    /\ links \subseteq Token \X MemoryIDs
    /\ up \in [Process -> BOOLEAN]
    /\ index \in [Process -> SUBSET (Key \X MemoryIDs)]
    /\ lastID \in [Process -> 0..Len(memories)]
    /\ turnSeq \in [Process -> Nat]
    /\ personalIndex \in [Process -> SUBSET (Token \X MemoryIDs)]
    /\ pc \in [Request -> InFlight \cup Answered \cup {"idle", "lost"}]
    /\ semKey \in [Request -> SUBSET Key]
    /\ matched \in [Request -> SUBSET Token]
    /\ turn \in [Request -> Nat]
    /\ memID \in [Request -> 0..Len(memories)]
    /\ \A r \in Request : pc[r] \in {"link", "addlinks", "refresh", "done"} => memID[r] > 0

\* Refresh reads only rows above lastID, so a row that lands at or below it
\* is lost to the process for good.  Whatever order requests of this and of
\* other processes insert and refresh in, the index of a running process is
\* exactly the stored rows up to its lastID: no hole, no foreign row.
IndexIsPrefix ==
    \A p \in Process :
        index[p] = IF up[p] THEN {row \in AllSemKeys : row[2] <= lastID[p]} ELSE {}

\* Read your writes (COMPONENTS.md, "Refresh called after every Insert"): once
\* Ingest or Chat has answered without error, a retrieval served by that
\* process, restarted since or not, finds by its keys that memory and every
\* memory with a smaller id, and by its tokens that memory.
AnsweredIsSearchable ==
    \A r \in Request :
        pc[r] = "done" /\ up[Host[r]] =>
            /\ \A row \in AllSemKeys : row[2] <= memID[r] => row \in index[Host[r]]
            /\ matched[r] \X {memID[r]} \subseteq personalIndex[Host[r]]

\* The personal index never holds a link the database lacks, and a stored link
\* it lacks is one being added this moment or one another process made.
LinksMirrored ==
    \A p \in Process : up[p] =>
        /\ personalIndex[p] \subseteq links
        /\ \A link \in links \ personalIndex[p] :
            \E r \in Request :
                /\ memID[r] = link[2]
                /\ pc[r] = "addlinks" \/ Host[r] # p

\* Turn ids stay unique over every restart, although the counter lives in
\* memory, is advanced before the row is stored and is seeded from the rows.
TurnsDistinct ==
    \A i, j \in MemoryIDs : memories[i].turn = memories[j].turn => i = j

\* A stored memory whose request was not answered with an error is found
\* sooner or later, even when the process dies before the Refresh.
StoredBecomesSearchable ==
    \A r \in Request :
        pc[r] \in {"link", "addlinks", "refresh"} ~>
            \/ pc[r] = "failed"
            \/ /\ up[Host[r]]
               /\ semKey[r] \X {memID[r]} \subseteq index[Host[r]]

\* What each process can find, as MemoryLog sees it.
Found == [p \in Process |->
    {i \in MemoryIDs :
        memories[i].keys # {} /\ \A k \in memories[i].keys : <<k, i>> \in index[p]}]

Log == INSTANCE MemoryLog WITH
    log <- memories, online <- {p \in Process : up[p]}, visible <- Found

\* The write path implements the abstract log: rows are only appended, and a
\* process's searchable set only ever jumps to everything searchable.
ImplementsLog == Log!Spec
==============================================================================
