-------------------------- MODULE SessionDistillation --------------------------
(***************************************************************************)
(* distillOneSession and what starts it: maybeTriggerDistill, when a       *)
(* request names another session than the one before it, and the passes of *)
(* `orchestrator distill-sessions [--force]', a process of its own on the  *)
(* same databases.  A worker is one call of distillOneSession; each of its *)
(* steps is one call to a store, an index or the model, so calls of other  *)
(* workers, requests and crashes come in between.                          *)
(*                                                                         *)
(* Every memory states one fact, and a snippet is the fact it records, so  *)
(* a snippet is a memory id.  The model (an LLM, outside this code) answers *)
(* a transcript with snippets of its facts and merges two sets of snippets *)
(* into their union, as the prompts of session_distill.go ask it to.       *)
(***************************************************************************)
EXTENDS DistillRetriever, Sequences

CONSTANTS
    Worker,         \* calls of distillOneSession
    Kind,           \* [Worker -> "auto" (spawned by serve), "pass" or "force"]
    NoSession,      \* the empty session id
    Entity,         \* [Snippet -> the out-of-vocabulary entity of a fact, or NoToken]
    NoToken,
    SnippetKeys,    \* [Snippet -> keys its text embeds to]
    MaxMemories,    \* bound: memories stored
    Serial,         \* TRUE when sessions change slower than they are distilled
    Crashes,        \* TRUE when processes may be killed
    Stops,          \* TRUE when processes may be told to stop (SIGINT, SIGTERM)
    Omits,          \* TRUE when the model may leave facts of a transcript out
    Failing         \* the calls that may return an error

ASSUME KindAssumption == Kind \in [Worker -> {"auto", "pass", "force"}]
ASSUME SnippetAssumption ==
    /\ MaxMemories \in Nat
    /\ Snippet = 1..MaxMemories
    /\ NoToken \notin Token /\ Entity \in [Snippet -> Token \cup {NoToken}]
    /\ SnippetKeys \in [Snippet -> SUBSET Key]
ASSUME SwitchAssumption ==
    NoSession \notin Session /\ {Serial, Crashes, Stops, Omits} \subseteq BOOLEAN

Serve == "serve"
Proc == {Serve} \cup Worker     \* serve, and one process per command line call

\* Where a call of distillOneSession can be: not begun, returned, returned with
\* an error, dead with its process, or before one of its steps.
Finished == {"idle", "end", "failed", "killed"}
Steps == Finished \cup
    {"clear", "clearMark", "readMark", "readMemories", "distill", "merge", "replace", "next",
     "lookup", "newToken", "learn", "store", "link", "addLink", "scanKeys", "scanRows", "swap",
     "setMark"}

\* The steps whose calls take the context the process is stopped by.
ContextSteps == {"clear", "readMemories", "distill", "merge", "replace"}

VARIABLES
    memories,       \* memory.db: sequence of the sessions memories belong to
    tokens,         \* personal.db: table personal_tokens
    links,          \* personal.db: memory_personal_tokens as <<token, memory id>>
    up,             \* serve is running
    stopping,       \* processes whose shutdown context is cancelled
    active,         \* Orchestrator.activeSessionID
    inflight,       \* [Session -> requests received and not yet stored]
    matcher,        \* [Proc -> Matcher.tokens]
    linkIndex,      \* serve's PersonalRetriever.index
    queue,          \* [Worker -> sessions its pass has yet to distil]
    pc,             \* [Worker -> next step]
    sess,           \* [Worker -> session it distils]
    wm,             \* [Worker -> watermark it has read]
    transcript,     \* [Worker -> memories it has read]
    todo,           \* [Worker -> snippets to store]
    cur,            \* [Worker -> snippet being stored, or memory being linked, with
                    \* its tokens]
    scan,           \* [Worker -> what Rebuild has read]
    captured,       \* history: [Session -> facts stored, --force and facts an
                    \* interrupted replacement lost apart]
    replacing,      \* history: sessions whose rows were deleted by a
                    \* distillation and not completely replaced since
    told            \* history: [Session -> memories in completed transcripts]

envVars == <<memories, tokens, links, up, stopping, active, inflight, matcher, linkIndex, queue>>
history == <<captured, replacing, told>>
locals == <<sess, wm, transcript, todo, cur, scan>>
vars == <<storeVars, retrieverVars, envVars, pc, locals, history>>

Idle == [snippet |-> 0, tokens |-> {}]
Blank == [keys |-> {}, rows |-> {}]
Running(w) == pc[w] \notin Finished
ProcOf(w) == IF Kind[w] = "auto" THEN Serve ELSE w
Cancelled(w) == ProcOf(w) \in stopping

MemoriesOf(s) == {i \in 1..Len(memories) : memories[i] = s}
First(S) == {i \in S : \A j \in S : i <= j}
Last(S) == {top \in S : \A i \in S : i <= top}
TokenOf(i) == {Entity[i]} \ {NoToken}

Goto(w, to) == pc' = [pc EXCEPT ![w] = to]

Init ==
    /\ InitStore
    /\ InitRetriever
    /\ memories = << >>
    /\ tokens = {} /\ links = {}
    /\ up = FALSE /\ stopping = {}
    /\ active = NoSession
    /\ inflight = [s \in Session |-> 0]
    /\ matcher = [p \in Proc |-> {}]
    /\ linkIndex = {}
    /\ queue = [w \in Worker |-> {}]
    /\ pc = [w \in Worker |-> "idle"]
    /\ sess = [w \in Worker |-> NoSession]
    /\ wm = [w \in Worker |-> 0]
    /\ transcript = [w \in Worker |-> {}]
    /\ todo = [w \in Worker |-> {}]
    /\ cur = [w \in Worker |-> Idle]
    /\ scan = [w \in Worker |-> Blank]
    /\ captured = [s \in Session |-> {}]
    /\ replacing = {}
    /\ told = [s \in Session |-> {}]

-----------------------------------------------------------------------------
(* The serving process *)

Start ==
    /\ ~up
    /\ up' = TRUE
    /\ NewDistillationRetriever
    /\ matcher' = [matcher EXCEPT ![Serve] = tokens]
    /\ linkIndex' = links
    /\ UNCHANGED <<storeVars, memories, tokens, links, stopping, active, inflight, queue, pc, locals,
                   history>>

\* The process is gone with its indexes and its matcher; which session was active
\* is forgotten.
Gone ==
    /\ up' = FALSE
    /\ stopping' = stopping \ {Serve}
    /\ l0Index' = {} /\ personalIndex' = {} /\ linkIndex' = {}
    /\ matcher' = [matcher EXCEPT ![Serve] = {}]
    /\ active' = NoSession
    /\ inflight' = [s \in Session |-> 0]

\* It is killed, with its requests and its workers.
Crash ==
    /\ Crashes /\ up
    /\ Gone
    /\ pc' = [w \in Worker |-> IF Kind[w] = "auto" /\ Running(w) THEN "killed" ELSE pc[w]]
    /\ UNCHANGED <<storeVars, memories, tokens, links, queue, locals, history>>

\* A signal cancels the shutdown context of a process.
Interrupt(p) ==
    /\ Stops
    /\ p \notin stopping
    /\ IF p = Serve THEN up ELSE Kind[p] # "auto" /\ Running(p)
    /\ stopping' = stopping \cup {p}
    /\ UNCHANGED <<storeVars, retrieverVars, memories, tokens, links, up, active, inflight,
                   matcher, linkIndex, queue, pc, locals, history>>

\* Mutant of Exit: main returns when the requests are answered.
ExitWithoutWait ==
    /\ up /\ Serve \in stopping
    /\ \A s \in Session : inflight[s] = 0
    /\ Gone
    /\ pc' = [w \in Worker |-> IF Kind[w] = "auto" /\ Running(w) THEN "end" ELSE pc[w]]
    /\ UNCHANGED <<storeVars, memories, tokens, links, queue, locals, history>>

\* The orderly end of serve: Shutdown has waited for the requests and bgWg.Wait
\* for the workers.
Exit ==
    /\ up /\ Serve \in stopping
    /\ \A s \in Session : inflight[s] = 0
    /\ \A w \in Worker : Kind[w] = "auto" => ~Running(w)
    /\ Gone
    /\ UNCHANGED <<storeVars, memories, tokens, links, queue, pc, locals, history>>

\* A call of distillOneSession for session s begins on worker w, with locals of its own
\* (scan is that of a service's worker, which makes one call).
Spawn(w, s) ==
    /\ Serial => \A v \in Worker : ~Running(v)
    /\ sess' = [sess EXCEPT ![w] = s]
    /\ wm' = [wm EXCEPT ![w] = 0]
    /\ transcript' = [transcript EXCEPT ![w] = {}]
    /\ todo' = [todo EXCEPT ![w] = {}]
    /\ cur' = [cur EXCEPT ![w] = Idle]
    /\ Goto(w, IF Kind[w] = "force" THEN "clear" ELSE "readMark")
    /\ UNCHANGED scan

Pending == {r \in Session \X (1..MaxMemories) : r[2] <= inflight[r[1]]}
Room == Len(memories) + Cardinality(Pending) < MaxMemories

\* Mutant of Arrive: nothing is begun while another distillation goes on.
ArriveUnlessBusy(s) ==
    /\ up /\ Room
    /\ inflight' = [inflight EXCEPT ![s] = @ + 1]
    /\ active' = s
    /\ IF active \in {NoSession, s} \/ Serve \in stopping \/ \E w \in Worker : Running(w)
       THEN UNCHANGED <<pc, locals>>
       ELSE \E w \in Worker : Kind[w] = "auto" /\ pc[w] = "idle" /\ Spawn(w, active)
    /\ UNCHANGED <<storeVars, retrieverVars, memories, tokens, links, up, stopping, matcher,
                   linkIndex, queue, history>>

\* A request of session s arrives: Ingest and Chat both begin with
\* maybeTriggerDistill, which swaps the active session and then distils the old
\* one, unless the service is shutting down.
Arrive(s) ==
    /\ up /\ Room
    /\ inflight' = [inflight EXCEPT ![s] = @ + 1]
    /\ active' = s
    /\ IF active \in {NoSession, s} \/ Serve \in stopping
       THEN UNCHANGED <<pc, locals>>
       ELSE \E w \in Worker : Kind[w] = "auto" /\ pc[w] = "idle" /\ Spawn(w, active)
    /\ UNCHANGED <<storeVars, retrieverVars, memories, tokens, links, up, stopping, matcher,
                   linkIndex, queue, history>>

\* The request stores its memory (its other steps are in MemoryIndex).
StoreMemory(s) ==
    /\ inflight[s] > 0
    /\ inflight' = [inflight EXCEPT ![s] = @ - 1]
    /\ memories' = Append(memories, s)
    /\ UNCHANGED <<storeVars, retrieverVars, tokens, links, up, stopping, active, matcher,
                   linkIndex, queue, pc, locals, history>>

\* The request fails before it has stored anything; the session change stays.
RequestFails(s) ==
    /\ "request" \in Failing
    /\ inflight[s] > 0
    /\ inflight' = [inflight EXCEPT ![s] = @ - 1]
    /\ UNCHANGED <<storeVars, retrieverVars, memories, tokens, links, up, stopping, active, matcher,
                   linkIndex, queue, pc, locals, history>>

\* GetDistinctSessionIDs orders the sessions by their first memories.
Earliest(S) ==
    {s \in S : \A r \in S \ {s} : \E i \in MemoriesOf(s) : \A j \in MemoriesOf(r) : i <= j}

\* distill-sessions, a process of its own, which builds its own matcher: it reads
\* which sessions there are and begins with the first.
RunPass(w) ==
    /\ Kind[w] # "auto" /\ pc[w] = "idle"
    /\ LET all == {s \in Session : MemoriesOf(s) # {}}
       IN \E s \in Earliest(all) :
            /\ Spawn(w, s)
            /\ queue' = [queue EXCEPT ![w] = all \ {s}]
    /\ matcher' = [matcher EXCEPT ![w] = tokens]
    /\ UNCHANGED <<storeVars, retrieverVars, memories, tokens, links, up, stopping, active, inflight,
                   linkIndex, history>>

\* The next session of the pass, the one before having ended without an error.
NextSession(w) ==
    /\ Kind[w] # "auto" /\ pc[w] \in {"end", "failed"}
    /\ \E s \in Earliest(queue[w]) :
        /\ Spawn(w, s)
        /\ queue' = [queue EXCEPT ![w] = @ \ {s}]
    /\ UNCHANGED <<storeVars, retrieverVars, memories, tokens, links, up, stopping, active, inflight,
                   matcher, linkIndex, history>>

\* A command line process is killed.
Kill(w) ==
    /\ Crashes
    /\ Kind[w] # "auto" /\ Running(w)
    /\ Goto(w, "killed")
    /\ UNCHANGED <<storeVars, retrieverVars, envVars, locals, history>>

-----------------------------------------------------------------------------
(* distillOneSession.  A step that takes the context fails once it is cancelled *)
(* (GiveUp); the others go on, so a replacement that has begun is completed.    *)

\* --force: the rows first, then the watermark.
Clear(w) ==
    /\ pc[w] = "clear" /\ ~Cancelled(w)
    /\ DeleteDistillationsBySessionID(sess[w])
    /\ replacing' = replacing \cup {sess[w]}
    /\ captured' = [captured EXCEPT ![sess[w]] = {}]
    /\ Goto(w, "clearMark")
    /\ UNCHANGED <<retrieverVars, envVars, locals, told>>

ClearMark(w) ==
    /\ pc[w] = "clearMark"
    /\ SetMetadata(sess[w], 0)
    /\ Goto(w, "readMark")
    /\ UNCHANGED <<retrieverVars, envVars, locals, history>>

ReadMark(w) ==
    /\ pc[w] = "readMark"
    /\ wm' = [wm EXCEPT ![w] = metadata[sess[w]]]
    /\ Goto(w, "readMemories")
    /\ UNCHANGED <<storeVars, retrieverVars, envVars, sess, transcript, todo, cur, scan, history>>

\* Mutant of ReadMemories: the memories of all sessions are read.
ReadEveryMemory(w) ==
    /\ pc[w] = "readMemories" /\ ~Cancelled(w)
    /\ IF Len(memories) <= wm[w]
       THEN Goto(w, "end") /\ UNCHANGED transcript
       ELSE Goto(w, "distill") /\ transcript' = [transcript EXCEPT ![w] = 1..Len(memories)]
    /\ UNCHANGED <<storeVars, retrieverVars, envVars, sess, wm, todo, cur, scan, history>>

\* Nothing stored, or nothing newer than the watermark: skip.
ReadMemories(w) ==
    /\ pc[w] = "readMemories" /\ ~Cancelled(w)
    /\ LET all == MemoriesOf(sess[w])
       IN IF \A i \in all : i <= wm[w]
          THEN Goto(w, "end") /\ UNCHANGED transcript
          ELSE Goto(w, "distill") /\ transcript' = [transcript EXCEPT ![w] = all]
    /\ UNCHANGED <<storeVars, retrieverVars, envVars, sess, wm, todo, cur, scan, history>>

\* SessionDistill.
Distill(w) ==
    /\ pc[w] = "distill" /\ ~Cancelled(w)
    /\ \E facts \in IF Omits THEN SUBSET transcript[w] ELSE {transcript[w]} :
        todo' = [todo EXCEPT ![w] = facts]
    /\ Goto(w, IF wm[w] > 0 THEN "merge" ELSE "next")
    /\ UNCHANGED <<storeVars, retrieverVars, envVars, sess, wm, transcript, cur, scan, history>>

\* Mutant of Merge: the existing snippets are read and then left out.
MergeForgettingOld(w) ==
    /\ pc[w] = "merge" /\ ~Cancelled(w)
    /\ Goto(w, "replace")
    /\ UNCHANGED <<storeVars, retrieverVars, envVars, locals, history>>

\* GetSnippetsBySessionID, and ConsolidateSnippets on what it returned.
Merge(w) ==
    /\ pc[w] = "merge" /\ ~Cancelled(w)
    /\ todo' = [todo EXCEPT ![w] = @ \cup GetSnippetsBySessionID(sess[w])]
    /\ Goto(w, "replace")
    /\ UNCHANGED <<storeVars, retrieverVars, envVars, sess, wm, transcript, cur, scan, history>>

\* What an earlier replacement of the session lost half-way is not this one's fault.
Replace(w) ==
    /\ pc[w] = "replace" /\ ~Cancelled(w)
    /\ DeleteDistillationsBySessionID(sess[w])
    /\ replacing' = replacing \cup {sess[w]}
    /\ captured' = [captured EXCEPT ![sess[w]] =
            IF sess[w] \in replacing THEN @ \cap GetSnippetsBySessionID(sess[w]) ELSE @]
    /\ Goto(w, "next")
    /\ UNCHANGED <<retrieverVars, envVars, locals, told>>

\* The loop over the final snippets; only an entity with an out-of-vocabulary
\* word is looked up.
NextSnippet(w) ==
    /\ pc[w] = "next"
    /\ \/ /\ todo[w] = {}
          /\ cur' = [cur EXCEPT ![w] = Idle]
          /\ Goto(w, "link")
          /\ UNCHANGED todo
       \/ \E f \in todo[w] :
            /\ todo' = [todo EXCEPT ![w] = @ \ {f}]
            /\ cur' = [cur EXCEPT ![w] = [snippet |-> f, tokens |-> {}]]
            /\ Goto(w, IF TokenOf(f) # {} THEN "lookup" ELSE "store")
    /\ UNCHANGED <<storeVars, retrieverVars, envVars, sess, wm, transcript, scan, history>>

\* Mutant of LookupToken: only new words give the snippet a token.
LookupNewTokenOnly(w) ==
    /\ pc[w] = "lookup"
    /\ LET known == TokenOf(cur[w].snippet) \subseteq tokens
       IN Goto(w, IF known THEN "store" ELSE "newToken")
    /\ UNCHANGED <<storeVars, retrieverVars, envVars, locals, history>>

\* personalStore.GetToken
LookupToken(w) ==
    /\ pc[w] = "lookup"
    /\ LET found == TokenOf(cur[w].snippet) \cap tokens
       IN /\ cur' = [cur EXCEPT ![w].tokens = found]
          /\ Goto(w, IF found = {} THEN "newToken" ELSE "store")
    /\ UNCHANGED <<storeVars, retrieverVars, envVars, sess, wm, transcript, todo, scan, history>>

\* Mutant of InsertToken: the matcher is not told.
InsertTokenUnlearned(w) ==
    /\ pc[w] = "newToken"
    /\ LET new == TokenOf(cur[w].snippet) \ tokens
       IN /\ tokens' = tokens \cup new
          /\ cur' = [cur EXCEPT ![w].tokens = new]
          /\ Goto(w, "store")
    /\ UNCHANGED <<storeVars, retrieverVars, memories, links, up, stopping, active, inflight, matcher,
                   linkIndex, queue, sess, wm, transcript, todo, scan, history>>

\* personalStore.InsertToken: refused when the word is there by now (UNIQUE), and
\* the snippet is then stored without a token.
InsertToken(w) ==
    /\ pc[w] = "newToken"
    /\ LET new == TokenOf(cur[w].snippet) \ tokens
       IN /\ tokens' = tokens \cup new
          /\ cur' = [cur EXCEPT ![w].tokens = new]
          /\ Goto(w, IF new = {} THEN "store" ELSE "learn")
    /\ UNCHANGED <<storeVars, retrieverVars, memories, links, up, stopping, active, inflight, matcher,
                   linkIndex, queue, sess, wm, transcript, todo, scan, history>>

\* o.personal.AddToken
Learn(w) ==
    /\ pc[w] = "learn"
    /\ matcher' = [matcher EXCEPT ![ProcOf(w)] = @ \cup cur[w].tokens]
    /\ Goto(w, "store")
    /\ UNCHANGED <<storeVars, retrieverVars, memories, tokens, links, up, stopping, active, inflight,
                   linkIndex, queue, locals, history>>

StoreSnippet(w) ==
    /\ pc[w] = "store"
    /\ InsertDistillation(sess[w], cur[w].snippet, cur[w].tokens, SnippetKeys[cur[w].snippet])
    /\ captured' = [captured EXCEPT ![sess[w]] = @ \cup {cur[w].snippet}]
    /\ cur' = [cur EXCEPT ![w] = Idle]
    /\ Goto(w, "next")
    /\ UNCHANGED <<retrieverVars, envVars, sess, wm, transcript, todo, scan, replacing, told>>

\* The memories of the transcript that are still to be linked.
Unlinked(w) == {m \in transcript[w] : m > cur[w].snippet}

\* Mutant of LinkMemory: a link that could not be stored is indexed all the same.
LinkMemoryOrNot(w) ==
    /\ pc[w] = "link"
    /\ \E m \in First(Unlinked(w)) :
        LET matched == TokenOf(m) \cap matcher[ProcOf(w)]
        IN \E stored \in {matched} \cup {{} : call \in {"link"} \cap Failing} :
            /\ links' = links \cup (stored \X {m})
            /\ cur' = [cur EXCEPT ![w] = [snippet |-> m, tokens |-> matched]]
            /\ Goto(w, IF matched = {} THEN "link" ELSE "addLink")
    /\ UNCHANGED <<storeVars, retrieverVars, memories, tokens, up, stopping, active, inflight, matcher,
                   linkIndex, queue, sess, wm, transcript, todo, scan, history>>

\* The loop over the transcript: Match, and LinkMemory; a memory whose LinkMemory
\* fails is logged and left out.
LinkMemory(w) ==
    /\ pc[w] = "link"
    /\ \E m \in First(Unlinked(w)) :
        LET matched == TokenOf(m) \cap matcher[ProcOf(w)]
        IN \E stored \in {matched} \cup {{} : call \in {"link"} \cap Failing} :
            /\ links' = links \cup (stored \X {m})
            /\ cur' = [cur EXCEPT ![w] = [snippet |-> m, tokens |-> stored]]
            /\ Goto(w, IF stored = {} THEN "link" ELSE "addLink")
    /\ UNCHANGED <<storeVars, retrieverVars, memories, tokens, up, stopping, active, inflight, matcher,
                   linkIndex, queue, sess, wm, transcript, todo, scan, history>>

\* personalRetriever.AddLink; that of a command line process answers nobody and is
\* left out, as its index of distillations is below.
AddLink(w) ==
    /\ pc[w] = "addLink"
    /\ linkIndex' = IF Kind[w] = "auto"
                    THEN linkIndex \cup (cur[w].tokens \X {cur[w].snippet}) ELSE linkIndex
    /\ Goto(w, "link")
    /\ UNCHANGED <<storeVars, retrieverVars, memories, tokens, links, up, stopping, active, inflight,
                   matcher, queue, locals, history>>

EndLinks(w) ==
    /\ pc[w] = "link"
    /\ Unlinked(w) = {}
    /\ Goto(w, IF Kind[w] = "auto" THEN "scanKeys" ELSE "setMark")
    /\ UNCHANGED <<storeVars, retrieverVars, envVars, locals, history>>

\* Rebuild, in three steps: the two scans, which no lock covers, and the swap.
ScanKeys(w) ==
    /\ pc[w] = "scanKeys"
    /\ scan' = [scan EXCEPT ![w].keys = semkeys]
    /\ Goto(w, "scanRows")
    /\ UNCHANGED <<storeVars, retrieverVars, envVars, sess, wm, transcript, todo, cur, history>>

ScanRows(w) ==
    /\ pc[w] = "scanRows"
    /\ scan' = [scan EXCEPT ![w].rows = TokenRows]
    /\ Goto(w, "swap")
    /\ UNCHANGED <<storeVars, retrieverVars, envVars, sess, wm, transcript, todo, cur, history>>

SwapIndexes(w) ==
    /\ pc[w] = "swap"
    /\ Swap(scan[w].keys, scan[w].rows)
    /\ scan' = [scan EXCEPT ![w] = Blank]
    /\ Goto(w, "setMark")
    /\ UNCHANGED <<storeVars, envVars, sess, wm, transcript, todo, cur, history>>

\* Mutant of SetMark: the session's last memory is asked for again.
SetMarkToNewest(w) ==
    /\ pc[w] = "setMark"
    /\ \E top \in Last(MemoriesOf(sess[w])) : SetMetadata(sess[w], top)
    /\ replacing' = replacing \ {sess[w]}
    /\ told' = [told EXCEPT ![sess[w]] = @ \cup transcript[w]]
    /\ transcript' = [transcript EXCEPT ![w] = {}]
    /\ Goto(w, "end")
    /\ UNCHANGED <<retrieverVars, envVars, sess, wm, todo, cur, scan, captured>>

\* The watermark is the last memory of the transcript.
SetMark(w) ==
    /\ pc[w] = "setMark"
    /\ \E top \in Last(transcript[w]) : SetMetadata(sess[w], top)
    /\ replacing' = replacing \ {sess[w]}
    /\ told' = [told EXCEPT ![sess[w]] = @ \cup transcript[w]]
    /\ transcript' = [transcript EXCEPT ![w] = {}]
    /\ Goto(w, "end")
    /\ UNCHANGED <<retrieverVars, envVars, sess, wm, todo, cur, scan, captured>>

\* An error of these calls ends the call of distillOneSession.  The model's are
\* logged and a pass goes on with its next session; a store's end the pass.
GiveUp(w) ==
    /\ \/ pc[w] \in {"clear", "clearMark", "readMark", "readMemories", "distill", "merge",
                     "replace", "setMark"} \cap Failing
       \/ pc[w] \in ContextSteps /\ Cancelled(w)
    /\ \/ pc[w] \in {"distill", "merge"} /\ UNCHANGED queue
       \/ pc[w] # "distill" /\ queue' = [queue EXCEPT ![w] = {}]
    /\ Goto(w, "failed")
    /\ UNCHANGED <<storeVars, retrieverVars, memories, tokens, links, up, stopping, active, inflight,
                   matcher, linkIndex, locals, history>>

\* An error of these is logged and the work goes on without its result: a
\* snippet without a token, no snippet at all, an index that is not rebuilt.
CarryOn(w) ==
    /\ pc[w] \in {"lookup", "newToken", "store", "scanKeys", "scanRows"} \cap Failing
    /\ Goto(w, CASE pc[w] \in {"lookup", "newToken"} -> "store"
                 [] pc[w] = "store" -> "next"
                 [] OTHER -> "setMark")
    /\ UNCHANGED <<storeVars, retrieverVars, envVars, locals, history>>

Step(w) ==
    \/ Clear(w) \/ ClearMark(w) \/ ReadMark(w) \/ ReadMemories(w)
    \/ Distill(w) \/ Merge(w) \/ Replace(w)
    \/ NextSnippet(w) \/ LookupToken(w) \/ InsertToken(w) \/ Learn(w) \/ StoreSnippet(w)
    \/ LinkMemory(w) \/ AddLink(w) \/ EndLinks(w)
    \/ ScanKeys(w) \/ ScanRows(w) \/ SwapIndexes(w)
    \/ SetMark(w)
    \/ GiveUp(w) \/ CarryOn(w)

Next ==
    \/ Start \/ Crash \/ Exit
    \/ \E p \in Proc : Interrupt(p)
    \/ \E s \in Session : Arrive(s) \/ StoreMemory(s) \/ RequestFails(s)
    \/ \E w \in Worker : RunPass(w) \/ NextSession(w) \/ Kill(w) \/ Step(w)

Spec == Init /\ [][Next]_vars

\* A goroutine that can go on does.
FairSpec == Spec /\ \A w \in Worker : WF_vars(Step(w))

-----------------------------------------------------------------------------
(* Properties *)

Quiet(s) == \A w \in Worker : Running(w) => sess[w] # s

TypeOK ==
    /\ StoreTypeOK
    /\ RetrieverTypeOK
    /\ memories \in Seq(Session)
    /\ tokens \subseteq Token
    /\ links \subseteq Token \X (1..Len(memories))
    /\ up \in BOOLEAN /\ stopping \subseteq Proc
    /\ active \in Session \cup {NoSession}
    /\ inflight \in [Session -> Nat]
    /\ matcher \in [Proc -> SUBSET tokens]
    /\ linkIndex \subseteq links
    /\ queue \in [Worker -> SUBSET Session]
    /\ pc \in [Worker -> Steps]
    /\ sess \in [Worker -> Session \cup {NoSession}]
    /\ wm \in [Worker -> 0..Len(memories)]
    /\ transcript \in [Worker -> SUBSET (1..Len(memories))]
    /\ todo \in [Worker -> SUBSET (1..Len(memories))]
    /\ cur \in [Worker -> [snippet : 0..Len(memories), tokens : SUBSET tokens]]
    /\ scan \in [Worker -> [keys : SUBSET (Key \X (1..nextID - 1)),
                            rows : SUBSET (Token \X (1..nextID - 1))]]
    /\ metadata \in [Session -> 0..Len(memories)]
    /\ captured \in [Session -> SUBSET (1..Len(memories))]
    /\ replacing \subseteq Session
    /\ told \in [Session -> SUBSET (1..Len(memories))]

\* "Watermark is the max memory ID included in the last distillation": whatever
\* requests, workers and crashes overlap, no memory at or below a session's
\* watermark was left out of every completed transcript of the session.
WatermarkSound ==
    \A s \in Session : \A i \in MemoriesOf(s) : i <= metadata[s] => i \in told[s]

\* "No previously captured knowledge is lost": when nobody is working on a
\* session, every fact a distillation of it stored is still stored; after
\* one that died between its delete and its inserts, the session has memories
\* above its watermark, so that it will be distilled again.
KnowledgeKept ==
    \A s \in Session : Quiet(s) =>
        IF s \in replacing
        THEN \E i \in MemoriesOf(s) : i > metadata[s]
        ELSE captured[s] \subseteq GetSnippetsBySessionID(s)

\* The least the same sentence can mean: a fact once stored and stored no more
\* is at least going to be distilled again, the session having a memory above its
\* watermark.
NothingLostForGood ==
    \A s \in Session : Quiet(s) =>
        \/ captured[s] \subseteq GetSnippetsBySessionID(s)
        \/ \E i \in MemoriesOf(s) : i > metadata[s]

\* A session whose snippets are deleted and not all written again is being worked
\* on, or its worker was killed: an orderly stop of the service, whose context is
\* cancelled between any two steps, never leaves one behind.
StopCompletesReplacements ==
    \A s \in replacing : \E w \in Worker : sess[w] = s /\ (Running(w) \/ pc[w] = "killed")

\* "The previous session will be distilled on session change": what a session
\* has stored while it is active gets into a completed transcript, however the
\* distillations of other sessions, requests and command line passes come in
\* between, unless a distillation of the session fails or dies, the service stops,
\* or no other session ever follows.
LeftIsDistilled ==
    \A s \in Session, i \in Snippet :
        (i \in MemoriesOf(s) /\ active = s) ~>
            \/ i \in told[s]
            \/ \E w \in Worker : sess[w] = s /\ pc[w] \in {"failed", "killed"}
            \/ active = NoSession \/ Serve \in stopping
            \/ [](active = s)

\* Between distillations the serving process finds every stored distillation by
\* each of its keys and tokens, and by a token nothing but stored ones.
IndexCurrent ==
    up /\ (\A w \in Worker : ~Running(w)) =>
        /\ semkeys \subseteq l0Index
        /\ personalIndex = TokenRows

\* A stored snippet about an entity the vocabulary lacks carries its token.
EntityTagged ==
    \A d \in distillations : d.tokens = TokenOf(d.snippet)

\* The matcher of the serving process knows the stored tokens, one being learned
\* this moment apart, and no others.
MatcherMirrors ==
    up => /\ matcher[Serve] \subseteq tokens
          /\ \A t \in tokens \ matcher[Serve] :
                \E w \in Worker : pc[w] = "learn" /\ t \in cur[w].tokens

\* While it runs, the serving process finds a memory by the token of an entity it
\* names when and only when that link is stored: whatever fails and is killed between
\* LinkMemory and AddLink, the one link just being added is the only one missing.
\* (The requests' links are those of MemoryIndex, see LinksMirrored there.)
LinkIndexMirrors ==
    up => /\ linkIndex \subseteq links
          /\ \A link \in links \ linkIndex :
                \E w \in Worker :
                    pc[w] = "addLink" /\ link \in cur[w].tokens \X {cur[w].snippet}

\* "Semkey rows are removed automatically via ON DELETE CASCADE."
SemkeysLive == \A row \in semkeys : row[2] \in LiveIDs

-----------------------------------------------------------------------------
(* What is known of a session, as SessionKnowledge sees it *)

\* Where a snippet is being stored, and all steps between the delete and the
\* watermark.
Storing == {"lookup", "newToken", "learn", "store"}
Writing == Storing \cup {"next", "link", "addLink", "scanKeys", "scanRows", "swap"}
Replacing == Writing \cup {"setMark"}

\* The snippet a worker holds outside the table and outside todo.
Held(w) == IF pc[w] \in Storing THEN {cur[w].snippet} ELSE {}

\* The workers that have deleted the rows of a session and not set its watermark.
Rewriters(s) == {w \in Worker : sess[w] = s /\ pc[w] \in Replacing}

\* What the table has of a session, and what they have yet to store.
KnownOf(s) == GetSnippetsBySessionID(s) \cup UNION {todo[w] \cup Held(w) : w \in Rewriters(s)}

Known == [s \in Session |-> KnownOf(s)]
Rewritten == {s \in Session : Rewriters(s) # {}}

Knowledge == INSTANCE SessionKnowledge WITH
    log <- memories, mark <- metadata, known <- Known, open <- Rewritten

\* What is known of a session are facts of its own memories, and none of it is lost
\* but by a distillation that dies while it rewrites them, after which the session
\* is due again: so the calls of distillOneSession that follow one another, begin at
\* any time and die at any time implement the knowledge a reader of the tables
\* takes them to keep.
ImplementsKnowledge == Knowledge!Spec
==============================================================================
