# Semantic Compiler: specification and verification

TLA+ specifications of the orchestrator of Semantic Compiler, the TLC configurations
that check them on small instances, and TLAPS proofs about them for every instance.
Paths below are relative to `src/`.

    tlc -config MemoryIndexShared.cfg MCMemoryIndex.tla
    tlapm MemoryIndexProofs.tla

## 1. The system

Semantic Compiler gives an AI agent a long-term memory. A prompt (or a model's answer)
is embedded into a set of *semantic keys* (l0 ids) and matched against a vocabulary of
*personal tokens* (names the user has talked about), stored as a *memory*, and, when the
conversation moves to another session, the whole transcript of the session left behind
is *distilled* by a language model into *snippets*, which later prompts are answered
with. Everything runs in one process (`orchestrator serve`); two more subcommands,
`distill-sessions [--force]` and `ingest-openclaw`, open the same database files as
processes of their own.

| component | state | operations | hard parts | correct when |
|---|---|---|---|---|
| `semcom_store` | tables `memories`, `memory_semkeys` of memory.db | `Insert` (one transaction), `SemKeysSince`, `MaxTurnID`, `GetMemoriesBySessionID` | failing and cancelled calls, two processes | ids grow with commit order, a row and its keys appear together |
| `semcom_retrieve` | reverse index key -> memory ids, watermark `lastID` | `Open`, `Refresh`, `Query` | refreshes of many requests, rows of another process | the index is the stored rows up to the watermark |
| `semcom_personal` | tables `personal_tokens`, `memory_personal_tokens`; matcher; token -> memory index | `GetToken`, `InsertToken`, `LinkMemory`, `AddToken`, `AddLink`, `Match` | database first, memory second; check and insert apart | memory follows the tables |
| `semcom_distill` | tables `distillations`, `distillation_semkeys`, `distill_metadata` of personal.db; key and token indexes | insert, delete by session, `GetMetadata`, `SetMetadata`, `Query`, `Rebuild` | scans outside the lock, cascades that are off, ids that must not return | the index finds what is stored |
| `semcom_session` | table `session_distillation_retrievals` of memory.db | load, mark | check and mark apart | a session gets a distillation once |
| `semcom_embed` | five tables of PostgreSQL, the file index.bin, the index a process has loaded | `Build`, `Load`, `Query` | tables rewritten while they are read, a clustering in which clusters share members, ties | every key has a word of the text, a cluster with all of them is found |
| `ingest-openclaw` | one mark per file in `distill_metadata` | `RunOpenClawIngest` | files that grow, unreadable lines, failing calls, signals, kills, `--force` | a turn is lost or stored twice only for a reason, and no file keeps another waiting |
| orchestrator | active session, turn counter, background work | `Ingest`, `Chat`, `maybeTriggerDistill`, `tieredRetrieve`, `distillOneSession`, start and shutdown | every request, distillation and command line pass interleaves with every other; a language model takes seconds in the middle | see the properties of section 3 |
| `semcom_adapter`, `dashboard`, `internal`, scripts | none that lasts | decoding, display, packaging | | not modelled |

Components interact through the two databases (each call one SQLite transaction), through
the in-memory indexes (each behind its own lock), and through one atomic variable, the
active session id. Nothing holds a lock or a transaction across two of these, so every
property that relates two of them has to survive any other step in between: that is why
each action of the specifications is one such access.

## 2. Modules

| module | models | correspondence |
|---|---|---|
| `MemoryLog` | the promise of the write path: one append-only log, and for each process a searchable part of it that only jumps to everything searchable | abstract, no code of its own |
| `MemoryIndex` | `Ingest` and the storing half of `Chat` for several requests in several processes | a request's `pc` walks `DrawTurn`, `Insert`, `LinkMemory`, `AddLink` (once per token), `Refresh`; `Start` is the start-up of `main.go`, `Stop` its death; `Fail` any of the three calls returning an error |
| `DistillStore` | the tables of `semcom_distill/store.go` | one operator per call |
| `DistillRetriever` | the two reverse indexes of `semcom_distill/retriever.go` | `Score` and `Candidates` are `Query`; `Swap` ends `Rebuild` |
| `SessionDistillation` | `maybeTriggerDistill`, `RunSessionDistillationPass`, `distillOneSession` | a *worker* is one call of `distillOneSession`, or a pass making one call after the other; its `pc` walks the calls of that function in order (with `LinkMemory` and `AddLink` for each memory of a named entity), `GiveUp` is its early return on an error, which ends the pass, `CarryOn` an error that is only logged; `RunPass` reads the sessions of a pass, `NextSession` goes on to the next of them |
| `SessionKnowledge` | the promise of the distillation: what is known of a session only grows, except where a rewriting of it breaks, and then the session is due again | abstract, no code of its own |
| `TieredRetrieval` | `tieredRetrieve` and the answer of `Chat` | a chat's `pc` walks load, score, one wiki round per token, fetch, mark, store |
| `PhraseScan` | the scan `tokenize` (over the vocabulary) and `Matcher.Match` (over the registry) share | operators; `Scan` is a recursive function, `Cut` and `ReadAs` say what it must find without saying how |
| `ClusterIndex` | the bitmaps of `builder.go` and the drill-down of `index.go` | operators; a bitmap is the set of its tokens, the candidates of a level a function from clusters to narrowed queries |
| `Embedding` | the life of the index and of the registry, and every answer they give | `Recluster` (external) rewrites the tables, `StartBuild`, `ReadTable` (five times), `CreateFile`, `EncodeFile` are `semcom build`, `AbortBuild` its error or death, `Load` and `Exit` a process, `AddToken` the matcher learning, `Query` one text |
| `OpenClawImport` | `ingest-openclaw` | the command's `pc` walks the loop over files and, inside, mark, open, one step per line, mark, distil; `Ingest` and `distillOneSession` succeed or fail as a whole; `Grow` (external) is OpenClaw writing on |
| `MCMemoryIndex`, `MCSessionDistillation`, `MCTieredRetrieval`, `MCEmbedding`, `MCOpenClawImport` | instances for TLC | constants and symmetry sets |
| `MemoryIndexProofs` | proofs about `MemoryIndex` | section 5 |
| `SessionDistillationProofs`, `SessionTypeProofs`, `SessionKnowledgeProofs` | proofs about `SessionDistillation` | section 5 |
| `TieredRetrievalProofs` | proofs about `TieredRetrieval` | section 5 |
| `PhraseScanProofs` | proofs about `PhraseScan` | section 5 |
| `EmbeddingProofs` | proofs about `ClusterIndex` and `Embedding` | section 5 |
| `OpenClawImportProofs` | proofs about `OpenClawImport` | section 5 |

`SessionDistillation` and `TieredRetrieval` both extend `DistillRetriever`, which extends
`DistillStore`: they are two views of the same tables and index, one with every step of
the writer and no reader, one with every step of the reader and the writer reduced to its
effects (`StoreRow`, `DropRows`) and one rebuilding of the index at a time (`ScanKeys`,
`ScanRows`, `SwapIndexes`), of rows that come and go between its scans.

Abstractions that all of them share:

* except in `Embedding`, a text is the keys it embeds to and the tokens it matches, both
  arbitrary; the embedding and the matching read no state that a request changes (the
  matcher excepted, whose tokens `SessionDistillation` follows);
* SQLite makes each call atomic and commits in id order; with AUTOINCREMENT an id is never
  given twice, so `memories` is a sequence and `nextID` a counter;
* a start of a process is one step. The reads of the start-up code are independent of one
  another, so a row that lands between two of them is one that lands before or after all
  of them for the index concerned;
* a crash may come before any step;
* a signal (`Interrupt`) cancels the shutdown context of a process and nothing else. The
  calls of `distillOneSession` that take the context fail from then on, those that do not
  go on, no new distillation is begun, and `Exit` waits for the requests
  (`srv.Shutdown`) and the background work (`bgWg.Wait`). In `OpenClawImport` every
  `Ingest` fails after the signal and the metadata call does not.

In `Embedding` a text is the sequence of its words as `SplitWords` leaves it, up to
`MaxText` of them, and thresholds are whole percents; the comparison of `drillDown`,
`matched/qCard >= threshold` in float64, is `threshold * |q| <= 100 * matched`. The order of a
map iteration among clusters with the same overlap is a free choice (`TopOverlaps`). The
registry holds a name as it was written (`Spellings`): the words `SplitWords` finds in
it, and whether it is those words with one space between two. A name with a hyphen, a dot
or a second space in it is learned and stays out of reach of `Match` (`Phrases`, hazard at
`session_distillation.go:126`), also for the text that is that very name.
A file of OpenClaw is a sequence of lines that are a turn, something else, or longer than
the buffer of the scanner; it only grows, and the extraction of text from a line is what
makes it a turn or not.

In `SessionDistillation` every memory states one fact and a snippet is the fact it
records; the model's answer to a transcript is its facts, or, with `Omits`, any part of
them, and a consolidation is the union of its two arguments. This is what the prompts ask
for and the most favourable reading: what is lost in this specification is lost by the
orchestrator, not by the model. `captured`, `replacing` and `told` are history variables
that no action reads except to update them.

## 3. What the runs check

Passing runs:

* **memory_index_shared** (two processes, two requests in one of them and one in the
  other, one key, one token; about 2.1 million states). `IndexIsPrefix`: an index never
  has a hole below its watermark, although `Refresh` reads only above it and rows arrive
  from the other process. `AnsweredIsSearchable`: whatever a request was answered for is
  found by its process afterwards, also after a restart. `LinksMirrored`: the personal
  index differs from the table only by links being added or made elsewhere.
  `ImplementsLog`: the write path implements `MemoryLog`.
* **memory_index_alone** (one process, killed and restarted any number of times, three
  requests). `TurnsDistinct`: turn ids survive failed inserts and restarts.
  `StoredBecomesSearchable`: what is stored is found eventually, even if the process dies
  before its refresh.
* **distill_serial** (two sessions, three memories, three workers of the service one after
  the other, crashes, failing model calls and links, a model that omits; 778 000 states).
  `KnowledgeKept`, `IndexCurrent`, `EntityTagged`, `MatcherMirrors`, `WatermarkSound`;
  `LinkIndexMirrors`: of the links a distillation makes, the service finds in memory what
  is in the table, but for the one being added at the moment (`LinksMirrored` says it of
  the links requests make); and with orderly stops at any step
  `StopCompletesReplacements`: a session whose old snippets are deleted gets its new ones
  before the process is gone, although the context of half its calls is cancelled.
  `ImplementsKnowledge`: the calls implement `SessionKnowledge`, where what is known of a
  session is what the table has of it and what the worker that has emptied the table still
  carries.
* **distill_concurrent** (two sessions, two memories, a worker of the service and a forced
  pass over both sessions, everything overlapping, killed at any step; requests and every
  call that can end or cut short a distillation may fail, but not the look-up and insert
  of a token, which only leave a snippet untagged; no orderly stops; 677 000 states).
  `WatermarkSound`: the watermark never passes a memory that was in no completed
  transcript. `LeftIsDistilled` (liveness): what a session stored while it was active gets
  into a completed transcript once another session has taken its place, or a distillation
  of that session failed, or the process died.
* **tiered_sequential** (two chats, one at a time per session, two rows inserted and
  deleted at any moment, also between the scans and the swap of a rebuilding, restarts,
  failing fetches and stores; 8.1 million states). `NeverRepeated`,
  `AnswerWithoutDuplicates`, `ExclusionMeansSeen`.
* **embedding_index** (three clusterings of three clusters a level, one written over
  another at any point of two builds; all 39 texts of up to three words out of three; two
  names, one a part of the other, and the longer one written another way; 254 000 states).
  `CandidatesMatch`: a candidate carries the tokens of the text its own cluster has, also
  from tables of two clusterings. `WholeMatchFound`: a cluster that has all of them is
  among the keys whatever the thresholds, the ties and the other branches.
  `SharedChildGainsNothing`: see the comments below. `LongestPhraseWins`: the scan against
  its reference definition. `LearnedNameIsHit`: the same for a registry that learns: a
  text that is a learned name is one hit exactly if the name was written as its words with
  single spaces.
* **openclaw_import** (two passes over a file that is sound and one in which everything
  may fail, both growing, forced or not, signals and kills; 550 000 states).
  `MarkTellsLoss`, `CopiesExplained`, `SoundFilesFinished`, `ImportedWhole`, and the
  liveness property `EveryFileReached`.

Runs in which the code does something else than a comment says, each with the trace that
shows it:

* **distill_overlap**: two distillations of one session at once lose a fact for good
  (`session_distillation.go:39`, "no previously captured knowledge is lost"). The run uses
  three passes of the command line; the same steps are open to the workers of `serve` when
  sessions alternate faster than the model answers.
* **distill_forced**: `--force` deletes, then fails to clear the watermark; the session
  stays empty and is skipped from then on (`session_distillation.go:42`).
* **distill_cascade**: semkeys of deleted distillations stay (`semcom_distill/store.go:155`).
* **tiered_overlap**: two chats of one session return the same distillation
  (`retrieval.go:36`).
* **tiered_unanswered**: distillations are marked as returned by a chat that returned an
  error (`semcom_session/tracker.go:83`).

Met on the way, in places where a run of its own would show little more than the line does:

* `ImportedWhole` holds only up to the first signal. After it every `Ingest` of
  `ingest-openclaw` fails at once, the scan of the file runs to its end all the same, and
  the mark is set by a call that does not take the context. The file at work and all
  files after it are marked as imported with as many turns as were stored, often 0, and
  the next pass skips them, although `ingest_openclaw.go:39` says that the command
  "ingests clean user/assistant turns into the memory store". Without its first conjunct
  the property fails in the same run. What remains true is `MarkTellsLoss`: the mark counts
  no turn that is not stored, so "already ingested (0 turns)" in the log gives the loss
  away; `--force` repairs it.
* `index.go:157` says that joining the queries of several parents gives a child "the best
  chance to pass". Every token of the joined query that the child has is in each
  parent's query already (`CandidatesMatch`), so joining can only enlarge the
  denominator: `SharedChildGainsNothing` is the opposite of the comment.
* `orchestrator.go:254` calls the automatic distillation a "force-re-distill"; it is
  called without force. `index.go:75` says that a ratio "exceeds the threshold"; it may
  equal it. `COMPONENTS.md:86` says `TokenIDs` are those "that contributed"; they are all the
  tokens of the clusters that passed.

The passing runs are therefore about the conditions under which the promises hold: one
distillation at a time (`Serial`), one chat of a session at a time (`OneAtATime`); section 5
has theorems under weaker ones, on the session or the step concerned. Neither
is enforced by the code; both are what a single user who reads an answer before the next
prompt produces.

### Bounds

Requests, chats and workers are calls and are made once each, so their number bounds the
behaviour. Two requests in one process and one in another are enough for every pair of
steps to interleave within and across processes; three requests in the liveness run let a
third draw a turn between a failed insert and a restart. `MaxMemories` = 3 lets a session
have a first distillation, a second one and a memory that arrives during it; the
violation in distill_overlap needs exactly these three. Two rows (`MaxRows`) with
`TopK` = `WikiTopK` = 1 let a row be cut off by a limit, and `MinScore` = 2 with
`PersonalWeight` = 1 keeps the relation of the real constants (a token alone, 5, does not
reach the threshold, 6; a token and a key, or a token twice, do). Symmetry is used where
the members of a set are interchangeable in the specification and no liveness is checked.
Deadlock is not checked: all calls made, the system really stops.

In `Embedding` the second clustering has two clusters that share a member on two levels
and one cluster is missing from a level, the third names a cluster without a row;
`TopClusters` = 2 with up to three clusters at the top makes the cut-off and its ties
happen, and thresholds of 60, 50 and 40 percent make a child fail for the joined query of
its parents and pass for one of them, which texts of three words can show. Two builds
let a file be overwritten while a process runs on the old one. In `OpenClawImport` two
passes let the second meet whatever the first left behind; the second file has a turn, a
line to skip and a line that cannot be read, so that it can be marked before the third
arrives, or fail.

### Fairness

In `memory_index_alone`, `FairSpec` assumes weak fairness of a
request's next step (a goroutine that can run does) and of `Start` (whoever runs the
service starts it again). Nothing is assumed about requests arriving, about calls
succeeding, or about a process staying up: a process may die again and again, and a
stored memory still becomes searchable in one of its lives.

In `distill_concurrent`, `FairSpec` assumes weak fairness of each worker's next step: its
goroutine or its process can run, and a call of the model returns or fails. The second
half is an assumption about the provider: the code sets no time limit of its own. Nothing is assumed about requests, so `LeftIsDistilled` has to name
the case that no other session ever follows. In `openclaw_import` it is weak fairness of the
command's next step; every step of a pass is enabled until it is done or killed, and
nothing makes a new pass begin.

## 4. Hazards

PROJECT.json lists, line by line, what is hard to test in this code and which property
looks after it. The most instructive ones: the watermark of `Refresh`; the delete and the
inserts of a replacement with a language model's answer between what was read and what is
deleted; a tracker that remembers ids of deleted rows; exclusions that are loaded at the
beginning of a chat and extended at its end; a signal that stops half of the calls of a
distillation, or of an import, and not the other half.

## 5. What is proved

All proofs are for arbitrary sets of processes, requests, sessions, keys and tokens, from
the assumptions named in the modules (each only says what kind of value a constant is).

`MemoryIndexProofs`:

* `Invariance`: the inductive invariant. `IndexIsPrefix` is nearly inductive by itself: a
  refresh reads exactly the rows above the watermark, an insert lands above every
  watermark. `AnsweredIsSearchable` is not: it needs that a request that has inserted
  carries the id, keys and tokens of its row, that a watermark which passed the row brought
  it along, and where each link of the request is while it is being added.
* `TypeCorrect`, `NoHoleInIndex`, `ReadYourWrites`, `PersonalIndexMirrors` follow from it.
* `OnlyTwoProcessesRepeatTurns`: in a behaviour in which no two processes are up at once
  (`Sole`) turn ids are unique. A second invariant: every turn stored or carried by a
  request is at most the counter of the process that is up, and no two of them are equal.
  `TurnsStayDistinct` is the same for processes that wait for one another.
* `Implementation`: every step of `MemoryIndex` is a step of `MemoryLog` or changes nothing
  that `MemoryLog` sees, with `Found` as the refinement mapping.

`SessionDistillationProofs`:

* `WatermarkIsSound`. `WatermarkSound` says that memories up to the watermark were in a
  completed transcript, which a `SetMark` could break if it wrote a mark from a transcript
  with a hole. The strengthening `MarkInv` adds why it cannot: a transcript is everything
  its session had when it was read, and every later memory has a higher id (`NoGap`); no
  mark and no transcript is ahead of the store (`Bounded`), so a memory arriving is above
  them all; a call begins by emptying the transcript of its worker, which may hold that of
  the session before. No assumption about
  `Serial`, `Crashes`, `Omits` or `Failing` is used: the mark is sound even where
  knowledge is lost.

`SessionTypeProofs`:

* `SessionTypeCorrect`, from `TypeInv`: the type invariant by parts (`Tables`, `Rows`,
  `Requests`, `Workers`, `Linking`, `Passes`), with what it needs to be inductive: there is room for the memory
  of every request received (by counting requests, `RoomForOne`), rows have ids below
  `nextID` and snippets that are memories, a worker that runs has a session and one that
  stores a snippet has one, what is added to the index of links is in the table, the
  sessions a pass still has before it have memories.
* `ForeignKeysKeepSemkeysLive`: with foreign keys enforced no semkey outlives its
  distillation. The missing pragma is the only cause of what distill_cascade shows.

`SessionKnowledgeProofs`. A condition is either on the constants or on the behaviour:
`[]Apart` (no session is distilled by two workers at once), `[]InsertsApart` (no two
workers are about to insert the same entity), `[][RebuildsApart]_vars` (between its first
scan and its swap a worker is the only one to write), `[][ForceCompletes]_vars` (a forced
call that has deleted the rows gets to clear the watermark). The conditions on behaviours
say which steps are to blame: without them TLC finds each property violated on instances
like those of section 3 (two workers of the service at once are enough for `EntityTagged` and
`IndexCurrent`), with them it holds however everything else overlaps, fails and dies.

| theorem | of | on the behaviour | on the constants | calls that must succeed |
|---|---|---|---|---|
| `StopsBetweenReplacements` | `StopCompletesReplacements` | | no `--force` | `SetMetadata` |
| `MatcherIsCurrent` | `MatcherMirrors` | | only the service | |
| `LinkIndexIsCurrent` | `LinkIndexMirrors` | | only the service | |
| `OnlyRacingInsertsUntag` | `EntityTagged` | `InsertsApart` | | `GetToken`, `InsertToken` |
| `EntitiesAreTagged` | `EntityTagged` | | `Serial` | `GetToken`, `InsertToken` |
| `OnlyWritesDuringRebuildHide` | `IndexCurrent` | `RebuildsApart` | only the service | the two scans of `Rebuild` |
| `IndexesAreCurrent` | `IndexCurrent` | | `Serial`, only the service | the two scans of `Rebuild` |
| `KnowledgeKeptApart` | `KnowledgeKept` | `Apart`, `ForceCompletes` | | the insert of a snippet |
| `OnlyBrokenForceLoses` | `KnowledgeKept` | `ForceCompletes` | `Serial` | the insert of a snippet |
| `NoKnowledgeLost` | `KnowledgeKept` | | `Serial`, no `--force` | the insert of a snippet |
| `OnlyOverlapLosesForGood` | `NothingLostForGood` | `Apart` | no `--force` | the insert of a snippet |
| `KnowledgeImplemented` | `ImplementsKnowledge` | `Apart` | no `--force` | the insert of a snippet |
| `SerialImplementsKnowledge` | `ImplementsKnowledge` | | `Serial`, no `--force` | the insert of a snippet |
| `NoLossWithoutRedo` | `[][Knowledge!LossIsDue]` | `Apart` | no `--force` | the insert of a snippet |

* They rest on `WorkerMoves`: in any step a worker takes a step of its own, begins, dies,
  or keeps everything it carries; and on `AloneStays`, `AliveStays`, `UnforcedStays`.
* `StopsBetweenReplacements`: a worker between its delete and its watermark has no step
  left that takes the context (`ReplacingGoesOn`), so every session in `replacing` has a
  worker that goes on or was killed (`Attended`).
* `MatcherIsCurrent`: a token is in the matcher or in the hands of a worker about to learn
  it (`Mirrored`).
* `LinkIndexIsCurrent`: a stored link is in the index or in the hands of its worker, which
  goes on to add it, if it is not killed with the process (`AddLinkGoesOn`).
* `OnlyRacingInsertsUntag`: `Resolved` follows an entity through look-up, insert and
  learning; an entity about to be inserted is in no other worker's hands.
* `OnlyWritesDuringRebuildHide`: `Scanned` says that what has been read is still in the
  tables, `Current` that the indexes are the tables whenever nobody is writing.
* `KnowledgeKeptApart`: `KnowledgeKept` speaks of sessions nobody works on, so the invariant
  says what a worker knows at each step (`Knows`): its watermark is the session's and
  something is above it; what the table holds when it is emptied is in `todo`; from then
  on every captured fact is stored, in the worker's hands, or in `todo`, which is empty
  before the watermark is set. `Kept` adds that a session left half-replaced is due and,
  unless `--force` has just emptied it (`Cleared`), has a watermark above 0, so that the
  next worker merges before it deletes. `Begun`: a forced pass is given sessions with memories
  only, so that a session with a cleared watermark is due. The two violations of
  section 3, distill_overlap and distill_forced, are thereby the only ones.
* `KnowledgeImplemented`: under `Knowledge`, a stored memory is `Remember`, the delete is `Open` (as is
  the answer of the model for a session that had nothing to delete), the watermark
  `Close`, a crash or a kill `Break` for all sessions that were being rewritten, and every
  other step stutters. Beyond `KnowledgeInv` it needs `Owned`: workers carry facts of
  their own session only, and one they have read is above the watermark. That a step of one worker
  leaves the knowledge of the other sessions alone is `OthersImplement`.
* `KnowledgeIsSound` says what this is worth, of the abstract specification alone: what is
  known of a session are its own facts, and a step that loses one leaves the session due.
  `NoLossWithoutRedo` puts the two together.

`TieredRetrievalProofs`:

* `TypeCorrect`, from `TypeInv`, which also says that ids in the tables are below
  `nextID` and distinct (`FreshIDs`), and that a row a chat returns is still the row with
  its id if there is one (`Genuine`).
* `NothingTwiceInAnAnswer`, from `OnceEach`: the scored ids are distinct, a wiki round adds
  only distinct new ones, and the rows fetched come from different places of the two.
* `ExcludedWasSeen`, from `MarkedWereFetched` and `Genuine`.
* `OnlyOverlapRepeats`, for behaviours in which no two chats of one session are under way
  at once (`Apart`; requests without a session do not count), if the calls to the tracker
  succeed (`Tracked`). `TrackedInv` follows a chat through the code: what it loaded is still all
  the tracker has (`Excludes`), what it chose avoids it (`Avoids`), so what it is about to
  record is new (`Unrecorded`), and what it returned is recorded (`Recorded`). Chats of
  different sessions may overlap, and everything else may fail. `NeverReturnedAgain` is the
  same for `OneAtATime`; tiered_overlap shows what happens without it.
* `OnlyFailedStoresMarkUnreturned`: if prompts can be stored, every mark belongs to an answer
  given, on its way, or lost with the process (`MarkedWereReturned` is inductive then). The
  failing store is the only cause of what tiered_unanswered shows.

`PhraseScanProofs`, about the recursive function `Scan`, for any text and any set of phrases:

* `ScanUnfolds`: the recursion has a solution and `Scan` is it; `ScanCuts`, `ScanReads`:
  what it finds is a cut of the text into pieces none of which could be longer;
  `KnownTextIsOnePiece`. Induction is done on a set of positions instead of a predicate
  (`CountDown`: a set that has each position with all later ones has all), because the
  theorems of the library with an operator parameter are out of reach of the provers.

`EmbeddingProofs`, for any clustering, texts, thresholds and number of top clusters:

* `EmbeddingTypeCorrect`, from `IndexInv`: what has been read of each table is that table
  of some clustering, so what is compiled, written and loaded has bitmaps of tokens.
* `CandidatesMatchHolds` by following one level after the other: if the parents of a level
  carry what their clusters have of the query, the joined query of a child contains all
  the child has (`PooledIsWhole`, because a parent's bitmap contains its members'), and
  narrowing leaves exactly that (`DrillDownNarrows`).
* `WholeMatchFoundHolds`: a cluster with all tokens passes every threshold of at most 100
  percent (`DrillDownKeepsWhole`), and is among the top ones unless there are too many like
  it (`WholeAreTop`, by counting).
* `SharedChildGainsNothingHolds`: what a child shares with the joined query it shares with
  each parent's, and the joined one is not smaller (`EnoughOfFewer`).
* `LongestPhraseWinsHolds` and `LearnedNameIsHitHolds`: a reply holds the scans of its text over the
  vocabulary in use and the phrases of the names known (`ScannedBoth`), and
  `PhraseScanProofs` says what those are. Nothing is assumed of how names are written; the
  second theorem says which of them are hit and that the others are not.

`OpenClawImportProofs`, for any files, lines, failures, passes, signals and kills:

* `ImportInv` is `TypeOK` with five additions: the locals are gone outside a scan
  (`PosInv`); what has been counted is stored (`CountInv`); a file about to be read has as
  many copies as it has excuses, a scan adds one to the lines it has passed only
  (`CopyInv`); the sound files a pass has left behind are settled (`PassInv`); until the
  first signal a scan of a sound file has stored every turn it has passed (`WholeInv`).
* `ImportTypeCorrect`, `MarkTellsLossHolds`, `CopiesExplainedHolds`, `SoundFilesFinishedHolds`
  and `ImportedWholeHolds` follow.

Model-checked only: liveness (`StoredBecomesSearchable`, `LeftIsDistilled`,
`EveryFileReached`), which is out of the provers' reach. Every other property of a passing
run is a theorem, and for each of the five violations of section 3 there is a theorem
that names its one cause:

| run | violates | theorem | without |
|---|---|---|---|
| distill_overlap | `NothingLostForGood` | `OnlyOverlapLosesForGood` | two distillations of one session at once |
| distill_forced | `KnowledgeKept` | `OnlyBrokenForceLoses` | a forced call that breaks off between its two statements |
| distill_cascade | `SemkeysLive` | `ForeignKeysKeepSemkeysLive` | foreign keys switched off |
| tiered_overlap | `NeverRepeated` | `OnlyOverlapRepeats` | two chats of one session at once |
| tiered_unanswered | `MarkedWereReturned` | `OnlyFailedStoresMarkUnreturned` | a prompt that cannot be stored |

## 6. Not modelled

* `semcom_adapter`: decodes, validates and encodes one request and keeps no state; the
  retries and time limits of its hooks are requests of their own in `MemoryIndex`.
* `dashboard`: does not compile against the packages of this commit (it gives
  `semcom_retrieve` an `AutoRefresh` option, closes the retriever and calls `Query` with two
  arguments, none of which exist there), so there is no behaviour to be faithful to.
* HTTP and JSON, the prompts of the language model, `internal`, install and build scripts.
* Operations nothing calls: the getters of the store (`Get`, `GetChunk`,
  `MemoriesContainingWord`, `GetRaw`, `MaxID`), `MemoryTokenCounts`,
  `DistillationRetriever.Add`, the tracker's memory ids, and `Retriever.Query` with its only
  caller `Orchestrator.Retrieve`.

What would come next: `SessionKnowledge` with a step for `--force`, and the import composed
with a running service instead of `Ingest` as one step.
