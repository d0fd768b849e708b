---------------------------- MODULE OpenClawImport ----------------------------
(***************************************************************************)
(* The command ingest-openclaw: pass after pass over the session files of  *)
(* OpenClaw, which may be written to at the same time.  A file that is not *)
(* marked as imported is read line by line, every turn in it is stored by  *)
(* Ingest, the file is marked with the number of turns stored, and then    *)
(* its session is distilled.  What Ingest and distillOneSession do inside  *)
(* is in MemoryIndex and SessionDistillation; here they succeed or fail.   *)
(***************************************************************************)
EXTENDS Naturals, Sequences, FiniteSets

CONSTANTS
    File,       \* session files, each with a session of its own
    Lines,      \* what is, or will be, in each
    Failing,    \* for each file, the calls that may fail
    NoFile,     \* no file is being worked on
    Kills,      \* whether the command may be killed
    Interrupts, \* whether it may get SIGINT or SIGTERM
    MaxPasses   \* bound: how often the command is run

\* A line is a turn if it decodes to a message of the user or the assistant with
\* some text left when memories, timestamps and thoughts are taken out of it.  A
\* line longer than the buffer of the scanner ends the scan with an error.
Kinds == {"turn", "other", "long"}
Calls == {"getMark", "open", "insert", "finish", "setMark", "distil"}

ASSUME FileAssumption == IsFiniteSet(File) /\ NoFile \notin File
ASSUME LineAssumption == Lines \in [File -> Seq(Kinds)]
ASSUME FailingAssumption == Failing \in [File -> SUBSET Calls]
ASSUME FaultAssumption == Kills \in BOOLEAN /\ Interrupts \in BOOLEAN
ASSUME PassAssumption == MaxPasses \in Nat

VARIABLES
    size,       \* lines each file has so far
    stored,     \* memories made of each line
    marked,     \* files with openclaw_ingested metadata
    mark,       \* its value, the number of turns
    fresh,      \* sessions with memories above their distillation watermark
    pc, force, cancelled,   \* the running command: next step, --force, ctx.Done
    todo, cur,              \* files to go, file at work
    pos, count,             \* lines read of it, turns stored
    passes,     \* runs of the command
    interrupted,    \* history: whether the command ever got a signal
    upto,       \* history: lines of a file read when it was marked
    excuses     \* history: scans of a file that ended without its mark being set,
                \* or began although it was: forced, or the mark could not be read

db == <<stored, marked, mark, fresh>>
run == <<force, passes>>
history == <<interrupted, upto, excuses>>
vars == <<size, db, pc, run, cancelled, todo, cur, pos, count, history>>

Ended == {"idle", "done", "killed"}
Steps == Ended \cup {"next", "check", "open", "scan", "setMark", "distil"}

Init ==
    /\ size = [f \in File |-> 0]
    /\ stored = [f \in File |-> [i \in DOMAIN Lines[f] |-> 0]]
    /\ marked = {} /\ mark = [f \in File |-> 0]
    /\ fresh = {}
    /\ pc = "idle" /\ force = FALSE /\ cancelled = FALSE
    /\ todo = {} /\ cur = NoFile
    /\ pos = 0 /\ count = 0
    /\ passes = 0
    /\ interrupted = FALSE
    /\ upto = [f \in File |-> 0] /\ excuses = [f \in File |-> 0]

InPass == pc \notin Ended
MayFail(call) == call \in Failing[cur]

\* Mutant of Leave: the locals of one file are still there for the next.
LeaveOpen == UNCHANGED <<pos, count>>

\* ingestOpenClawSession returns, or all ends: its locals are gone.
Leave == pos' = 0 /\ count' = 0
Excuse == excuses' = [excuses EXCEPT ![cur] = @ + 1]

-----------------------------------------------------------------------------
(* The pass *)

\* All files there are; the code takes them by name, here in any order.
StartPass ==
    /\ ~InPass /\ passes < MaxPasses
    /\ passes' = passes + 1
    /\ force' \in BOOLEAN
    /\ cancelled' = FALSE
    /\ todo' = File
    /\ pc' = "next"
    /\ UNCHANGED <<size, db, cur, pos, count, history>>

NextFile ==
    /\ pc = "next"
    /\ \E f \in todo : cur' = f /\ todo' = todo \ {f}
    /\ pc' = "check"
    /\ UNCHANGED <<size, db, run, cancelled, pos, count, history>>

EndPass ==
    /\ pc = "next" /\ todo = {}
    /\ pc' = "done" /\ cur' = NoFile
    /\ UNCHANGED <<size, db, run, cancelled, todo, pos, count, history>>

\* Mutant of Done: the mark of a file without turns reads like none.
DoneIfAny(f) == f \in marked /\ mark[f] > 0

Done(f) == f \in marked

\* Mutant of PassOver: only what was read in this pass is distilled in it.
PassOverAll == pc' = "next"

\* A file that is passed over is distilled like one that was read.
PassOver == pc' = "distil"

ReadMark ==
    /\ pc = "check"
    /\ \/ /\ ~force /\ Done(cur)
          /\ PassOver /\ UNCHANGED excuses
       \/ /\ ~force /\ ~Done(cur)
          /\ pc' = "open" /\ UNCHANGED excuses
       \/ /\ force \/ MayFail("getMark")
          /\ pc' = "open"
          /\ IF cur \in marked THEN Excuse ELSE UNCHANGED excuses
    /\ UNCHANGED <<size, db, run, cancelled, todo, cur, pos, count, interrupted, upto>>

\* Mutant of OnError: the error of one file ends the pass.
OnErrorEnd == pc' = "done"

\* The error of one file is logged and the next one is taken.
OnError == pc' = "next"

Open ==
    /\ pc = "open"
    /\ pc' = "scan" \/ (MayFail("open") /\ OnError)
    /\ UNCHANGED <<size, db, run, cancelled, todo, cur, pos, count, history>>

-----------------------------------------------------------------------------
(* The scan of a file *)

AtLine(kind) == pc = "scan" /\ pos < size[cur] /\ Lines[cur][pos + 1] = kind

SkipLine ==
    /\ AtLine("other")
    /\ pos' = pos + 1
    /\ UNCHANGED <<size, db, pc, run, cancelled, todo, cur, count, history>>

\* scanner.Err is returned before the mark is set.
ScanError ==
    /\ AtLine("long")
    /\ OnError /\ Excuse /\ Leave
    /\ UNCHANGED <<size, db, run, cancelled, todo, cur, interrupted, upto>>

\* Insert has committed.
Store ==
    /\ stored' = [stored EXCEPT ![cur][pos + 1] = @ + 1]
    /\ fresh' = fresh \cup {cur}
    /\ UNCHANGED <<marked, mark>>

\* Mutant of Uncounted: turns are counted before the error is looked at.
CountedAll == count' = count + 1

Uncounted == count' = count

\* ctx ends.
Signal == cancelled' = TRUE /\ interrupted' = TRUE

\* Ingest of a turn: stored; or stored but LinkMemory or Refresh fails, also
\* because ctx ends meanwhile; or not stored, as always when ctx has ended.
\* Errors are logged and the scan goes on.
IngestTurn ==
    /\ AtLine("turn")
    /\ pos' = pos + 1
    /\ \/ /\ ~cancelled /\ Store
          /\ count' = count + 1 /\ UNCHANGED <<cancelled, interrupted>>
       \/ /\ ~cancelled /\ MayFail("finish") /\ Store
          /\ Uncounted /\ UNCHANGED <<cancelled, interrupted>>
       \/ /\ ~cancelled /\ Interrupts /\ Store
          /\ Uncounted /\ Signal
       \/ /\ cancelled \/ MayFail("insert")
          /\ Uncounted /\ UNCHANGED <<db, cancelled, interrupted>>
    /\ UNCHANGED <<size, pc, run, todo, cur, upto, excuses>>

EndOfFile ==
    /\ pc = "scan" /\ pos = size[cur]
    /\ pc' = "setMark"
    /\ UNCHANGED <<size, db, run, cancelled, todo, cur, pos, count, history>>

\* SetMetadata does not take ctx; its error is logged only.
SetMark ==
    /\ pc = "setMark"
    /\ \/ /\ marked' = marked \cup {cur}
          /\ mark' = [mark EXCEPT ![cur] = count]
          /\ upto' = [upto EXCEPT ![cur] = pos]
          /\ UNCHANGED excuses
       \/ /\ MayFail("setMark") /\ Excuse
          /\ UNCHANGED <<marked, mark, upto>>
    /\ pc' = "distil" /\ Leave
    /\ UNCHANGED <<size, stored, fresh, run, cancelled, todo, cur, interrupted>>

\* distillOneSession without force; its error is logged only.
Distil ==
    /\ pc = "distil"
    /\ \/ ~cancelled /\ fresh' = fresh \ {cur}
       \/ (cancelled \/ MayFail("distil")) /\ UNCHANGED fresh
    /\ pc' = "next"
    /\ UNCHANGED <<size, stored, marked, mark, run, cancelled, todo, cur, pos, count, history>>

PassStep ==
    \/ NextFile \/ EndPass \/ ReadMark \/ Open
    \/ SkipLine \/ ScanError \/ IngestTurn \/ EndOfFile
    \/ SetMark \/ Distil

-----------------------------------------------------------------------------
(* What happens to it *)

\* The first signal ends ctx, the command goes on.
Interrupt ==
    /\ Interrupts /\ InPass /\ ~cancelled
    /\ Signal
    /\ UNCHANGED <<size, db, pc, run, todo, cur, pos, count, upto, excuses>>

Kill ==
    /\ Kills /\ InPass
    /\ pc' = "killed" /\ Leave
    /\ todo' = {} /\ cur' = NoFile /\ cancelled' = FALSE
    /\ IF pc \in {"scan", "setMark"} THEN Excuse ELSE UNCHANGED excuses
    /\ UNCHANGED <<size, db, run, interrupted, upto>>

\* OpenClaw adds a line.
Grow(f) ==
    /\ size[f] < Len(Lines[f])
    /\ size' = [size EXCEPT ![f] = @ + 1]
    /\ UNCHANGED <<db, pc, run, cancelled, todo, cur, pos, count, history>>

Next ==
    \/ StartPass \/ PassStep
    \/ Interrupt \/ Kill
    \/ \E f \in File : Grow(f)

Spec == Init /\ [][Next]_vars

\* The command runs on while nobody kills it.
FairSpec == Spec /\ WF_vars(PassStep)

-----------------------------------------------------------------------------
(* Properties *)

\* The turns among the first n lines of a file, and those of them that are stored.
Turns(f, n) == {i \in 1..n : Lines[f][i] = "turn"}
Kept(f, n) == {i \in Turns(f, n) : stored[f][i] > 0}

\* A file the command can read, with a model that answers and a database that works.
Sound(f) == Failing[f] = {} /\ \A i \in DOMAIN Lines[f] : Lines[f][i] # "long"

Scanning(f) == cur = f /\ pc \in {"scan", "setMark"}

TypeOK ==
    /\ size \in [File -> Nat] /\ \A f \in File : size[f] <= Len(Lines[f])
    /\ stored = [f \in File |-> stored[f]]
    /\ \A f \in File : stored[f] \in [DOMAIN Lines[f] -> Nat]
    /\ marked \subseteq File /\ mark \in [File -> Nat]
    /\ fresh \subseteq File
    /\ pc \in Steps /\ force \in BOOLEAN /\ cancelled \in BOOLEAN /\ interrupted \in BOOLEAN
    /\ todo \subseteq File /\ cur \in File \cup {NoFile}
    /\ pc \notin Ended \cup {"next"} => cur \in File
    /\ pos \in Nat /\ count \in Nat
    /\ IF pc \in {"scan", "setMark"} THEN pos <= size[cur] ELSE pos = 0
    /\ passes \in 0..MaxPasses
    /\ upto \in [File -> Nat] /\ \A f \in File : upto[f] <= size[f]
    /\ excuses \in [File -> Nat]

\* "already ingested (%s turns)": the mark is never more than the turns that are
\* stored of what had been read, whatever failed on the way; where it is less, the
\* difference may be lost, and a file of turns marked 0 is one that was.
MarkTellsLoss == \A f \in marked : mark[f] <= Cardinality(Kept(f, upto[f]))

\* A turn is stored again only for a reason: every copy beyond the first goes with a
\* scan that ended without its mark (killed, an unreadable line, the mark not
\* written) or began in spite of it (--force, the mark not read).
CopiesExplained ==
    \A f \in File : \A i \in DOMAIN Lines[f] :
        stored[f][i] <= excuses[f] + (IF f \in marked \/ Scanning(f) THEN 1 ELSE 0)

\* A pass that comes to its end has marked every sound file and left no memory of it
\* undistilled, also of files an earlier pass had marked before it was killed, and
\* whatever went wrong with other files.
SoundFilesFinished ==
    pc = "done" /\ ~cancelled => \A f \in File : Sound(f) => f \in marked /\ f \notin fresh

\* "ingests clean user/assistant turns into the memory store": every turn read of a
\* sound file that is marked is stored, unless the command was once interrupted:
\* then every Ingest fails, the scan goes on to the end and the mark is set.
ImportedWhole ==
    ~interrupted =>
        \A f \in marked : Sound(f) => Kept(f, upto[f]) = Turns(f, upto[f])

\* A sound file is reached and marked by every pass that is not killed: no other
\* file's error, however often, keeps it waiting.
EveryFileReached ==
    \A f \in File : Sound(f) => (InPass /\ f \in todo ~> f \in marked \/ pc = "killed")
==============================================================================
