------------------------ MODULE SessionKnowledgeProofs ------------------------
(***************************************************************************)
(* What distillOneSession keeps true of the tables, the indexes and the    *)
(* matcher, for any sessions, workers, memories and entities, under the    *)
(* conditions each theorem names: whether sessions are distilled one at a  *)
(* time, by whom, with --force, and which of the calls succeed.            *)
(***************************************************************************)
EXTENDS SessionTypeProofs

-----------------------------------------------------------------------------
(* The conditions of the theorems *)

OnlyService == \A w \in Worker : Kind[w] = "auto"
NoForce == \A w \in Worker : Kind[w] # "force"
Reliable(calls) == calls \cap Failing = {}

\* A worker of the service runs only while the service does.
Alive == \A w \in Worker : Kind[w] = "auto" /\ Running(w) => up

\* No two workers run at once.
Alone == \A v, w \in Worker : Running(v) /\ Running(w) => v = w

\* No two workers run for one session; several sessions may be distilled at once.
Apart == \A v, w \in Worker : Running(v) /\ Running(w) /\ sess[v] = sess[w] => v = w

\* Nobody is in the steps of --force.
Unforced == \A w \in Worker : pc[w] \notin {"clear", "clearMark"}

\* The loop over the links ends at a rebuild of the service's indexes, or at the
\* watermark of a pass.
LEMMA LinkStepsGo ==
    ASSUME NEW w \in Worker, LinkMemory(w) \/ AddLink(w) \/ EndLinks(w)
    PROVE  /\ pc[w] \in {"link", "addLink"}
           /\ UNCHANGED <<sess, wm, transcript, todo, scan>>
           /\ \E to \in {"link", "addLink", "scanKeys", "setMark"} :
                  Goto(w, to) /\ (to = "setMark" => Kind[w] # "auto")
  <1>1. CASE LinkMemory(w)
    BY <1>1 DEF LinkMemory
  <1>2. CASE AddLink(w)
    BY <1>2 DEF AddLink, locals
  <1>3. CASE EndLinks(w)
    <2>1. CASE Kind[w] = "auto"
      BY <1>3, <2>1 DEF EndLinks, locals
    <2>2. CASE Kind[w] # "auto"
      BY <1>3, <2>2 DEF EndLinks, locals
    <2> QED
      BY <2>1, <2>2
  <1> QED
    BY <1>1, <1>2, <1>3

\* Only Crash and Exit end the service, and a call of the service begins while it runs.
LEMMA UpStays ==
    ASSUME [Next]_vars, up, ~Crash, ~Exit
    PROVE  up'
  <1>1. CASE UNCHANGED vars
    BY <1>1 DEF vars, envVars
  <1>2. CASE \/ Start
             \/ \E p \in Proc : Interrupt(p)
             \/ \E s \in Session : Arrive(s) \/ StoreMemory(s) \/ RequestFails(s)
             \/ \E w \in Worker : RunPass(w) \/ NextSession(w) \/ Kill(w)
    BY <1>2 DEF Start, Interrupt, Arrive, StoreMemory, RequestFails, RunPass, NextSession, Kill,
                envVars
  <1>3. CASE \E w \in Worker : Step(w)
    BY <1>3 DEF Step, Clear, ClearMark, ReadMark, ReadMemories, Distill, Merge, Replace,
                NextSnippet, LookupToken, InsertToken, Learn, StoreSnippet, LinkMemory, AddLink,
                EndLinks, ScanKeys, ScanRows, SwapIndexes, SetMark, GiveUp, CarryOn, envVars
  <1> QED
    BY <1>1, <1>2, <1>3 DEF Next

\* The service is up because it was or has just started.
LEMMA UpBy ==
    ASSUME [Next]_vars, up'
    PROVE  up \/ Start
  <1>1. CASE UNCHANGED vars
    BY <1>1 DEF vars, envVars
  <1>2. CASE \/ Crash \/ Exit
             \/ \E p \in Proc : Interrupt(p)
             \/ \E s \in Session : Arrive(s) \/ StoreMemory(s) \/ RequestFails(s)
             \/ \E w \in Worker : RunPass(w) \/ NextSession(w) \/ Kill(w)
    BY <1>2 DEF Crash, Exit, Gone, Interrupt, Arrive, StoreMemory, RequestFails, RunPass,
                NextSession, Kill, envVars
  <1>3. CASE \E w \in Worker : Step(w)
    BY <1>3 DEF Step, Clear, ClearMark, ReadMark, ReadMemories, Distill, Merge, Replace,
                NextSnippet, LookupToken, InsertToken, Learn, StoreSnippet, LinkMemory, AddLink,
                EndLinks, ScanKeys, ScanRows, SwapIndexes, SetMark, GiveUp, CarryOn, envVars
  <1> QED
    BY <1>1, <1>2, <1>3 DEF Next

\* The service's workers die with it or end before it.
LEMMA AliveStays ==
    ASSUME TypeInv, Alive, [Next]_vars
    PROVE  Alive'
  <1> SUFFICES ASSUME NEW v \in Worker, Kind[v] = "auto", Running(v)'
               PROVE  up'
    BY DEF Alive
  <1>1. CASE Crash
    BY <1>1 DEF Crash, Running, Finished
  <1>2. CASE Exit
    BY <1>2 DEF Exit, Running
  <1>3. CASE ~Crash /\ ~Exit /\ Running(v)
    BY <1>3, UpStays DEF Alive
  <1>4. CASE ~Running(v)
    <2>1. ~Step(v) /\ ~Dies(v) /\ pc'[v] # pc[v]
      BY <1>4, StepMoves DEF Dies, Running
    <2>2. Begins(v)
      BY <2>1, WorkerMoves
    <2>3. pc[v] = "idle" /\ pc'[v] # "idle"
      BY <2>2, BeginsAt DEF Begins
    <2>4. \E s \in Session : Arrive(s)
      <3>1. ~ \E w \in Worker : Step(w)
        <4> SUFFICES ASSUME NEW w \in Worker, Step(w) PROVE FALSE
          OBVIOUS
        <4>1. w # v
          BY <2>1
        <4> QED
          BY <2>3, <4>1, StepKeepsOthers
      <3>2. ~ \E w \in Worker : RunPass(w) \/ NextSession(w)
        <4> SUFFICES ASSUME NEW w \in Worker, RunPass(w) \/ NextSession(w) PROVE FALSE
          OBVIOUS
        <4>1. PICK s \in Session : Spawn(w, s)
          BY SpawnsSession
        <4>2. w # v
          BY DEF RunPass, NextSession
        <4> QED
          BY <2>3, <4>1, <4>2 DEF Spawn, Goto, TypeInv, Workers
      <3>3. ~ \E w \in Worker : Kill(w)
        BY <2>3 DEF Kill, Goto, Running, Finished, TypeInv, Workers
      <3>4. ~ (Start \/ Crash \/ Exit \/ \E p \in Proc : Interrupt(p))
        BY <2>3 DEF Start, Crash, Exit, Interrupt, Running, Finished
      <3>5. ~ \E s \in Session : StoreMemory(s) \/ RequestFails(s)
        BY <2>3 DEF StoreMemory, RequestFails
      <3>6. ~ UNCHANGED vars
        BY <2>3 DEF vars
      <3> QED
        BY <3>1, <3>2, <3>3, <3>4, <3>5, <3>6 DEF Next
    <2> QED
      BY <2>4 DEF Arrive
  <1> QED
    BY <1>1, <1>2, <1>3, <1>4

\* A call begins only when nobody runs.
LEMMA AloneStays ==
    ASSUME TypeInv, Serial, Alone, [Next]_vars
    PROVE  Alone'
  <1>1. CASE \E v \in Worker : Begins(v)
    <2>1. PICK v \in Worker : Begins(v)
      BY <1>1
    <2>2. pc' = [pc EXCEPT ![v] = IF Kind[v] = "force" THEN "clear" ELSE "readMark"]
      BY <2>1, BeginsAt
    <2>3. \A w \in Worker : ~Running(w)
      BY <2>1, BeginsAt
    <2>4. \A w \in Worker : w # v => pc'[w] = pc[w]
      BY <2>2 DEF TypeInv, Workers
    <2> QED
      BY <2>3, <2>4 DEF Alone, Running
  <1>2. CASE ~ \E v \in Worker : Begins(v)
    <2>1. \A v \in Worker : Running(v)' => Running(v)
      <3> SUFFICES ASSUME NEW v \in Worker, Running(v)' PROVE Running(v)
        OBVIOUS
      <3> QED
        BY <1>2, WorkerMoves, StepMoves DEF Dies, Running
    <2> QED
      BY <2>1 DEF Alone
  <1> QED
    BY <1>1, <1>2

\* No step leads back to --force, and only its first to its second.
LEMMA StepClears ==
    ASSUME TypeInv, NEW v \in Worker, Step(v)
    PROVE  pc'[v] # "clear" /\ (pc'[v] = "clearMark" => Clear(v))
  <1> USE DEF Goto, TypeInv, Workers
  <1>1. CASE Clear(v)
    BY <1>1 DEF Clear
  <1>2. CASE ClearMark(v) \/ ReadMark(v) \/ ReadMemories(v) \/ Merge(v) \/ Replace(v)
             \/ Learn(v) \/ StoreSnippet(v) \/ SetMark(v) \/ GiveUp(v)
    BY <1>2 DEF ClearMark, ReadMark, ReadMemories, Merge, Replace, Learn, StoreSnippet, SetMark,
                GiveUp
  <1>3. CASE Distill(v)
    <2>1. Goto(v, IF wm[v] > 0 THEN "merge" ELSE "next")
      BY <1>3 DEF Distill
    <2> QED
      BY <2>1
  <1>4. CASE NextSnippet(v)
    <2>1. \E to \in {"link", "lookup", "store"} : Goto(v, to)
      BY <1>4 DEF NextSnippet
    <2> QED
      BY <2>1
  <1>5. CASE LookupToken(v) \/ InsertToken(v)
    <2>1. \E to \in {"newToken", "store", "learn"} : Goto(v, to)
      BY <1>5 DEF LookupToken, InsertToken
    <2> QED
      BY <2>1
  <1>6. CASE LinkMemory(v) \/ AddLink(v) \/ EndLinks(v)
    <2>1. \E to \in {"link", "addLink", "scanKeys", "setMark"} : Goto(v, to)
      BY <1>6, LinkStepsGo
    <2> QED
      BY <2>1
  <1>7. CASE ScanKeys(v) \/ ScanRows(v) \/ SwapIndexes(v)
    BY <1>7 DEF ScanKeys, ScanRows, SwapIndexes
  <1>8. CASE CarryOn(v)
    BY <1>8 DEF CarryOn
  <1> QED
    BY <1>1, <1>2, <1>3, <1>4, <1>5, <1>6, <1>7, <1>8 DEF Step

\* --force is the only way to its steps.
LEMMA UnforcedStays ==
    ASSUME TypeInv, NoForce, Unforced, [Next]_vars
    PROVE  Unforced'
  <1> SUFFICES ASSUME NEW v \in Worker PROVE pc'[v] \notin {"clear", "clearMark"}
    BY DEF Unforced
  <1>1. CASE Begins(v)
    BY <1>1, BeginsAt DEF NoForce, TypeInv, Workers
  <1>2. CASE Step(v)
    BY <1>2, StepClears DEF Unforced, Clear
  <1>3. CASE Dies(v) \/ pc'[v] = pc[v]
    BY <1>3 DEF Dies, Unforced
  <1> QED
    BY <1>1, <1>2, <1>3, WorkerMoves

-----------------------------------------------------------------------------
(* A replacement that has begun is completed *)

\* Each session being replaced has a worker that is replacing it, or was killed.
Attended ==
    \A s \in replacing : \E w \in Worker : sess[w] = s /\ pc[w] \in Replacing \cup {"killed"}

StopInv == TypeInv /\ Unforced /\ Attended

\* Until its watermark is set a worker goes on replacing, whatever is cancelled.
LEMMA ReplacingGoesOn ==
    ASSUME TypeInv, Reliable({"setMark"}), NEW v \in Worker, pc[v] \in Replacing,
           Step(v), ~SetMark(v)
    PROVE  pc'[v] \in Replacing
  <1> USE DEF Replacing, Writing, Storing, Goto, TypeInv, Workers
  <1>1. CASE NextSnippet(v)
    BY <1>1 DEF NextSnippet
  <1>2. CASE LookupToken(v) \/ InsertToken(v)
    <2>1. \E to \in {"newToken", "store", "learn"} : Goto(v, to)
      BY <1>2 DEF LookupToken, InsertToken
    <2> QED
      BY <2>1
  <1>3. CASE Learn(v) \/ StoreSnippet(v) \/ ScanKeys(v) \/ ScanRows(v) \/ SwapIndexes(v)
    BY <1>3 DEF Learn, StoreSnippet, ScanKeys, ScanRows, SwapIndexes
  <1>4. CASE LinkMemory(v) \/ AddLink(v) \/ EndLinks(v)
    <2>1. \E to \in {"link", "addLink", "scanKeys", "setMark"} : Goto(v, to)
      BY <1>4, LinkStepsGo
    <2> QED
      BY <2>1
  <1>5. CASE CarryOn(v)
    BY <1>5 DEF CarryOn
  <1>6. ~GiveUp(v)
    BY DEF GiveUp, ContextSteps, Reliable
  <1>7. /\ ~Clear(v) /\ ~ClearMark(v) /\ ~ReadMark(v) /\ ~ReadMemories(v)
        /\ ~Distill(v) /\ ~Merge(v) /\ ~Replace(v)
    BY DEF Clear, ClearMark, ReadMark, ReadMemories, Distill, Merge, Replace
  <1> QED
    BY <1>1, <1>2, <1>3, <1>4, <1>5, <1>6, <1>7 DEF Step

\* What a step does to the sessions being replaced.
LEMMA ReplacedBy ==
    ASSUME TypeInv, Unforced, [Next]_vars
    PROVE  \/ UNCHANGED replacing
           \/ \E w \in Worker : Replace(w) /\ replacing' = replacing \cup {sess[w]}
           \/ \E w \in Worker : SetMark(w) /\ replacing' = replacing \ {sess[w]}
  <1>1. CASE UNCHANGED vars
    BY <1>1 DEF vars, history
  <1>2. CASE \/ Start \/ Crash \/ Exit
             \/ \E p \in Proc : Interrupt(p)
             \/ \E s \in Session : Arrive(s) \/ StoreMemory(s) \/ RequestFails(s)
             \/ \E w \in Worker : RunPass(w) \/ NextSession(w) \/ Kill(w)
    BY <1>2 DEF Start, Crash, Exit, Interrupt, Arrive, StoreMemory, RequestFails, RunPass,
                NextSession, Kill, history
  <1>3. ASSUME NEW w \in Worker, Step(w), ~Replace(w), ~SetMark(w) PROVE UNCHANGED replacing
    <2>1. ~Clear(w)
      BY DEF Unforced, Clear
    <2>2. CASE ClearMark(w) \/ ReadMark(w) \/ ReadMemories(w) \/ Distill(w) \/ Merge(w)
               \/ NextSnippet(w) \/ LookupToken(w) \/ InsertToken(w) \/ Learn(w)
      BY <2>2 DEF ClearMark, ReadMark, ReadMemories, Distill, Merge, NextSnippet, LookupToken,
                  InsertToken, Learn, history
    <2>3. CASE StoreSnippet(w) \/ LinkMemory(w) \/ AddLink(w) \/ EndLinks(w)
               \/ ScanKeys(w) \/ ScanRows(w) \/ SwapIndexes(w)
               \/ GiveUp(w) \/ CarryOn(w)
      BY <2>3 DEF StoreSnippet, LinkMemory, AddLink, EndLinks, ScanKeys, ScanRows, SwapIndexes,
                  GiveUp, CarryOn, history
    <2> QED
      BY <1>3, <2>1, <2>2, <2>3 DEF Step
  <1>4. CASE \E w \in Worker : Replace(w) \/ SetMark(w)
    BY <1>4 DEF Replace, SetMark
  <1> QED
    BY <1>1, <1>2, <1>3, <1>4 DEF Next

\* The worker that attends a session stays with it, dies, or sets its watermark.
LEMMA AttendedStays ==
    ASSUME TypeInv, Unforced, Attended, Reliable({"setMark"}), [Next]_vars
    PROVE  Attended'
  <1>1. ASSUME NEW w \in Worker, pc[w] \in Replacing \cup {"killed"}, ~SetMark(w)
        PROVE  sess'[w] = sess[w] /\ pc'[w] \in Replacing \cup {"killed"}
    <2>1. CASE Step(w)
      <3>1. pc[w] \in Replacing /\ UNCHANGED sess
        BY <1>1, <2>1, StepMoves DEF Running, Finished
      <3> QED
        BY <1>1, <2>1, <3>1, ReplacingGoesOn
    <2>2. ~Begins(w)
      BY <1>1 DEF Begins, Replacing, Writing, Storing
    <2> QED
      BY <1>1, <2>1, <2>2, WorkerMoves DEF Dies, Keeps
  <1> SUFFICES ASSUME NEW s \in replacing'
               PROVE  \E w \in Worker : sess'[w] = s /\ pc'[w] \in Replacing \cup {"killed"}
    BY DEF Attended
  <1>2. CASE s \in replacing /\ \A w \in Worker : SetMark(w) => sess[w] # s
    <2>1. PICK w \in Worker : sess[w] = s /\ pc[w] \in Replacing \cup {"killed"}
      BY <1>2 DEF Attended
    <2> QED
      BY <1>1, <1>2, <2>1
  <1>3. CASE s \in replacing /\ \E w \in Worker : SetMark(w) /\ sess[w] = s
    <2>1. PICK w \in Worker : SetMark(w) /\ sess[w] = s
      BY <1>3
    <2> QED
      BY <2>1 DEF SetMark
  <1>4. CASE s \notin replacing
    <2>1. PICK w \in Worker : Replace(w) /\ replacing' = replacing \cup {sess[w]}
      BY <1>4, ReplacedBy
    <2>2. s = sess[w] /\ pc' = [pc EXCEPT ![w] = "next"] /\ UNCHANGED sess
      BY <1>4, <2>1 DEF Replace, Goto, locals
    <2> QED
      BY <2>2 DEF Replacing, Writing, TypeInv, Workers
  <1> QED
    BY <1>2, <1>3, <1>4

\* Only context-taking steps give up when the service is stopped, and they all
\* come before or at the delete (session_distillation.go): as long as a
\* watermark can be written, a session left half-replaced was left by a
\* process that was killed.  The delete of --force is outside: it comes first.
THEOREM StopsBetweenReplacements ==
    ASSUME NoForce, Reliable({"setMark"})
    PROVE  Spec => []StopCompletesReplacements
  <1>1. Init => StopInv
    BY InitTypeInv DEF Init, StopInv, Unforced, Attended
  <1>2. StopInv /\ [Next]_vars => StopInv'
    BY NextTypeInv, UnforcedStays, AttendedStays DEF StopInv
  <1>3. StopInv => StopCompletesReplacements
    BY DEF StopInv, Attended, StopCompletesReplacements, Running, Finished, Replacing, Writing,
           Storing
  <1> QED
    BY <1>1, <1>2, <1>3, PTL DEF Spec

-----------------------------------------------------------------------------
(* The matcher mirrors the vocabulary *)

\* A stored token is in the service's matcher or about to be learned.
Mirrored ==
    up => \A t \in tokens \ matcher[Serve] :
              \E w \in Worker : pc[w] = "learn" /\ t \in cur[w].tokens

MatcherInv == TypeInv /\ Alive /\ Mirrored

\* What changes the vocabulary and the service's matcher.
LEMMA VocabularyChanges ==
    ASSUME TypeInv, [Next]_vars
    PROVE  \/ UNCHANGED <<tokens, matcher>>
           \/ Start \/ Crash \/ Exit
           \/ \E w \in Worker : RunPass(w) \/ InsertToken(w) \/ Learn(w)
  <1>1. CASE UNCHANGED vars
    BY <1>1 DEF vars, envVars
  <1>2. CASE \/ \E p \in Proc : Interrupt(p)
             \/ \E s \in Session : Arrive(s) \/ StoreMemory(s) \/ RequestFails(s)
             \/ \E w \in Worker : NextSession(w) \/ Kill(w)
    BY <1>2 DEF Interrupt, Arrive, StoreMemory, RequestFails, NextSession, Kill, envVars
  <1>3. ASSUME NEW w \in Worker, Step(w), ~InsertToken(w), ~Learn(w)
        PROVE  UNCHANGED <<tokens, matcher>>
    <2>1. CASE Clear(w) \/ ClearMark(w) \/ ReadMark(w) \/ ReadMemories(w) \/ Distill(w)
               \/ Merge(w) \/ Replace(w) \/ NextSnippet(w) \/ LookupToken(w)
      BY <2>1 DEF Clear, ClearMark, ReadMark, ReadMemories, Distill, Merge, Replace,
                  NextSnippet, LookupToken, envVars
    <2>2. CASE StoreSnippet(w) \/ LinkMemory(w) \/ AddLink(w) \/ EndLinks(w)
               \/ ScanKeys(w) \/ ScanRows(w) \/ SwapIndexes(w)
               \/ SetMark(w) \/ GiveUp(w) \/ CarryOn(w)
      BY <2>2 DEF StoreSnippet, LinkMemory, AddLink, EndLinks, ScanKeys, ScanRows, SwapIndexes,
                  SetMark, GiveUp, CarryOn, envVars
    <2> QED
      BY <1>3, <2>1, <2>2 DEF Step
  <1> QED
    BY <1>1, <1>2, <1>3 DEF Next

\* A worker of the service about to teach the matcher does, unless the service is killed.
LEMMA LearnGoesOn ==
    ASSUME TypeInv, OnlyService, [Next]_vars, ~Crash,
           NEW w \in Worker, pc[w] = "learn", ~Learn(w)
    PROVE  pc'[w] = "learn" /\ cur'[w] = cur[w]
  <1>1. ~Step(w)
    BY DEF Step, Clear, ClearMark, ReadMark, ReadMemories, Distill, Merge, Replace, NextSnippet,
           LookupToken, InsertToken, StoreSnippet, LinkMemory, AddLink, EndLinks, ScanKeys,
           ScanRows, SwapIndexes, SetMark, GiveUp, CarryOn, ContextSteps
  <1>2. ~Begins(w) /\ ~Dies(w)
    BY DEF Begins, Dies, Kill, OnlyService
  <1> QED
    BY <1>1, <1>2, WorkerMoves DEF Keeps

\* A token is inserted by a worker that learns it next.
LEMMA MirroredStays ==
    ASSUME MatcherInv, OnlyService, [Next]_vars
    PROVE  Mirrored'
  <1> USE DEF MatcherInv
  <1>1. CASE Start
    BY <1>1 DEF Start, Mirrored, TypeInv, Workers, Proc
  <1>2. CASE Crash \/ Exit
    BY <1>2 DEF Crash, Exit, Gone, Mirrored
  <1>3. CASE ~Start /\ ~Crash /\ ~Exit
    <2> SUFFICES ASSUME up', NEW t \in tokens' \ matcher'[Serve]
                 PROVE  \E w \in Worker : pc'[w] = "learn" /\ t \in cur'[w].tokens
      BY DEF Mirrored
    <2>1. CASE UNCHANGED <<tokens, matcher>> /\ up
      <3>1. PICK w \in Worker : pc[w] = "learn" /\ t \in cur[w].tokens
        BY <2>1 DEF Mirrored
      <3>2. CASE Learn(w)
        <4>1. matcher' = [matcher EXCEPT ![Serve] = @ \cup cur[w].tokens]
          BY <3>2 DEF Learn, ProcOf, OnlyService
        <4> QED
          BY <3>1, <4>1 DEF TypeInv, Workers, Proc
      <3>3. CASE ~Learn(w)
        BY <1>3, <3>1, <3>3, LearnGoesOn
      <3> QED
        BY <3>2, <3>3
    <2>2. CASE UNCHANGED <<tokens, matcher>> /\ ~up
      <3>1. \A w \in Worker : ~Running(w)
        BY <2>2 DEF Alive, OnlyService
      <3>2. ~ \E w \in Worker : Step(w)
        BY <3>1, StepMoves
      <3> QED
        BY <1>3, <2>2, <3>2 DEF Next, vars, envVars, Interrupt, Arrive, StoreMemory, RequestFails,
                                RunPass, NextSession, Kill
    <2>3. CASE \E w \in Worker : InsertToken(w)
      <3>1. PICK w \in Worker : InsertToken(w)
        BY <2>3
      <3> DEFINE new == TokenOf(cur[w].snippet) \ tokens
      <3>2. /\ tokens' = tokens \cup new /\ UNCHANGED <<matcher, up>>
            /\ cur' = [cur EXCEPT ![w].tokens = new]
            /\ pc' = [pc EXCEPT ![w] = IF new = {} THEN "store" ELSE "learn"]
            /\ pc[w] = "newToken"
        BY <3>1 DEF InsertToken, Goto
      <3>3. cur'[w].tokens = new /\ (new # {} => pc'[w] = "learn")
        BY <3>2 DEF TypeInv, Workers
      <3>4. CASE t \in new
        BY <3>3, <3>4
      <3>5. CASE t \in tokens
        <4>1. PICK v \in Worker : pc[v] = "learn" /\ t \in cur[v].tokens
          BY <3>2, <3>5 DEF Mirrored
        <4>2. v # w
          BY <3>2, <4>1
        <4> QED
          BY <3>2, <4>1, <4>2 DEF TypeInv, Workers
      <3> QED
        BY <3>2, <3>4, <3>5
    <2>4. CASE \E w \in Worker : Learn(w)
      <3>1. PICK w \in Worker : Learn(w)
        BY <2>4
      <3>2. /\ matcher' = [matcher EXCEPT ![Serve] = @ \cup cur[w].tokens]
            /\ UNCHANGED <<tokens, up, cur>> /\ pc' = [pc EXCEPT ![w] = "store"]
        BY <3>1 DEF Learn, ProcOf, OnlyService, locals, Goto
      <3>3. t \in tokens \ matcher[Serve] /\ t \notin cur[w].tokens
        BY <3>2 DEF TypeInv, Workers, Proc
      <3>4. PICK v \in Worker : pc[v] = "learn" /\ t \in cur[v].tokens
        BY <3>2, <3>3 DEF Mirrored
      <3> QED
        BY <3>2, <3>3, <3>4 DEF TypeInv, Workers
    <2>5. ~ \E w \in Worker : RunPass(w)
      BY DEF RunPass, OnlyService
    <2> QED
      BY <1>3, <2>1, <2>2, <2>3, <2>4, <2>5, VocabularyChanges
  <1> QED
    BY <1>1, <1>2, <1>3

\* A word the service adds to the vocabulary is one its matcher finds from the
\* next step on, whatever distillations overlap (o.personal.AddToken after
\* personalStore.InsertToken).  A command line pass inserts words the service has
\* not heard of, so the theorem is about the service alone.
THEOREM MatcherIsCurrent ==
    ASSUME OnlyService
    PROVE  Spec => []MatcherMirrors
  <1>1. Init => MatcherInv
    BY InitTypeInv DEF Init, MatcherInv, Alive, Mirrored, Running, Finished
  <1>2. MatcherInv /\ [Next]_vars => MatcherInv'
    BY NextTypeInv, AliveStays, MirroredStays DEF MatcherInv
  <1>3. MatcherInv => MatcherMirrors
    BY DEF MatcherInv, Mirrored, MatcherMirrors, TypeInv, Workers, Proc
  <1> QED
    BY <1>1, <1>2, <1>3, PTL DEF Spec

-----------------------------------------------------------------------------
(* The index of links *)

LinksInv == TypeInv /\ LinkIndexMirrors

\* A link that waits to be indexed is, unless the service is killed.
LEMMA AddLinkGoesOn ==
    ASSUME TypeInv, OnlyService, [Next]_vars, ~Crash,
           NEW v \in Worker, pc[v] = "addLink", ~AddLink(v)
    PROVE  pc'[v] = "addLink" /\ cur'[v] = cur[v]
  <1>1. ~Step(v)
    BY DEF Step, Clear, ClearMark, ReadMark, ReadMemories, Distill, Merge, Replace, NextSnippet,
           LookupToken, InsertToken, Learn, StoreSnippet, LinkMemory, EndLinks, ScanKeys, ScanRows,
           SwapIndexes, SetMark, GiveUp, CarryOn, ContextSteps
  <1>2. ~Begins(v) /\ ~Dies(v)
    BY DEF Begins, Dies, Kill, OnlyService
  <1> QED
    BY <1>1, <1>2, WorkerMoves DEF Keeps

\* A link is stored while the service runs, and indexed in the next step of its worker.
LEMMA LinkIndexStays ==
    ASSUME LinksInv, OnlyService, [Next]_vars
    PROVE  LinkIndexMirrors'
  <1> USE DEF LinksInv
  <1>1. TypeInv' /\ linkIndex' \subseteq links'
    BY NextTypeInv DEF TypeInv, Tables
  <1> SUFFICES ASSUME up', NEW link \in links' \ linkIndex'
               PROVE  \E v \in Worker :
                          pc'[v] = "addLink" /\ link \in cur'[v].tokens \X {cur'[v].snippet}
    BY <1>1 DEF LinkIndexMirrors
  <1>2. ~Start
    BY DEF Start
  <1>3. ~Crash /\ ~Exit
    BY DEF Crash, Exit, Gone
  <1>4. linkIndex \subseteq linkIndex'
    BY <1>2, <1>3, LinksFrame DEF AddLink
  <1>5. ASSUME link \in links
        PROVE  \E v \in Worker :
                   pc'[v] = "addLink" /\ link \in cur'[v].tokens \X {cur'[v].snippet}
    <2>1. up
      BY <1>2, UpBy
    <2>2. PICK v \in Worker : pc[v] = "addLink" /\ link \in cur[v].tokens \X {cur[v].snippet}
      BY <1>4, <1>5, <2>1 DEF LinkIndexMirrors
    <2>3. ~AddLink(v)
      BY <2>2 DEF AddLink, OnlyService
    <2> QED
      BY <1>3, <2>2, <2>3, AddLinkGoesOn
  <1>6. ASSUME link \notin links
        PROVE  \E v \in Worker :
                   pc'[v] = "addLink" /\ link \in cur'[v].tokens \X {cur'[v].snippet}
    <2>1. PICK w \in Worker : LinkMemory(w)
      BY <1>6, LinksFrame
    <2>2. link \in cur'[w].tokens \X {cur'[w].snippet}
      BY <1>6, <2>1, LinkMemoryStores
    <2>3. pc'[w] = "addLink"
      <3>1. PICK m, stored : /\ cur' = [cur EXCEPT ![w] = [snippet |-> m, tokens |-> stored]]
                             /\ Goto(w, IF stored = {} THEN "link" ELSE "addLink")
        BY <2>1 DEF LinkMemory
      <3>2. cur'[w].tokens = stored /\ stored # {}
        BY <2>2, <3>1 DEF TypeInv, Workers
      <3> QED
        BY <3>1, <3>2 DEF Goto, TypeInv, Workers
    <2> QED
      BY <2>2, <2>3
  <1> QED
    BY <1>5, <1>6

\* While serve distils, and no command line pass beside it, its link index is the
\* table, the one link just being added apart: whatever overlaps, fails and is
\* killed between storing a link and indexing it.
THEOREM LinkIndexIsCurrent ==
    ASSUME OnlyService
    PROVE  Spec => []LinkIndexMirrors
  <1>1. Init => LinksInv
    BY InitTypeInv DEF Init, LinksInv, LinkIndexMirrors
  <1>2. LinksInv /\ [Next]_vars => LinksInv'
    BY NextTypeInv, LinkIndexStays DEF LinksInv
  <1>3. LinksInv => LinkIndexMirrors
    BY DEF LinksInv
  <1> QED
    BY <1>1, <1>2, <1>3, PTL DEF Spec

-----------------------------------------------------------------------------
(* Stored snippets carry their tokens *)

\* What the worker that stores a snippet knows of its entity: an entity that is
\* inserted is not in the vocabulary, and the tokens of a snippet are complete
\* when it is stored.
Resolved ==
    \A w \in Worker :
        LET token == TokenOf(cur[w].snippet)
        IN /\ pc[w] \in {"lookup", "newToken"} => token # {}
           /\ pc[w] = "newToken" => token \cap tokens = {}
           /\ pc[w] \in {"learn", "store"} => cur[w].tokens = token

\* No two workers are about to insert the same entity.
InsertsApart ==
    \A v, w \in Worker :
        v # w /\ pc[v] = "newToken" /\ pc[w] = "newToken" =>
            TokenOf(cur[v].snippet) \cap TokenOf(cur[w].snippet) = {}

TaggedInv == TypeInv /\ Resolved /\ EntityTagged

\* A fact has at most one entity.
LEMMA OneEntity ==
    ASSUME NEW i, NEW S
    PROVE  TokenOf(i) \cap S \in {{}, TokenOf(i)}
  BY DEF TokenOf

\* The vocabulary grows by the insert of an entity.
LEMMA TokensGrowBy ==
    ASSUME TypeInv, [Next]_vars
    PROVE  UNCHANGED tokens \/ \E w \in Worker : InsertToken(w)
  BY VocabularyChanges DEF Start, Crash, Exit, RunPass, Learn

\* The steps that store a snippet resolve its entity first, one after the other.
LEMMA ResolvedByStep ==
    ASSUME TypeInv, Resolved, Reliable({"lookup", "newToken"}), NEW w \in Worker, Step(w)
    PROVE  LET token == TokenOf(cur'[w].snippet)
           IN /\ pc'[w] \in {"lookup", "newToken"} => token # {}
              /\ pc'[w] = "newToken" => token \cap tokens' = {}
              /\ pc'[w] \in {"learn", "store"} => cur'[w].tokens = token
  <1> USE DEF Goto, TypeInv, Workers
  <1>1. CASE NextSnippet(w)
    <2>1. CASE Goto(w, "link")
      BY <2>1
    <2>2. CASE \E f \in todo[w] :
                  /\ cur' = [cur EXCEPT ![w] = [snippet |-> f, tokens |-> {}]]
                  /\ Goto(w, IF TokenOf(f) # {} THEN "lookup" ELSE "store")
      <3>1. PICK f \in todo[w] :
                  /\ cur' = [cur EXCEPT ![w] = [snippet |-> f, tokens |-> {}]]
                  /\ Goto(w, IF TokenOf(f) # {} THEN "lookup" ELSE "store")
        BY <2>2
      <3>2. cur'[w].snippet = f /\ cur'[w].tokens = {}
        BY <3>1
      <3> QED
        BY <3>1, <3>2
    <2> QED
      BY <1>1, <2>1, <2>2 DEF NextSnippet
  <1>2. CASE LookupToken(w)
    <2> DEFINE found == TokenOf(cur[w].snippet) \cap tokens
    <2>1. /\ cur' = [cur EXCEPT ![w].tokens = found] /\ UNCHANGED tokens
          /\ Goto(w, IF found = {} THEN "newToken" ELSE "store")
          /\ TokenOf(cur[w].snippet) # {}
      BY <1>2 DEF LookupToken, envVars, Resolved
    <2>2. cur'[w].snippet = cur[w].snippet /\ cur'[w].tokens = found
      BY <2>1
    <2>3. found \in {{}, TokenOf(cur[w].snippet)}
      BY OneEntity
    <2> QED
      BY <2>1, <2>2, <2>3
  <1>3. CASE InsertToken(w)
    <2> DEFINE new == TokenOf(cur[w].snippet) \ tokens
    <2>1. /\ cur' = [cur EXCEPT ![w].tokens = new]
          /\ Goto(w, IF new = {} THEN "store" ELSE "learn")
          /\ TokenOf(cur[w].snippet) # {} /\ TokenOf(cur[w].snippet) \cap tokens = {}
      BY <1>3 DEF InsertToken, Resolved
    <2>2. cur'[w].snippet = cur[w].snippet /\ cur'[w].tokens = new
      BY <2>1
    <2> QED
      BY <2>1, <2>2
  <1>4. CASE Learn(w)
    BY <1>4 DEF Learn, locals, Resolved
  <1>5. ~(CarryOn(w) /\ pc[w] \in {"lookup", "newToken"})
    BY DEF CarryOn, Reliable
  <1>6. CASE CarryOn(w) /\ pc[w] \notin {"lookup", "newToken"}
    BY <1>6 DEF CarryOn
  <1>7. CASE Clear(w) \/ ClearMark(w) \/ ReadMark(w) \/ ReadMemories(w) \/ Merge(w) \/ Replace(w)
             \/ StoreSnippet(w) \/ ScanKeys(w) \/ ScanRows(w) \/ SwapIndexes(w) \/ SetMark(w)
             \/ GiveUp(w)
    BY <1>7 DEF Clear, ClearMark, ReadMark, ReadMemories, Merge, Replace, StoreSnippet,
                ScanKeys, ScanRows, SwapIndexes, SetMark, GiveUp
  <1>8. CASE Distill(w)
    <2>1. Goto(w, IF wm[w] > 0 THEN "merge" ELSE "next")
      BY <1>8 DEF Distill
    <2> QED
      BY <2>1
  <1>9. CASE LinkMemory(w) \/ AddLink(w) \/ EndLinks(w)
    <2>1. \E to \in {"link", "addLink", "scanKeys", "setMark"} : Goto(w, to)
      BY <1>9, LinkStepsGo
    <2> QED
      BY <2>1
  <1> QED
    BY <1>1, <1>2, <1>3, <1>4, <1>5, <1>6, <1>7, <1>8, <1>9 DEF Step

\* Nobody else inserts an entity between the look-up and the insert.
LEMMA ResolvedStays ==
    ASSUME TaggedInv, InsertsApart, Reliable({"lookup", "newToken"}), [Next]_vars
    PROVE  Resolved'
  <1> USE DEF TaggedInv
  <1> SUFFICES ASSUME NEW w \in Worker
               PROVE  LET token == TokenOf(cur'[w].snippet)
                      IN /\ pc'[w] \in {"lookup", "newToken"} => token # {}
                         /\ pc'[w] = "newToken" => token \cap tokens' = {}
                         /\ pc'[w] \in {"learn", "store"} => cur'[w].tokens = token
    BY DEF Resolved, TokenOf
  <1>1. CASE Step(w)
    BY <1>1, ResolvedByStep
  <1>2. CASE Begins(w)
    BY <1>2, BeginsAt
  <1>3. CASE Dies(w)
    BY <1>3 DEF Dies
  <1>4. CASE pc'[w] = pc[w] /\ Keeps(w) /\ ~Step(w)
    <2>1. CASE pc[w] # "newToken" \/ UNCHANGED tokens
      BY <1>4, <2>1 DEF Resolved, Keeps
    <2>2. CASE pc[w] = "newToken" /\ \E v \in Worker : InsertToken(v)
      <3>1. PICK v \in Worker : InsertToken(v)
        BY <2>2
      <3>2. v # w
        BY <1>4, <3>1 DEF Step
      <3>3. /\ tokens' = tokens \cup (TokenOf(cur[v].snippet) \ tokens)
            /\ TokenOf(cur[v].snippet) \cap TokenOf(cur[w].snippet) = {}
        BY <2>2, <3>1, <3>2 DEF InsertToken, InsertsApart
      <3>4. TokenOf(cur[w].snippet) # {} /\ TokenOf(cur[w].snippet) \cap tokens = {}
        BY <2>2 DEF Resolved
      <3> QED
        BY <1>4, <2>2, <3>3, <3>4 DEF Keeps
    <2> QED
      BY <2>1, <2>2, TokensGrowBy
  <1> QED
    BY <1>1, <1>2, <1>3, <1>4, WorkerMoves

\* Which step stores rows and which delete them.
LEMMA RowsChange ==
    ASSUME TypeInv, [Next]_vars
    PROVE  \/ UNCHANGED <<distillations, semkeys, nextID>>
           \/ \E w \in Worker : Clear(w) \/ Replace(w) \/ StoreSnippet(w)
  <1>1. CASE UNCHANGED rowVars
    BY <1>1 DEF rowVars
  <1>2. CASE \/ Start \/ Crash \/ Exit \/ \E s \in Session : StoreMemory(s)
             \/ \E w \in Worker : ScanKeys(w) \/ ScanRows(w) \/ SwapIndexes(w)
    BY <1>2 DEF Start, Crash, Exit, StoreMemory, ScanKeys, ScanRows, SwapIndexes, storeVars
  <1> QED
    BY <1>1, <1>2, RowsFrame

\* A row is stored with the tokens of its snippet.
LEMMA EntityTaggedStays ==
    ASSUME TaggedInv, [Next]_vars
    PROVE  EntityTagged'
  <1> USE DEF TaggedInv
  <1>1. CASE UNCHANGED distillations
    BY <1>1 DEF EntityTagged, TokenOf
  <1>2. CASE \E w \in Worker : Clear(w) \/ Replace(w)
    <2>1. distillations' \subseteq distillations
      BY <1>2 DEF Clear, Replace, DeleteDistillationsBySessionID
    <2> QED
      BY <2>1 DEF EntityTagged, TokenOf
  <1>3. CASE \E w \in Worker : StoreSnippet(w)
    <2>1. PICK w \in Worker : StoreSnippet(w)
      BY <1>3
    <2>2. /\ distillations' = distillations \cup
                 {[id |-> nextID, session |-> sess[w], snippet |-> cur[w].snippet,
                   tokens |-> cur[w].tokens]}
          /\ cur[w].tokens = TokenOf(cur[w].snippet)
      BY <2>1 DEF StoreSnippet, InsertDistillation, Resolved
    <2> QED
      BY <2>2 DEF EntityTagged, TokenOf
  <1> QED
    BY <1>1, <1>2, <1>3, RowsChange

\* The look-up, the insert and the row are three calls (session_distillation.go).
\* As long as no two workers, of the service or of the command line, are about to
\* insert the same entity, and the two calls on the vocabulary succeed, every snippet
\* about an entity the vocabulary lacked is stored with its token.
THEOREM OnlyRacingInsertsUntag ==
    ASSUME Reliable({"lookup", "newToken"})
    PROVE  Spec /\ []InsertsApart => []EntityTagged
  <1>1. Init => TaggedInv
    BY InitTypeInv DEF Init, InitStore, TaggedInv, Resolved, EntityTagged
  <1>2. TaggedInv /\ InsertsApart /\ [Next]_vars => TaggedInv'
    BY NextTypeInv, ResolvedStays, EntityTaggedStays DEF TaggedInv
  <1>3. TaggedInv => EntityTagged
    BY DEF TaggedInv
  <1> QED
    BY <1>1, <1>2, <1>3, PTL DEF Spec

\* One worker at a time races with nobody.
THEOREM EntitiesAreTagged ==
    ASSUME Serial, Reliable({"lookup", "newToken"})
    PROVE  Spec => []EntityTagged
  <1>1. Init => TypeInv /\ Alone
    BY InitTypeInv DEF Init, Alone, Running, Finished
  <1>2. TypeInv /\ Alone /\ [Next]_vars => (TypeInv /\ Alone)'
    BY NextTypeInv, AloneStays
  <1>3. Alone => InsertsApart
    BY DEF Alone, InsertsApart, Running, Finished
  <1> QED
    BY <1>1, <1>2, <1>3, OnlyRacingInsertsUntag, PTL DEF Spec

-----------------------------------------------------------------------------
(* The indexes of the service are current *)

\* Unless a worker is writing, the indexes are what the tables say.
Current ==
    up /\ (\A w \in Worker : pc[w] \notin Writing) =>
        /\ semkeys \subseteq l0Index
        /\ personalIndex = TokenRows

\* What Rebuild has read of the tables is still what they say.
Scanned ==
    \A w \in Worker :
        /\ pc[w] \in {"scanRows", "swap"} => scan[w].keys = semkeys
        /\ pc[w] = "swap" => scan[w].rows = TokenRows

\* Between its first scan and its swap a worker is the only one to write.
RebuildsApart ==
    \A w \in Worker : pc[w] \in {"scanRows", "swap"} =>
        Step(w) \/ UNCHANGED <<distillations, semkeys>>

IndexInv == TypeInv /\ Unforced /\ Scanned /\ Current

\* A worker of the service that writes goes on until it has swapped the indexes.
LEMMA WritingGoesOn ==
    ASSUME TypeInv, OnlyService, Reliable({"scanKeys", "scanRows"}),
           NEW v \in Worker, pc[v] \in Writing, Step(v), ~SwapIndexes(v)
    PROVE  pc'[v] \in Writing
  <1> USE DEF Writing, Storing, Goto, TypeInv, Workers
  <1>1. CASE NextSnippet(v)
    BY <1>1 DEF NextSnippet
  <1>2. CASE LookupToken(v) \/ InsertToken(v)
    <2>1. \E to \in {"newToken", "store", "learn"} : Goto(v, to)
      BY <1>2 DEF LookupToken, InsertToken
    <2> QED
      BY <2>1
  <1>3. CASE Learn(v) \/ StoreSnippet(v) \/ ScanKeys(v) \/ ScanRows(v)
    BY <1>3 DEF Learn, StoreSnippet, ScanKeys, ScanRows
  <1>4. CASE LinkMemory(v) \/ AddLink(v) \/ EndLinks(v)
    <2>1. \E to \in {"link", "addLink", "scanKeys"} : Goto(v, to)
      BY <1>4, LinkStepsGo DEF OnlyService
    <2> QED
      BY <2>1
  <1>5. CASE CarryOn(v)
    BY <1>5 DEF CarryOn, Reliable
  <1>6. ~GiveUp(v)
    BY DEF GiveUp, ContextSteps
  <1>7. /\ ~Clear(v) /\ ~ClearMark(v) /\ ~ReadMark(v) /\ ~ReadMemories(v)
        /\ ~Distill(v) /\ ~Merge(v) /\ ~Replace(v) /\ ~SetMark(v)
    BY DEF Clear, ClearMark, ReadMark, ReadMemories, Distill, Merge, Replace, SetMark
  <1> QED
    BY <1>1, <1>2, <1>3, <1>4, <1>5, <1>6, <1>7 DEF Step

\* What changes the indexes.
LEMMA IndexChanges ==
    ASSUME TypeInv, [Next]_vars
    PROVE  \/ UNCHANGED retrieverVars
           \/ Start \/ Crash \/ Exit
           \/ \E w \in Worker : SwapIndexes(w)
  <1>1. CASE UNCHANGED rowVars
    BY <1>1 DEF rowVars, retrieverVars
  <1>2. CASE \/ \E s \in Session : StoreMemory(s)
             \/ \E w \in Worker :
                   Clear(w) \/ Replace(w) \/ StoreSnippet(w) \/ ScanKeys(w) \/ ScanRows(w)
    BY <1>2 DEF StoreMemory, Clear, Replace, StoreSnippet, ScanKeys, ScanRows
  <1> QED
    BY <1>1, <1>2, RowsFrame

\* The rows a scan reads depend on nothing but the table.
LEMMA SameRows ==
    ASSUME UNCHANGED distillations
    PROVE  UNCHANGED TokenRows
  BY DEF TokenRows, LiveIDs

\* Nobody else writes between the scans and the swap.
LEMMA ScannedStays ==
    ASSUME IndexInv, RebuildsApart, OnlyService, Reliable({"scanKeys", "scanRows"}), [Next]_vars
    PROVE  Scanned'
  <1> USE DEF IndexInv
  <1> SUFFICES ASSUME NEW w \in Worker
               PROVE  /\ pc'[w] \in {"scanRows", "swap"} => scan'[w].keys = semkeys'
                      /\ pc'[w] = "swap" => scan'[w].rows = TokenRows'
    BY DEF Scanned
  <1>1. CASE ScanKeys(w)
    <2>1. /\ scan' = [scan EXCEPT ![w].keys = semkeys] /\ UNCHANGED storeVars
          /\ pc' = [pc EXCEPT ![w] = "scanRows"]
      BY <1>1 DEF ScanKeys, Goto
    <2> QED
      BY <2>1 DEF storeVars, TypeInv, Rows, Workers
  <1>2. CASE ScanRows(w)
    <2>1. /\ scan' = [scan EXCEPT ![w].rows = TokenRows] /\ UNCHANGED storeVars
          /\ scan[w].keys = semkeys
      BY <1>2 DEF ScanRows, Scanned
    <2> QED
      BY <2>1, SameRows DEF storeVars, TypeInv, Rows
  <1>3. CASE Step(w) /\ ~ScanKeys(w) /\ ~ScanRows(w)
    <2> USE DEF Goto, TypeInv, Workers
    <2>1. CASE Clear(w) \/ ClearMark(w) \/ ReadMark(w) \/ ReadMemories(w) \/ Merge(w) \/ Replace(w)
               \/ Learn(w) \/ StoreSnippet(w) \/ SwapIndexes(w) \/ SetMark(w) \/ GiveUp(w)
      BY <2>1 DEF Clear, ClearMark, ReadMark, ReadMemories, Merge, Replace, Learn, StoreSnippet,
                  SwapIndexes, SetMark, GiveUp
    <2>2. CASE Distill(w)
      <3>1. Goto(w, IF wm[w] > 0 THEN "merge" ELSE "next")
        BY <2>2 DEF Distill
      <3> QED
        BY <3>1
    <2>3. CASE NextSnippet(w) \/ LookupToken(w) \/ InsertToken(w)
      <3>1. \E to \in {"link", "lookup", "newToken", "store", "learn"} : Goto(w, to)
        BY <2>3 DEF NextSnippet, LookupToken, InsertToken
      <3> QED
        BY <3>1
    <2>4. CASE LinkMemory(w) \/ AddLink(w) \/ EndLinks(w)
      <3>1. \E to \in {"link", "addLink", "scanKeys"} : Goto(w, to)
        BY <2>4, LinkStepsGo DEF OnlyService
      <3> QED
        BY <3>1
    <2>5. CASE CarryOn(w)
      BY <2>5 DEF CarryOn
    <2> QED
      BY <1>3, <2>1, <2>2, <2>3, <2>4, <2>5 DEF Step
  <1>4. CASE Begins(w)
    BY <1>4, BeginsAt
  <1>5. CASE Dies(w)
    BY <1>5 DEF Dies
  <1>6. CASE pc'[w] = pc[w] /\ Keeps(w) /\ ~Step(w)
    <2> SUFFICES ASSUME pc[w] \in {"scanRows", "swap"}
                 PROVE  UNCHANGED <<distillations, semkeys>>
      BY <1>6, SameRows DEF Keeps, Scanned
    <2> QED
      BY <1>6 DEF RebuildsApart
  <1> QED
    BY <1>1, <1>2, <1>3, <1>4, <1>5, <1>6, WorkerMoves

\* Every write is followed by a swap of what the tables then say.
LEMMA CurrentStays ==
    ASSUME IndexInv, OnlyService, Reliable({"scanKeys", "scanRows"}), [Next]_vars
    PROVE  Current'
  <1> USE DEF IndexInv
  <1> SUFFICES ASSUME up', \A w \in Worker : pc'[w] \notin Writing
               PROVE  semkeys' \subseteq l0Index' /\ personalIndex' = TokenRows'
    BY DEF Current
  <1>1. CASE Start
    BY <1>1, SameRows DEF Start, NewDistillationRetriever, storeVars
  <1>2. ~Crash /\ ~Exit
    BY DEF Crash, Exit, Gone
  <1>3. CASE \E w \in Worker : SwapIndexes(w)
    <2>1. PICK w \in Worker : SwapIndexes(w)
      BY <1>3
    <2>2. /\ l0Index' = scan[w].keys /\ personalIndex' = scan[w].rows
          /\ UNCHANGED storeVars /\ pc[w] = "swap"
      BY <2>1 DEF SwapIndexes, Swap
    <2> QED
      BY <2>2, SameRows DEF Scanned, storeVars
  <1>4. CASE ~Start /\ ~ \E w \in Worker : SwapIndexes(w)
    <2>1. \A w \in Worker : pc[w] \notin Writing
      <3> SUFFICES ASSUME NEW w \in Worker, pc[w] \in Writing PROVE FALSE
        OBVIOUS
      <3>1. CASE Step(w)
        BY <1>4, <3>1, WritingGoesOn
      <3>2. ~Begins(w) /\ ~Dies(w)
        BY <1>2 DEF Begins, Writing, Storing, Dies, Kill, OnlyService
      <3> QED
        BY <3>1, <3>2, WorkerMoves
    <2>2. UNCHANGED <<distillations, semkeys>>
      <3> SUFFICES ASSUME NEW w \in Worker, Clear(w) \/ Replace(w) \/ StoreSnippet(w)
                   PROVE  FALSE
        BY RowsChange
      <3>1. ~Clear(w)
        BY DEF Clear, Unforced
      <3>2. pc' = [pc EXCEPT ![w] = "next"]
        BY <3>1 DEF Replace, StoreSnippet, Goto
      <3> QED
        BY <3>2 DEF Writing, TypeInv, Workers
    <2>3. up /\ UNCHANGED retrieverVars
      BY <1>2, <1>4, UpBy, IndexChanges
    <2> QED
      BY <2>1, <2>2, <2>3, SameRows DEF Current, retrieverVars
  <1> QED
    BY <1>1, <1>3, <1>4

\* Rebuild scans the two tables without a lock and swaps the result in
\* (retriever.go).  As long as only the service distils, no other worker writes
\* between the scans of one and its swap, and the scans succeed, requests find every
\* stored distillation by its keys and tokens when no distillation is going on,
\* however else distillations overlap.
THEOREM OnlyWritesDuringRebuildHide ==
    ASSUME OnlyService, Reliable({"scanKeys", "scanRows"})
    PROVE  Spec /\ [][RebuildsApart]_vars => []IndexCurrent
  <1>1. NoForce
    BY DEF OnlyService, NoForce
  <1>2. Init => IndexInv
    BY InitTypeInv DEF Init, IndexInv, Unforced, Scanned, Current
  <1>3. IndexInv /\ [Next]_vars /\ [RebuildsApart]_vars => IndexInv'
    <2>1. UNCHANGED vars => RebuildsApart
      BY DEF vars, storeVars, RebuildsApart
    <2> QED
      BY <1>1, <2>1, NextTypeInv, UnforcedStays, ScannedStays, CurrentStays DEF IndexInv
  <1>4. IndexInv => IndexCurrent
    BY DEF IndexInv, Current, IndexCurrent, Running, Finished, Writing, Storing
  <1> QED
    BY <1>2, <1>3, <1>4, PTL DEF Spec

\* One worker at a time writes while nobody scans.
THEOREM IndexesAreCurrent ==
    ASSUME Serial, OnlyService, Reliable({"scanKeys", "scanRows"})
    PROVE  Spec => []IndexCurrent
  <1>1. Init => TypeInv /\ Alone
    BY InitTypeInv DEF Init, Alone, Running, Finished
  <1>2. TypeInv /\ Alone /\ [Next]_vars => (TypeInv /\ Alone)'
    BY NextTypeInv, AloneStays
  <1>3. TypeInv /\ Alone /\ [Next]_vars => [RebuildsApart]_vars
    <2> SUFFICES ASSUME TypeInv, Alone, [Next]_vars,
                        NEW w \in Worker, pc[w] \in {"scanRows", "swap"},
                        NEW v \in Worker, Clear(v) \/ Replace(v) \/ StoreSnippet(v)
                 PROVE  Step(w)
      BY RowsChange DEF RebuildsApart
    <2>1. Running(v) /\ Running(w)
      BY DEF Clear, Replace, StoreSnippet, Running, Finished
    <2> QED
      BY <2>1 DEF Alone, Step
  <1> QED
    BY <1>1, <1>2, <1>3, OnlyWritesDuringRebuildHide, PTL DEF Spec

-----------------------------------------------------------------------------
(* Captured knowledge is kept *)

\* A session with a memory above its watermark is distilled again.
Due(s) == \E i \in MemoriesOf(s) : i > metadata[s]

\* --force has deleted the rows of a session and not yet cleared its watermark.
Cleared(s) == \E w \in Worker : sess[w] = s /\ pc[w] = "clearMark"

\* What was captured is stored, unless a replacement of the session is under way or
\* broke off, when it was about to merge; then, if it has not just been cleared, it is
\* due again.
KeptOf(s) ==
    /\ \/ captured[s] \subseteq GetSnippetsBySessionID(s)
       \/ s \in replacing /\ metadata[s] > 0 /\ ~Cleared(s)
    /\ s \in replacing => Due(s) \/ Cleared(s)

Kept == \A s \in Session : KeptOf(s)

\* Only sessions with memories are distilled by force.
Begun == \A w \in Worker, s \in Session :
    sess[w] = s /\ pc[w] \in {"clear", "clearMark"} => MemoriesOf(s) # {}

\* Between deleting the rows and clearing the watermark a forced call neither fails
\* nor dies.
ForceCompletes == \A w \in Worker : pc[w] = "clearMark" => pc'[w] \in {"clearMark", "readMark"}

\* Where a worker has found something to do, and where it has all snippets stored.
Distilling == {"distill", "merge", "replace"}
Closing == {"link", "addLink", "scanKeys", "scanRows", "swap", "setMark"}

\* What the worker w of session s knows: the watermark it read is the session's,
\* something is above it, what the table had when it was emptied is in todo, and
\* from then on everything captured is stored, held, or still to be stored.
Knows(w, s) ==
    /\ pc[w] \in Replacing \cup Distilling \cup {"readMemories"} => wm[w] = metadata[s]
    /\ pc[w] \in Replacing \cup Distilling => \E i \in MemoriesOf(s) : i > wm[w]
    /\ pc[w] \in {"merge", "replace"} => wm[w] > 0
    /\ pc[w] = "replace" => GetSnippetsBySessionID(s) \subseteq todo[w]
    /\ pc[w] \in Closing => todo[w] = {}
    /\ pc[w] \in Replacing /\ s \in replacing =>
           captured[s] \subseteq GetSnippetsBySessionID(s) \cup todo[w] \cup Held(w)

Working == \A w \in Worker, s \in Session : sess[w] = s => Knows(w, s)

KnowledgeInv == TypeInv /\ Begun /\ Kept /\ Working

\* What is stored of a session, and what it is compared with.
knowledgeVars == <<distillations, captured, replacing, metadata>>

\* Snippets depend on nothing but the table.
LEMMA SameSnippets ==
    ASSUME UNCHANGED distillations, NEW s
    PROVE  UNCHANGED GetSnippetsBySessionID(s)
  BY DEF GetSnippetsBySessionID, OfSession

\* Only five steps of workers change what is stored of a session.
LEMMA KnowledgeChanges ==
    ASSUME TypeInv, [Next]_vars
    PROVE  \/ UNCHANGED knowledgeVars
           \/ \E w \in Worker :
                Clear(w) \/ ClearMark(w) \/ Replace(w) \/ StoreSnippet(w) \/ SetMark(w)
  <1>1. CASE UNCHANGED vars
    BY <1>1 DEF vars, storeVars, history, knowledgeVars
  <1>2. CASE \/ Start \/ Crash \/ Exit
             \/ \E p \in Proc : Interrupt(p)
             \/ \E s \in Session : Arrive(s) \/ StoreMemory(s) \/ RequestFails(s)
             \/ \E w \in Worker : RunPass(w) \/ NextSession(w) \/ Kill(w)
    BY <1>2 DEF Start, Crash, Exit, Interrupt, Arrive, StoreMemory, RequestFails, RunPass,
                NextSession, Kill, storeVars, history, knowledgeVars
  <1>3. ASSUME NEW w \in Worker, Step(w), ~Clear(w), ~ClearMark(w), ~Replace(w),
               ~StoreSnippet(w), ~SetMark(w)
        PROVE  UNCHANGED knowledgeVars
    <2>2. CASE ReadMark(w) \/ ReadMemories(w) \/ Distill(w) \/ Merge(w) \/ NextSnippet(w)
               \/ LookupToken(w) \/ InsertToken(w) \/ Learn(w)
      BY <2>2 DEF ReadMark, ReadMemories, Distill, Merge, NextSnippet, LookupToken, InsertToken,
                  Learn, storeVars, history, knowledgeVars
    <2>3. CASE LinkMemory(w) \/ AddLink(w) \/ EndLinks(w)
            \/ ScanKeys(w) \/ ScanRows(w) \/ SwapIndexes(w)
               \/ GiveUp(w) \/ CarryOn(w)
      BY <2>3 DEF LinkMemory, AddLink, EndLinks, ScanKeys, ScanRows, SwapIndexes, GiveUp, CarryOn,
                  storeVars, history, knowledgeVars
    <2> QED
      BY <1>3, <2>2, <2>3 DEF Step
  <1> QED
    BY <1>1, <1>2, <1>3 DEF Next

\* --force empties one session, and nothing counts as captured of it.
LEMMA ClearEffect ==
    ASSUME TypeInv, NEW w \in Worker, Clear(w)
    PROVE  /\ sess[w] \in Session
           /\ GetSnippetsBySessionID(sess[w])' = {} /\ captured'[sess[w]] = {}
           /\ \A s : s # sess[w] => GetSnippetsBySessionID(s)' = GetSnippetsBySessionID(s)
           /\ \A s \in Session : s # sess[w] => captured'[s] = captured[s]
           /\ replacing' = replacing \cup {sess[w]}
           /\ UNCHANGED <<metadata, memories, sess>>
           /\ pc[w] = "clear" /\ pc'[w] = "clearMark"
  <1>1. sess[w] \in Session
    BY DEF Clear, TypeInv, Workers, Running, Finished
  <1>2. /\ distillations' = distillations \ OfSession(sess[w])
        /\ UNCHANGED <<metadata, memories, sess>>
    BY DEF Clear, DeleteDistillationsBySessionID, envVars, locals
  <1>3. /\ OfSession(sess[w])' = {}
        /\ \A s : s # sess[w] => OfSession(s)' = OfSession(s)
    BY <1>2 DEF OfSession
  <1>4. /\ GetSnippetsBySessionID(sess[w])' = {}
        /\ \A s : s # sess[w] => GetSnippetsBySessionID(s)' = GetSnippetsBySessionID(s)
    BY <1>3 DEF GetSnippetsBySessionID
  <1> QED
    BY <1>1, <1>2, <1>4 DEF Clear, Goto, TypeInv, Tables, Workers

\* Then it sets the watermark to nothing.
LEMMA ClearMarkEffect ==
    ASSUME TypeInv, NEW w \in Worker, ClearMark(w)
    PROVE  /\ sess[w] \in Session
           /\ UNCHANGED <<distillations, captured, replacing, memories, sess>>
           /\ metadata'[sess[w]] = 0
           /\ \A s \in Session : s # sess[w] => metadata'[s] = metadata[s]
           /\ pc[w] = "clearMark" /\ pc'[w] = "readMark"
  <1>1. sess[w] \in Session
    BY DEF ClearMark, TypeInv, Workers, Running, Finished
  <1> QED
    BY <1>1 DEF ClearMark, SetMetadata, envVars, locals, history, Goto, TypeInv, Tables, Workers

\* The delete empties one session; facts it had lost before stay lost.
LEMMA ReplaceEffect ==
    ASSUME TypeInv, NEW w \in Worker, Replace(w)
    PROVE  /\ sess[w] \in Session
           /\ GetSnippetsBySessionID(sess[w])' = {}
           /\ \A s : s # sess[w] => GetSnippetsBySessionID(s)' = GetSnippetsBySessionID(s)
           /\ \A s \in Session : s # sess[w] => captured'[s] = captured[s]
           /\ captured'[sess[w]] = IF sess[w] \in replacing
                                   THEN captured[sess[w]] \cap GetSnippetsBySessionID(sess[w])
                                   ELSE captured[sess[w]]
           /\ replacing' = replacing \cup {sess[w]}
           /\ UNCHANGED <<metadata, memories, sess, wm, todo, cur>>
           /\ pc[w] = "replace" /\ pc'[w] = "next"
  <1>1. sess[w] \in Session
    BY DEF Replace, TypeInv, Workers, Running, Finished
  <1>2. /\ distillations' = distillations \ OfSession(sess[w])
        /\ UNCHANGED <<metadata, memories, sess, wm, todo, cur>>
    BY DEF Replace, DeleteDistillationsBySessionID, envVars, locals
  <1>3. /\ OfSession(sess[w])' = {}
        /\ \A s : s # sess[w] => OfSession(s)' = OfSession(s)
    BY <1>2 DEF OfSession
  <1>4. /\ GetSnippetsBySessionID(sess[w])' = {}
        /\ \A s : s # sess[w] => GetSnippetsBySessionID(s)' = GetSnippetsBySessionID(s)
    BY <1>3 DEF GetSnippetsBySessionID
  <1> QED
    BY <1>1, <1>2, <1>4 DEF Replace, Goto, TypeInv, Tables, Workers

\* A stored snippet is one more of its session.
LEMMA StoreSnippetEffect ==
    ASSUME TypeInv, NEW w \in Worker, StoreSnippet(w)
    PROVE  /\ sess[w] \in Session
           /\ GetSnippetsBySessionID(sess[w])' =
                  GetSnippetsBySessionID(sess[w]) \cup {cur[w].snippet}
           /\ \A s : s # sess[w] => GetSnippetsBySessionID(s)' = GetSnippetsBySessionID(s)
           /\ \A s \in Session : s # sess[w] => captured'[s] = captured[s]
           /\ captured'[sess[w]] = captured[sess[w]] \cup {cur[w].snippet}
           /\ UNCHANGED <<replacing, metadata, memories, sess, wm, todo>>
           /\ pc[w] = "store" /\ pc'[w] = "next"
  <1>1. sess[w] \in Session
    BY DEF StoreSnippet, TypeInv, Workers, Running, Finished
  <1> DEFINE row == [id |-> nextID, session |-> sess[w], snippet |-> cur[w].snippet,
                     tokens |-> cur[w].tokens]
  <1>2. /\ distillations' = distillations \cup {row}
        /\ UNCHANGED <<replacing, metadata, memories, sess, wm, todo>>
    BY DEF StoreSnippet, InsertDistillation, envVars
  <1>3. row.session = sess[w] /\ row.snippet = cur[w].snippet
    OBVIOUS
  <1> HIDE DEF row
  <1>4. /\ OfSession(sess[w])' = OfSession(sess[w]) \cup {row}
        /\ \A s : s # sess[w] => OfSession(s)' = OfSession(s)
    BY <1>2, <1>3 DEF OfSession
  <1>5. /\ GetSnippetsBySessionID(sess[w])' =
               GetSnippetsBySessionID(sess[w]) \cup {cur[w].snippet}
        /\ \A s : s # sess[w] => GetSnippetsBySessionID(s)' = GetSnippetsBySessionID(s)
    BY <1>3, <1>4 DEF GetSnippetsBySessionID
  <1> QED
    BY <1>1, <1>2, <1>5 DEF StoreSnippet, Goto, TypeInv, Tables, Workers

\* The watermark goes up to the end of the transcript.
LEMMA SetMarkEffect ==
    ASSUME TypeInv, NEW w \in Worker, SetMark(w)
    PROVE  /\ sess[w] \in Session
           /\ UNCHANGED <<distillations, captured, memories, sess>>
           /\ replacing' = replacing \ {sess[w]}
           /\ \A s \in Session : s # sess[w] => metadata'[s] = metadata[s]
           /\ pc[w] = "setMark" /\ pc'[w] = "end"
  <1>1. sess[w] \in Session
    BY DEF SetMark, TypeInv, Workers, Running, Finished
  <1>2. PICK top : metadata' = [metadata EXCEPT ![sess[w]] = top]
    BY DEF SetMark, SetMetadata
  <1> QED
    BY <1>1, <1>2 DEF SetMark, SetMetadata, envVars, Goto, TypeInv, Tables, Workers

\* A worker that is not replacing knows nothing the invariant asks for.
LEMMA NothingToKnow ==
    ASSUME NEW w \in Worker, NEW s, pc'[w] \in Finished \cup {"clear", "clearMark", "readMark"}
    PROVE  Knows(w, s)'
  BY DEF Knows, Finished, Replacing, Writing, Storing, Distilling, Closing

\* Who works on another session changes nothing of what is stored of this one.
LEMMA OthersLeaveAlone ==
    ASSUME KnowledgeInv, [Next]_vars, NEW s \in Session,
           \A v \in Worker : Step(v) => sess[v] # s
    PROVE  /\ UNCHANGED <<captured[s], metadata[s], GetSnippetsBySessionID(s)>>
           /\ (s \in replacing') <=> (s \in replacing)
  <1> USE DEF KnowledgeInv
  <1>1. CASE UNCHANGED knowledgeVars
    BY <1>1, SameSnippets DEF knowledgeVars
  <1>2. ASSUME NEW v \in Worker, Clear(v)
        PROVE  /\ UNCHANGED <<captured[s], metadata[s], GetSnippetsBySessionID(s)>>
               /\ (s \in replacing') <=> (s \in replacing)
    <2>1. sess[v] # s
      BY <1>2 DEF Step
    <2> QED
      BY <1>2, <2>1, ClearEffect
  <1>3. ASSUME NEW v \in Worker, ClearMark(v)
        PROVE  /\ UNCHANGED <<captured[s], metadata[s], GetSnippetsBySessionID(s)>>
               /\ (s \in replacing') <=> (s \in replacing)
    <2>1. sess[v] # s
      BY <1>3 DEF Step
    <2> QED
      BY <1>3, <2>1, ClearMarkEffect, SameSnippets
  <1>4. ASSUME NEW v \in Worker, Replace(v)
        PROVE  /\ UNCHANGED <<captured[s], metadata[s], GetSnippetsBySessionID(s)>>
               /\ (s \in replacing') <=> (s \in replacing)
    <2>1. sess[v] # s
      BY <1>4 DEF Step
    <2>2. /\ GetSnippetsBySessionID(s)' = GetSnippetsBySessionID(s)
          /\ captured'[s] = captured[s]
      BY <1>4, <2>1, ReplaceEffect
    <2>3. replacing' = replacing \cup {sess[v]} /\ UNCHANGED metadata
      BY <1>4, ReplaceEffect
    <2> QED
      BY <2>1, <2>2, <2>3
  <1>5. ASSUME NEW v \in Worker, StoreSnippet(v)
        PROVE  /\ UNCHANGED <<captured[s], metadata[s], GetSnippetsBySessionID(s)>>
               /\ (s \in replacing') <=> (s \in replacing)
    <2>1. sess[v] # s
      BY <1>5 DEF Step
    <2> QED
      BY <1>5, <2>1, StoreSnippetEffect
  <1>6. ASSUME NEW v \in Worker, SetMark(v)
        PROVE  /\ UNCHANGED <<captured[s], metadata[s], GetSnippetsBySessionID(s)>>
               /\ (s \in replacing') <=> (s \in replacing)
    <2>1. sess[v] # s
      BY <1>6 DEF Step
    <2> QED
      BY <1>6, <2>1, SetMarkEffect, SameSnippets
  <1> QED
    BY <1>1, <1>2, <1>3, <1>4, <1>5, <1>6, KnowledgeChanges

\* A call comes to the middle of --force by deleting the rows only, and leaves it by
\* clearing the watermark.
LEMMA ClearedBy ==
    ASSUME TypeInv, ForceCompletes, [Next]_vars, NEW w \in Worker
    PROVE  /\ pc'[w] = "clearMark" =>
                   \/ Clear(w)
                   \/ pc[w] = "clearMark" /\ sess'[w] = sess[w]
           /\ pc[w] = "clearMark" =>
                   \/ ClearMark(w)
                   \/ pc'[w] = "clearMark" /\ sess'[w] = sess[w]
  <1>1. ASSUME pc'[w] = "clearMark", ~Clear(w)
        PROVE  pc[w] = "clearMark" /\ sess'[w] = sess[w]
    <2>1. ~Step(w)
      BY <1>1, StepClears
    <2>2. ~Begins(w)
      BY <1>1, BeginsAt
    <2> QED
      BY <1>1, <2>1, <2>2, WorkerMoves DEF Dies, Keeps
  <1>2. ASSUME pc[w] = "clearMark", ~ClearMark(w)
        PROVE  pc'[w] = "clearMark" /\ sess'[w] = sess[w]
    <2>1. pc'[w] \in {"clearMark", "readMark"}
      BY <1>2 DEF ForceCompletes
    <2>2. ~Step(w)
      <3>1. ~GiveUp(w)
        BY <2>1 DEF GiveUp, Goto, TypeInv, Workers
      <3> QED
        BY <1>2, <3>1 DEF Step, Clear, ReadMark, ReadMemories, Distill, Merge, Replace,
                          NextSnippet, LookupToken, InsertToken, Learn, StoreSnippet, LinkMemory,
                          AddLink, EndLinks, ScanKeys, ScanRows, SwapIndexes, SetMark, CarryOn
    <2>3. ~Begins(w) /\ ~Dies(w)
      BY <1>2, <2>1 DEF Begins, Dies
    <2> QED
      BY <1>2, <2>2, <2>3, WorkerMoves DEF Keeps
  <1> QED
    BY <1>1, <1>2

\* A forced call is for a session with memories, and these stay.
LEMMA BegunStays ==
    ASSUME TypeInv, Begun, ForceCompletes, [Next]_vars
    PROVE  Begun'
  <1> SUFFICES ASSUME NEW w \in Worker, NEW s \in Session, sess'[w] = s,
                      pc'[w] \in {"clear", "clearMark"}
               PROVE  MemoriesOf(s)' # {}
    BY DEF Begun
  <1>1. MemoriesOf(s) # {}
    <2>1. CASE Step(w)
      <3>1. Clear(w)
        BY <2>1, StepClears
      <3> QED
        BY <3>1, ClearEffect DEF Begun
    <2>2. CASE Begins(w)
      <3>1. pc' = [pc EXCEPT ![w] = IF Kind[w] = "force" THEN "clear" ELSE "readMark"]
        BY <2>2, BeginsAt
      <3>2. Kind[w] = "force"
        BY <3>1 DEF TypeInv, Workers
      <3>3. PICK t \in Session : Spawn(w, t) /\ MemoriesOf(t) # {}
        BY <2>2, <3>2 DEF Begins
      <3>4. t = s
        BY <3>3 DEF Spawn, TypeInv, Workers
      <3> QED
        BY <3>3, <3>4
    <2>3. CASE pc'[w] = pc[w] /\ Keeps(w)
      BY <2>3 DEF Begun, Keeps
    <2> QED
      BY <2>1, <2>2, <2>3, WorkerMoves DEF Dies
  <1> QED
    BY <1>1, MemoriesGrow

\* What is kept of a session nobody takes a step for.
LEMMA KeptElsewhere ==
    ASSUME KnowledgeInv, ForceCompletes, [Next]_vars, NEW s \in Session,
           \A v \in Worker : Step(v) => sess[v] # s
    PROVE  KeptOf(s)'
  <1>1. TypeInv /\ KeptOf(s)
    BY DEF KnowledgeInv, Kept
  <1>2. /\ captured'[s] = captured[s] /\ metadata'[s] = metadata[s]
        /\ GetSnippetsBySessionID(s)' = GetSnippetsBySessionID(s)
        /\ (s \in replacing') <=> (s \in replacing)
    BY OthersLeaveAlone
  <1>3. MemoriesOf(s) \subseteq MemoriesOf(s)'
    BY <1>1, MemoriesGrow
  <1>4. Cleared(s)' <=> Cleared(s)
    <2>1. ASSUME NEW w \in Worker, sess[w] = s, pc[w] = "clearMark"
          PROVE  sess'[w] = s /\ pc'[w] = "clearMark"
      BY <1>1, <2>1, ClearedBy DEF Step
    <2>2. ASSUME NEW w \in Worker, sess'[w] = s, pc'[w] = "clearMark"
          PROVE  sess[w] = s /\ pc[w] = "clearMark"
      <3>1. ~Clear(w)
        BY <1>1, <2>2, ClearEffect DEF Step
      <3> QED
        BY <1>1, <2>2, <3>1, ClearedBy
    <2> QED
      BY <2>1, <2>2 DEF Cleared
  <1> QED
    BY <1>1, <1>2, <1>3, <1>4 DEF KeptOf, Due

\* What is kept of the session of the worker that takes a step.
LEMMA KeptHere ==
    ASSUME KnowledgeInv, Apart, ForceCompletes, [Next]_vars,
           NEW w \in Worker, Step(w), NEW s \in Session, s = sess[w]
    PROVE  KeptOf(s)'
  <1> USE DEF KnowledgeInv
  <1>1. KeptOf(s) /\ Knows(w, s)
    BY DEF Kept, Working
  <1>2. MemoriesOf(s) \subseteq MemoriesOf(s)'
    BY MemoriesGrow
  <1>3. (Cleared(s) <=> pc[w] = "clearMark") /\ (Cleared(s)' <=> pc'[w] = "clearMark")
    <2>1. Running(w) /\ UNCHANGED sess
      BY StepMoves
    <2>2. ASSUME NEW v \in Worker, v # w, sess[v] = s
          PROVE  pc[v] # "clearMark" /\ pc'[v] # "clearMark"
      <3>1. ~Running(v)
        BY <2>1, <2>2 DEF Apart
      <3> QED
        BY <2>2, <3>1, StepKeepsOthers DEF Running, Finished
    <2> QED
      BY <2>1, <2>2 DEF Cleared
  <1>4. CASE Clear(w)
    BY <1>3, <1>4, ClearEffect DEF KeptOf
  <1>5. CASE ClearMark(w)
    <2>0. pc[w] = "clearMark"
      BY <1>5, ClearMarkEffect
    <2>1. captured[s] \subseteq GetSnippetsBySessionID(s) /\ pc[w] = "clearMark"
      BY <1>1, <1>3, <2>0 DEF KeptOf
    <2>2. captured'[s] \subseteq GetSnippetsBySessionID(s)'
      BY <1>5, <2>1, ClearMarkEffect, SameSnippets
    <2>3. PICK i \in MemoriesOf(s) : TRUE
      BY <2>1 DEF Begun
    <2>4. i > 0 /\ metadata'[s] = 0
      BY <1>5, ClearMarkEffect DEF MemoriesOf, TypeInv, Tables
    <2> QED
      BY <1>2, <2>2, <2>4 DEF KeptOf, Due
  <1>6. CASE Replace(w)
    <2>1. pc[w] = "replace" /\ pc'[w] = "next" /\ UNCHANGED metadata /\ s \in replacing'
      BY <1>6, ReplaceEffect
    <2>2. metadata[s] > 0 /\ Due(s)
      BY <1>1, <2>1 DEF Knows, Due, Distilling
    <2> QED
      BY <1>2, <1>3, <2>1, <2>2 DEF KeptOf, Due
  <1>7. CASE StoreSnippet(w)
    <2>1. /\ captured'[s] = captured[s] \cup {cur[w].snippet}
          /\ GetSnippetsBySessionID(s)' = GetSnippetsBySessionID(s) \cup {cur[w].snippet}
          /\ UNCHANGED <<replacing, metadata>> /\ pc[w] = "store" /\ pc'[w] = "next"
      BY <1>7, StoreSnippetEffect
    <2> QED
      BY <1>1, <1>2, <1>3, <2>1 DEF KeptOf, Due
  <1>8. CASE SetMark(w)
    <2>1. /\ UNCHANGED <<distillations, captured>> /\ s \notin replacing' /\ pc[w] = "setMark"
      BY <1>8, SetMarkEffect
    <2>2. captured[s] \subseteq GetSnippetsBySessionID(s)
      BY <1>1, <2>1 DEF KeptOf, Knows, Replacing, Closing, Held, Storing
    <2> QED
      BY <2>1, <2>2, SameSnippets DEF KeptOf
  <1>9. CASE /\ ~Clear(w) /\ ~ClearMark(w) /\ ~Replace(w) /\ ~StoreSnippet(w) /\ ~SetMark(w)
    <2>1. \A v \in Worker : Step(v) => v = w
      BY StepMovesOn, StepKeepsOthers
    <2>2. UNCHANGED knowledgeVars
      BY <1>9, <2>1, KnowledgeChanges DEF Step
    <2>3. pc[w] # "clearMark" /\ pc'[w] # "clearMark"
      BY <1>9, StepClears, ClearedBy
    <2> QED
      BY <1>1, <1>2, <1>3, <2>2, <2>3, SameSnippets DEF KeptOf, Due, knowledgeVars
  <1> QED
    BY <1>4, <1>5, <1>6, <1>7, <1>8, <1>9

\* A session is worked on by one, or by none.
LEMMA KeptStays ==
    ASSUME KnowledgeInv, Apart, ForceCompletes, [Next]_vars
    PROVE  Kept'
  BY KeptElsewhere, KeptHere DEF Kept

\* A step before the delete: what is read is what the invariant says it is.
LEMMA KnowsReading ==
    ASSUME KnowledgeInv, [Next]_vars, NEW w \in Worker, NEW s \in Session, sess[w] = s,
           ReadMark(w) \/ ReadMemories(w) \/ Distill(w) \/ Merge(w) \/ GiveUp(w)
    PROVE  Knows(w, s)'
  <1> USE DEF KnowledgeInv, Goto, TypeInv, Workers
  <1>1. UNCHANGED <<storeVars, memories, captured, replacing, cur>>
    BY DEF ReadMark, ReadMemories, Distill, Merge, GiveUp, envVars, locals, history
  <1>2. UNCHANGED knowledgeVars /\ UNCHANGED GetSnippetsBySessionID(s) /\ UNCHANGED MemoriesOf(s)
    <2>1. UNCHANGED <<distillations, knowledgeVars>>
      BY <1>1 DEF storeVars, knowledgeVars
    <2>2. UNCHANGED MemoriesOf(s)
      BY <1>1 DEF MemoriesOf
    <2> QED
      BY <2>1, <2>2, SameSnippets
  <1>3. Knows(w, s)
    BY DEF Working
  <1>4. CASE ReadMark(w)
    <2>1. wm'[w] = metadata[s] /\ pc'[w] = "readMemories"
      BY <1>4 DEF ReadMark
    <2> QED
      BY <1>2, <2>1 DEF Knows, knowledgeVars, Replacing, Writing, Storing, Distilling, Closing
  <1>5. CASE ReadMemories(w)
    <2>1. UNCHANGED wm /\ pc[w] = "readMemories"
      BY <1>5 DEF ReadMemories
    <2>2. CASE \A i \in MemoriesOf(s) : i <= wm[w]
      <3>1. pc'[w] = "end"
        BY <1>5, <2>2 DEF ReadMemories
      <3> QED
        BY <3>1, NothingToKnow DEF Finished
    <2>3. CASE ~ \A i \in MemoriesOf(s) : i <= wm[w]
      <3>1. pc'[w] = "distill"
        BY <1>5, <2>3 DEF ReadMemories
      <3>2. \E i \in MemoriesOf(s) : i > wm[w]
        <4>1. MemoriesOf(s) \subseteq Nat /\ wm[w] \in Nat
          BY DEF MemoriesOf
        <4> QED
          BY <2>3, <4>1
      <3> QED
        BY <1>2, <1>3, <2>1, <3>1, <3>2
           DEF Knows, knowledgeVars, Replacing, Writing, Storing, Distilling, Closing
    <2> QED
      BY <2>2, <2>3
  <1>6. CASE Distill(w)
    <2>1. /\ UNCHANGED wm /\ pc[w] = "distill"
          /\ pc'[w] = IF wm[w] > 0 THEN "merge" ELSE "next"
      BY <1>6 DEF Distill
    <2>2. wm[w] = metadata[s] /\ \E i \in MemoriesOf(s) : i > wm[w]
      BY <1>3, <2>1 DEF Knows, Distilling
    <2>3. wm[w] \in Nat
      BY DEF TypeInv, Workers
    <2>4. pc'[w] = "next" => captured[s] \subseteq GetSnippetsBySessionID(s)
      BY <2>1, <2>2, <2>3 DEF Kept, KeptOf
    <2> QED
      BY <1>2, <2>1, <2>2, <2>4
         DEF Knows, knowledgeVars, Replacing, Writing, Storing, Distilling, Closing
  <1>7. CASE Merge(w)
    <2>1. /\ UNCHANGED wm /\ pc[w] = "merge" /\ pc'[w] = "replace"
          /\ GetSnippetsBySessionID(s) \subseteq todo'[w]
      BY <1>7 DEF Merge
    <2> QED
      BY <1>2, <1>3, <2>1
         DEF Knows, knowledgeVars, Replacing, Writing, Storing, Distilling, Closing
  <1>8. CASE GiveUp(w)
    <2>1. pc'[w] = "failed"
      BY <1>8 DEF GiveUp
    <2> QED
      BY <2>1, NothingToKnow DEF Finished
  <1> QED
    BY <1>4, <1>5, <1>6, <1>7, <1>8

\* A step that stores nothing, and drops nothing of what is to be stored.
LEMMA KnowsGoingOn ==
    ASSUME KnowledgeInv, NEW w \in Worker, NEW s \in Session, Knows(w, s),
           pc[w] \in Replacing, pc'[w] \in Replacing,
           UNCHANGED <<distillations, captured, replacing, metadata, memories>>,
           UNCHANGED wm[w],
           todo[w] \cup Held(w) \subseteq todo'[w] \cup Held(w)',
           pc'[w] \in Closing => todo'[w] = {}
    PROVE  Knows(w, s)'
  <1>1. GetSnippetsBySessionID(s)' = GetSnippetsBySessionID(s) /\ MemoriesOf(s)' = MemoriesOf(s)
    BY SameSnippets DEF MemoriesOf
  <1>2. wm'[w] = metadata'[s] /\ \E i \in MemoriesOf(s) : i > wm'[w]
    BY DEF Knows
  <1>3. s \in replacing => captured[s] \subseteq GetSnippetsBySessionID(s) \cup todo'[w] \cup Held(w)'
    BY DEF Knows
  <1>4. pc'[w] \notin {"merge", "replace"}
    BY DEF Replacing, Writing, Storing
  <1> QED
    BY <1>1, <1>2, <1>3, <1>4 DEF Knows

\* A step from the delete on: a fact leaves todo for the worker's hands and these
\* for the table.
LEMMA KnowsWriting ==
    ASSUME KnowledgeInv, Reliable({"store"}), [Next]_vars,
           NEW w \in Worker, NEW s \in Session, sess[w] = s,
           \/ Replace(w) \/ NextSnippet(w) \/ LookupToken(w) \/ InsertToken(w) \/ Learn(w)
           \/ StoreSnippet(w) \/ LinkMemory(w) \/ AddLink(w) \/ EndLinks(w)
           \/ ScanKeys(w) \/ ScanRows(w)
           \/ SwapIndexes(w) \/ SetMark(w) \/ CarryOn(w)
    PROVE  Knows(w, s)'
  <1> USE DEF KnowledgeInv, Goto, TypeInv, Workers
  <1>1. Knows(w, s)
    BY DEF Working
  <1>2. CASE Replace(w)
    <2>1. /\ pc[w] = "replace" /\ pc'[w] = "next" /\ UNCHANGED <<wm, todo, metadata, memories>>
          /\ captured'[s] = IF s \in replacing
                            THEN captured[s] \cap GetSnippetsBySessionID(s)
                            ELSE captured[s]
      BY <1>2, ReplaceEffect
    <2>2. wm'[w] = metadata'[s] /\ (\E i \in MemoriesOf(s) : i > wm'[w])
          /\ UNCHANGED MemoriesOf(s)
      BY <1>1, <2>1 DEF Knows, Distilling, MemoriesOf
    <2>3. GetSnippetsBySessionID(s) \subseteq todo'[w]
      BY <1>1, <2>1 DEF Knows
    <2>4. captured'[s] \subseteq todo'[w]
      BY <2>1, <2>3 DEF Kept, KeptOf
    <2> QED
      BY <2>1, <2>2, <2>4 DEF Knows, Closing, Distilling, Replacing, Writing, Storing
  <1>3. CASE StoreSnippet(w)
    <2>1. /\ pc[w] = "store" /\ pc'[w] = "next"
          /\ UNCHANGED <<wm, todo, metadata, memories, replacing>>
      BY <1>3, StoreSnippetEffect
    <2>2. /\ captured'[s] = captured[s] \cup {cur[w].snippet}
          /\ GetSnippetsBySessionID(s)' = GetSnippetsBySessionID(s) \cup {cur[w].snippet}
      BY <1>3, StoreSnippetEffect
    <2>3. wm'[w] = metadata'[s] /\ (\E i \in MemoriesOf(s) : i > wm'[w])
          /\ UNCHANGED MemoriesOf(s)
      BY <1>1, <2>1 DEF Knows, Replacing, Writing, Storing, MemoriesOf
    <2>4. s \in replacing' => captured'[s] \subseteq GetSnippetsBySessionID(s)' \cup todo'[w]
      BY <1>1, <2>1, <2>2 DEF Knows, Held, Replacing, Writing, Storing
    <2> QED
      BY <2>1, <2>3, <2>4 DEF Knows, Closing, Distilling, Replacing, Writing, Storing
  <1>4. CASE SetMark(w)
    BY <1>4, SetMarkEffect, NothingToKnow DEF Finished
  <1>5. CASE NextSnippet(w)
    <2>1. /\ pc[w] = "next" /\ pc[w] \in Replacing
          /\ UNCHANGED <<distillations, captured, replacing, metadata, memories, wm>>
      BY <1>5 DEF NextSnippet, storeVars, envVars, history, Replacing, Writing
    <2>2. CASE todo[w] = {} /\ Goto(w, "link") /\ UNCHANGED todo
      <3>1. pc'[w] \in Replacing /\ todo'[w] = {} /\ Held(w) = {}
        BY <2>1, <2>2 DEF Replacing, Writing, Held, Storing
      <3> QED
        BY <1>1, <2>1, <2>2, <3>1, KnowsGoingOn
    <2>3. CASE \E f \in todo[w] :
                  /\ todo' = [todo EXCEPT ![w] = @ \ {f}]
                  /\ cur' = [cur EXCEPT ![w] = [snippet |-> f, tokens |-> {}]]
                  /\ Goto(w, IF TokenOf(f) # {} THEN "lookup" ELSE "store")
      <3>1. PICK f \in todo[w] :
                  /\ todo' = [todo EXCEPT ![w] = @ \ {f}]
                  /\ cur' = [cur EXCEPT ![w] = [snippet |-> f, tokens |-> {}]]
                  /\ Goto(w, IF TokenOf(f) # {} THEN "lookup" ELSE "store")
        BY <2>3
      <3>2. pc'[w] \in {"lookup", "store"}
        BY <3>1
      <3>3. pc'[w] \in Replacing /\ pc'[w] \notin Closing /\ pc'[w] \in Storing
        BY <3>2 DEF Replacing, Writing, Storing, Closing
      <3>4. todo'[w] = todo[w] \ {f} /\ cur'[w].snippet = f
        BY <3>1
      <3>5. Held(w) = {} /\ Held(w)' = {f}
        BY <2>1, <3>3, <3>4 DEF Held, Storing
      <3> QED
        BY <1>1, <2>1, <3>3, <3>4, <3>5, KnowsGoingOn
    <2> QED
      BY <1>5, <2>2, <2>3 DEF NextSnippet
  <1>6. CASE LookupToken(w) \/ InsertToken(w) \/ Learn(w)
    <2>1. /\ pc[w] \in {"lookup", "newToken", "learn"}
          /\ UNCHANGED <<distillations, captured, replacing, metadata, memories, wm, todo>>
      BY <1>6 DEF LookupToken, InsertToken, Learn, storeVars, envVars, locals, history
    <2>2. \E to \in {"newToken", "store", "learn"} : Goto(w, to)
      BY <1>6 DEF LookupToken, InsertToken, Learn
    <2>3. pc'[w] \in {"newToken", "store", "learn"}
      BY <2>2
    <2>4. cur'[w].snippet = cur[w].snippet
      <3>1. CASE Learn(w)
        BY <3>1 DEF Learn, locals
      <3>2. CASE LookupToken(w) \/ InsertToken(w)
        <4>1. PICK found : cur' = [cur EXCEPT ![w].tokens = found]
          BY <3>2 DEF LookupToken, InsertToken
        <4> QED
          BY <4>1
      <3> QED
        BY <1>6, <3>1, <3>2
    <2>5. /\ pc[w] \in Replacing /\ pc'[w] \in Replacing /\ pc'[w] \notin Closing
          /\ Held(w)' = Held(w)
      BY <2>1, <2>3, <2>4 DEF Replacing, Writing, Storing, Closing, Held
    <2> QED
      BY <1>1, <2>1, <2>5, KnowsGoingOn
  <1>7. CASE LinkMemory(w) \/ AddLink(w) \/ EndLinks(w)
          \/ ScanKeys(w) \/ ScanRows(w) \/ SwapIndexes(w)
    <2>1. /\ pc[w] \in Closing
          /\ UNCHANGED <<distillations, captured, replacing, metadata, memories, wm, todo>>
      BY <1>7 DEF LinkMemory, AddLink, EndLinks, ScanKeys, ScanRows, SwapIndexes, storeVars,
                  envVars, locals, history, Closing
    <2>2. \E to \in Closing : Goto(w, to)
      BY <1>7 DEF LinkMemory, AddLink, EndLinks, ScanKeys, ScanRows, SwapIndexes, Closing
    <2>3. pc'[w] \in Closing
      BY <2>2
    <2>4. pc[w] \in Replacing /\ pc'[w] \in Replacing /\ todo'[w] = {} /\ Held(w) = {}
      BY <1>1, <2>1, <2>3 DEF Replacing, Writing, Storing, Closing, Held, Knows
    <2> QED
      BY <1>1, <2>1, <2>4, KnowsGoingOn
  <1>8. CASE CarryOn(w)
    <2>1. /\ pc[w] \in {"lookup", "newToken", "scanKeys", "scanRows"}
          /\ UNCHANGED <<distillations, captured, replacing, metadata, memories, wm, todo, cur>>
      BY <1>8 DEF CarryOn, Reliable, storeVars, envVars, locals, history
    <2>2. pc'[w] = IF pc[w] \in {"lookup", "newToken"} THEN "store" ELSE "setMark"
      BY <1>8, <2>1 DEF CarryOn
    <2>3. /\ pc[w] \in Replacing /\ pc'[w] \in Replacing /\ Held(w)' = Held(w)
          /\ pc'[w] \in Closing => pc[w] \in Closing
      BY <2>1, <2>2 DEF Replacing, Writing, Storing, Closing, Held
    <2> QED
      BY <1>1, <2>1, <2>3, KnowsGoingOn DEF Knows
  <1> QED
    BY <1>2, <1>3, <1>4, <1>5, <1>6, <1>7, <1>8

\* What a worker knows stays true of its session while nobody else works on it.
LEMMA WorkingStays ==
    ASSUME KnowledgeInv, Apart, Reliable({"store"}), [Next]_vars
    PROVE  Working'
  <1> USE DEF KnowledgeInv
  <1> SUFFICES ASSUME NEW w \in Worker, NEW s \in Session, sess'[w] = s
               PROVE  Knows(w, s)'
    BY DEF Working
  <1>1. CASE Step(w)
    <2>1. sess[w] = s
      BY <1>1, StepMoves
    <2>2. CASE Clear(w) \/ ClearMark(w)
      BY <2>2, ClearEffect, ClearMarkEffect, NothingToKnow
    <2> QED
      BY <1>1, <2>1, <2>2, KnowsReading, KnowsWriting DEF Step
  <1>2. CASE Begins(w)
    BY <1>2, BeginsAt, NothingToKnow
  <1>3. CASE Dies(w)
    BY <1>3, NothingToKnow DEF Dies, Finished
  <1>4. CASE pc'[w] = pc[w] /\ Keeps(w) /\ ~Step(w)
    <2>1. CASE ~Running(w)
      BY <1>4, <2>1, NothingToKnow DEF Running
    <2>2. CASE Running(w)
      <3>1. Knows(w, s) /\ sess[w] = s
        BY <1>4 DEF Keeps, Working
      <3>2. \A v \in Worker : Step(v) => sess[v] # s
        BY <1>4, <2>2, <3>1, StepMoves DEF Apart
      <3>3. /\ UNCHANGED <<captured[s], metadata[s], GetSnippetsBySessionID(s)>>
            /\ (s \in replacing') <=> (s \in replacing)
        BY <3>2, OthersLeaveAlone
      <3>4. Held(w)' = Held(w)
        BY <1>4 DEF Held, Keeps
      <3>5. MemoriesOf(s) \subseteq MemoriesOf(s)'
        BY MemoriesGrow
      <3> QED
        BY <1>4, <3>1, <3>3, <3>4, <3>5 DEF Knows, Keeps
    <2> QED
      BY <2>1, <2>2
  <1> QED
    BY <1>1, <1>2, <1>3, <1>4, WorkerMoves

\* The invariant holds while no two workers run for one session.
LEMMA KnowledgeInvariant ==
    ASSUME Reliable({"store"})
    PROVE  Spec /\ []Apart /\ [][ForceCompletes]_vars => []KnowledgeInv
  <1>1. Init => KnowledgeInv
    <2> SUFFICES ASSUME Init PROVE KnowledgeInv
      OBVIOUS
    <2>1. \A w \in Worker : pc[w] = "idle"
      BY DEF Init
    <2>2. Begun
      BY <2>1 DEF Begun
    <2>3. Kept
      BY DEF Init, Kept, KeptOf
    <2>4. Working
      BY <2>1 DEF Working, Knows, Replacing, Writing, Storing, Distilling, Closing
    <2> QED
      BY <2>2, <2>3, <2>4, InitTypeInv DEF KnowledgeInv
  <1>2. KnowledgeInv /\ Apart /\ [Next]_vars /\ [ForceCompletes]_vars => KnowledgeInv'
    <2>1. UNCHANGED vars => ForceCompletes
      BY DEF vars, ForceCompletes
    <2> QED
      BY <2>1, NextTypeInv, BegunStays, KeptStays, WorkingStays DEF KnowledgeInv
  <1> QED
    BY <1>1, <1>2, PTL DEF Spec

\* Without --force nobody is in its steps.
LEMMA NobodyForces ==
    ASSUME NoForce
    PROVE  Spec => []Unforced /\ [][ForceCompletes]_vars
  <1>1. Init => TypeInv /\ Unforced
    BY InitTypeInv DEF Init, Unforced
  <1>2. TypeInv /\ Unforced /\ [Next]_vars => (TypeInv /\ Unforced)'
    BY NextTypeInv, UnforcedStays
  <1>3. Unforced => [ForceCompletes]_vars
    BY DEF Unforced, ForceCompletes
  <1> QED
    BY <1>1, <1>2, <1>3, PTL DEF Spec

\* "No previously captured knowledge is lost" (session_distill.go): as long as no
\* session is distilled twice at the same time, however those of other sessions
\* overlap, snippets can be stored, and no forced pass fails or dies between deleting
\* the rows and clearing the watermark, every fact a distillation of a session stored
\* is still stored when nobody works on the session, or was lost by a kill between the
\* delete and the inserts, after which the session is due to be distilled again.
THEOREM KnowledgeKeptApart ==
    ASSUME Reliable({"store"})
    PROVE  Spec /\ []Apart /\ [][ForceCompletes]_vars => []KnowledgeKept
  <1>1. KnowledgeInv => KnowledgeKept
    BY DEF KnowledgeInv, Kept, KeptOf, Due, Cleared, KnowledgeKept, Quiet, Running, Finished
  <1> QED
    BY <1>1, KnowledgeInvariant, PTL

\* So it is two distillations of one session that overlap, and nothing else, that
\* lose a fact for good in the run without --force where NothingLostForGood is
\* violated.
THEOREM OnlyOverlapLosesForGood ==
    ASSUME NoForce, Reliable({"store"})
    PROVE  Spec /\ []Apart => []NothingLostForGood
  <1>1. KnowledgeInv => NothingLostForGood
    BY DEF KnowledgeInv, Kept, KeptOf, Due, Cleared, NothingLostForGood, Quiet, Running, Finished
  <1> QED
    BY <1>1, KnowledgeInvariant, NobodyForces, PTL

\* Workers that never run at once never run for one session.
LEMMA AloneIsApart ==
    ASSUME Serial
    PROVE  Spec => []Apart
  <1>1. Init => TypeInv /\ Alone
    BY InitTypeInv DEF Init, Alone, Running, Finished
  <1>2. TypeInv /\ Alone /\ [Next]_vars => (TypeInv /\ Alone)'
    BY NextTypeInv, AloneStays
  <1>3. Alone => Apart
    BY DEF Alone, Apart
  <1> QED
    BY <1>1, <1>2, <1>3, PTL DEF Spec

\* And it is a forced pass that breaks off half-way, and nothing else, that loses what
\* was captured in the run where one distillation at a time violates KnowledgeKept.
THEOREM OnlyBrokenForceLoses ==
    ASSUME Serial, Reliable({"store"})
    PROVE  Spec /\ [][ForceCompletes]_vars => []KnowledgeKept
  BY KnowledgeKeptApart, AloneIsApart, PTL

\* A user who changes sessions slower than they are distilled and forces nothing
\* loses nothing.
THEOREM NoKnowledgeLost ==
    ASSUME Serial, NoForce, Reliable({"store"})
    PROVE  Spec => []KnowledgeKept
  BY OnlyBrokenForceLoses, NobodyForces, PTL

-----------------------------------------------------------------------------
(* What is known of a session are its own facts *)

\* A worker has read memories of its own session, one of them above its watermark,
\* and carries facts of that session only.
Owns(w, s) ==
    /\ pc[w] \in Distilling \cup Replacing =>
           transcript[w] \subseteq MemoriesOf(s) /\ \E i \in transcript[w] : i > wm[w]
    /\ pc[w] \in {"merge", "replace"} \cup Replacing => todo[w] \cup Held(w) \subseteq MemoriesOf(s)

Owned ==
    /\ \A s \in Session : GetSnippetsBySessionID(s) \subseteq MemoriesOf(s)
    /\ \A w \in Worker, s \in Session : sess[w] = s => Owns(w, s)

\* A worker that is not distilling carries nothing that matters.
LEMMA NothingOwned ==
    ASSUME NEW w \in Worker, NEW s,
           pc'[w] \in Finished \cup {"clear", "clearMark", "readMark", "readMemories"}
    PROVE  Owns(w, s)'
  BY DEF Owns, Finished, Replacing, Writing, Storing, Distilling

\* The stored facts stay those of the session.
LEMMA StoredOwnedStays ==
    ASSUME TypeInv, Unforced, Owned, [Next]_vars, NEW s \in Session
    PROVE  GetSnippetsBySessionID(s)' \subseteq MemoriesOf(s)'
  <1>1. MemoriesOf(s) \subseteq MemoriesOf(s)'
    BY MemoriesGrow
  <1>2. GetSnippetsBySessionID(s) \subseteq MemoriesOf(s)
    BY DEF Owned
  <1>3. CASE UNCHANGED knowledgeVars
    BY <1>1, <1>2, <1>3, SameSnippets DEF knowledgeVars
  <1>4. ASSUME NEW w \in Worker, Replace(w)
        PROVE  GetSnippetsBySessionID(s)' \subseteq GetSnippetsBySessionID(s)
    <2>1. CASE s = sess[w]
      BY <1>4, <2>1, ReplaceEffect
    <2>2. CASE s # sess[w]
      BY <1>4, <2>2, ReplaceEffect
    <2> QED
      BY <2>1, <2>2
  <1>5. ASSUME NEW w \in Worker, StoreSnippet(w)
        PROVE  GetSnippetsBySessionID(s)' \subseteq MemoriesOf(s)
    <2>1. CASE s = sess[w]
      <3>1. Owns(w, s) /\ pc[w] = "store"
        BY <1>5, <2>1, StoreSnippetEffect DEF Owned
      <3>2. cur[w].snippet \in MemoriesOf(s)
        BY <3>1 DEF Owns, Held, Replacing, Writing, Storing
      <3> QED
        BY <1>2, <1>5, <2>1, <3>2, StoreSnippetEffect
    <2>2. CASE s # sess[w]
      BY <1>2, <1>5, <2>2, StoreSnippetEffect
    <2> QED
      BY <2>1, <2>2
  <1>6. ASSUME NEW w \in Worker, SetMark(w)
        PROVE  GetSnippetsBySessionID(s)' = GetSnippetsBySessionID(s)
    BY <1>6, SetMarkEffect, SameSnippets
  <1>7. \A w \in Worker : ~Clear(w) /\ ~ClearMark(w)
    BY DEF Unforced, Clear, ClearMark
  <1> QED
    BY <1>1, <1>2, <1>3, <1>4, <1>5, <1>6, <1>7, KnowledgeChanges

\* A step that carries on with what the worker has read and carries.
LEMMA OwnsGoingOn ==
    ASSUME TypeInv, [Next]_vars, NEW w \in Worker, NEW s \in Session, Owns(w, s),
           pc[w] \in Distilling \cup Replacing,
           UNCHANGED <<wm[w], transcript[w]>>,
           pc'[w] \in {"merge", "replace"} \cup Replacing =>
               todo'[w] \cup Held(w)' \subseteq MemoriesOf(s)
    PROVE  Owns(w, s)'
  <1>1. MemoriesOf(s) \subseteq MemoriesOf(s)'
    BY MemoriesGrow
  <1> QED
    BY <1>1 DEF Owns

\* What a worker carries stays of its session.
LEMMA OwnsStays ==
    ASSUME TypeInv, Unforced, Owned, [Next]_vars,
           NEW w \in Worker, NEW s \in Session, sess[w] = s, Step(w)
    PROVE  Owns(w, s)'
  <1> USE DEF Goto, TypeInv, Workers
  <1>1. Owns(w, s) /\ GetSnippetsBySessionID(s) \subseteq MemoriesOf(s)
    BY DEF Owned
  <1>2. ~Clear(w) /\ ~ClearMark(w)
    BY DEF Unforced, Clear, ClearMark
  <1>3. CASE ReadMark(w) \/ SetMark(w) \/ GiveUp(w)
    <2>1. pc'[w] \in {"readMemories", "end", "failed"}
      BY <1>3 DEF ReadMark, SetMark, GiveUp
    <2> QED
      BY <2>1, NothingOwned DEF Finished
  <1>4. CASE ReadMemories(w)
    <2>1. CASE \A i \in MemoriesOf(s) : i <= wm[w]
      <3>1. pc'[w] = "end"
        BY <1>4, <2>1 DEF ReadMemories
      <3> QED
        BY <3>1, NothingOwned DEF Finished
    <2>2. CASE ~ \A i \in MemoriesOf(s) : i <= wm[w]
      <3>1. pc'[w] = "distill" /\ transcript'[w] = MemoriesOf(s) /\ wm' = wm
        BY <1>4, <2>2 DEF ReadMemories
      <3>2. MemoriesOf(s)' = MemoriesOf(s)
        BY <1>4 DEF ReadMemories, envVars, MemoriesOf
      <3>3. \E i \in MemoriesOf(s) : i > wm[w]
        <4>1. MemoriesOf(s) \subseteq Nat /\ wm[w] \in Nat
          BY DEF MemoriesOf
        <4> QED
          BY <2>2, <4>1
      <3> QED
        BY <3>1, <3>2, <3>3 DEF Owns, Replacing, Writing, Storing, Distilling
    <2> QED
      BY <2>1, <2>2
  <1>5. CASE Distill(w)
    <2>1. /\ pc[w] = "distill" /\ pc'[w] \in {"merge", "next"}
          /\ UNCHANGED <<wm, transcript>>
      BY <1>5 DEF Distill
    <2>2. todo'[w] \subseteq transcript[w]
      BY <1>5 DEF Distill
    <2>3. transcript[w] \subseteq MemoriesOf(s)
      BY <1>1, <2>1 DEF Owns, Distilling
    <2>4. Held(w)' = {} /\ pc[w] \in Distilling
      BY <2>1 DEF Held, Storing, Distilling
    <2> QED
      BY <1>1, <2>1, <2>2, <2>3, <2>4, OwnsGoingOn
  <1>6. CASE Merge(w)
    <2>1. /\ pc[w] = "merge" /\ pc'[w] = "replace" /\ UNCHANGED <<wm, transcript>>
          /\ todo'[w] = todo[w] \cup GetSnippetsBySessionID(s)
      BY <1>6 DEF Merge
    <2>2. todo[w] \subseteq MemoriesOf(s)
      BY <1>1, <2>1 DEF Owns
    <2>3. Held(w)' = {} /\ pc[w] \in Distilling
      BY <2>1 DEF Held, Storing, Distilling
    <2> QED
      BY <1>1, <2>1, <2>2, <2>3, OwnsGoingOn
  <1>7. CASE Replace(w) \/ StoreSnippet(w)
    <2>1. /\ pc[w] \in {"replace", "store"} /\ pc'[w] = "next"
          /\ UNCHANGED <<wm, transcript, todo>>
      BY <1>7 DEF Replace, StoreSnippet, locals
    <2>2. Held(w)' = {} /\ pc[w] \in Distilling \cup Replacing
      BY <2>1 DEF Held, Storing, Distilling, Replacing, Writing
    <2>3. todo[w] \subseteq MemoriesOf(s)
      BY <1>1, <2>1 DEF Owns, Replacing, Writing, Storing
    <2> QED
      BY <1>1, <2>1, <2>2, <2>3, OwnsGoingOn
  <1>8. CASE NextSnippet(w)
    <2>1. /\ pc[w] = "next" /\ UNCHANGED <<wm, transcript>>
          /\ pc[w] \in Replacing /\ todo[w] \subseteq MemoriesOf(s)
      BY <1>1, <1>8 DEF NextSnippet, Owns, Replacing, Writing
    <2>2. todo'[w] \cup Held(w)' \subseteq todo[w]
      <3>1. CASE todo[w] = {} /\ Goto(w, "link") /\ UNCHANGED todo
        BY <3>1 DEF Held, Storing
      <3>2. CASE \E f \in todo[w] :
                    /\ todo' = [todo EXCEPT ![w] = @ \ {f}]
                    /\ cur' = [cur EXCEPT ![w] = [snippet |-> f, tokens |-> {}]]
        BY <3>2 DEF Held
      <3> QED
        BY <1>8, <3>1, <3>2 DEF NextSnippet
    <2> QED
      BY <1>1, <2>1, <2>2, OwnsGoingOn
  <1>9. CASE \/ LookupToken(w) \/ InsertToken(w) \/ Learn(w)
             \/ ScanKeys(w) \/ ScanRows(w) \/ SwapIndexes(w) \/ CarryOn(w)
    <2>1. pc[w] \in Replacing /\ UNCHANGED <<wm, transcript, todo>>
      BY <1>9 DEF LookupToken, InsertToken, Learn, ScanKeys, ScanRows, SwapIndexes, CarryOn,
                  locals, Replacing, Writing, Storing
    <2>2. cur'[w].snippet = cur[w].snippet
      <3>1. CASE LookupToken(w) \/ InsertToken(w)
        <4>1. PICK found : cur' = [cur EXCEPT ![w].tokens = found]
          BY <3>1 DEF LookupToken, InsertToken
        <4> QED
          BY <4>1
      <3>2. CASE ~LookupToken(w) /\ ~InsertToken(w)
        BY <1>9, <3>2 DEF Learn, ScanKeys, ScanRows, SwapIndexes, CarryOn, locals
      <3> QED
        BY <3>1, <3>2
    <2>3. Held(w)' \subseteq Held(w)
      <3>1. pc'[w] \in Storing => pc[w] \in Storing
        <4>1. CASE LookupToken(w) \/ InsertToken(w) \/ Learn(w)
          BY <4>1 DEF LookupToken, InsertToken, Learn, Storing
        <4>2. CASE ScanKeys(w) \/ ScanRows(w) \/ SwapIndexes(w)
          BY <4>2 DEF ScanKeys, ScanRows, SwapIndexes, Storing
        <4>3. CASE CarryOn(w)
          BY <4>3 DEF CarryOn, Storing
        <4> QED
          BY <1>9, <4>1, <4>2, <4>3
      <3> QED
        BY <2>2, <3>1 DEF Held
    <2>4. todo[w] \cup Held(w) \subseteq MemoriesOf(s)
      BY <1>1, <2>1 DEF Owns
    <2> QED
      BY <1>1, <2>1, <2>3, <2>4, OwnsGoingOn
  <1>10. CASE LinkMemory(w) \/ AddLink(w) \/ EndLinks(w)
    <2>1. pc[w] \in Replacing /\ UNCHANGED <<wm, transcript, todo>>
      BY <1>10, LinkStepsGo DEF Replacing, Writing
    <2>2. Held(w)' = {}
      <3>1. \E to \in {"link", "addLink", "scanKeys", "setMark"} : Goto(w, to)
        BY <1>10, LinkStepsGo
      <3> QED
        BY <3>1 DEF Held, Storing
    <2>3. todo[w] \subseteq MemoriesOf(s)
      BY <1>1, <2>1 DEF Owns
    <2> QED
      BY <1>1, <2>1, <2>2, <2>3, OwnsGoingOn
  <1> QED
    BY <1>2, <1>3, <1>4, <1>5, <1>6, <1>7, <1>8, <1>9, <1>10 DEF Step

\* A distillation takes its facts from nowhere but the session's own memories.
LEMMA OwnedStays ==
    ASSUME TypeInv, Unforced, Owned, [Next]_vars
    PROVE  Owned'
  <1>1. ASSUME NEW w \in Worker, NEW s \in Session, sess'[w] = s
        PROVE  Owns(w, s)'
    <2>1. CASE Step(w)
      BY <1>1, <2>1, OwnsStays, StepMoves
    <2>2. CASE Begins(w)
      BY <2>2, BeginsAt, NothingOwned
    <2>3. CASE Dies(w)
      BY <2>3, NothingOwned DEF Dies, Finished
    <2>4. CASE pc'[w] = pc[w] /\ Keeps(w)
      <3>1. Owns(w, s) /\ Held(w)' = Held(w)
        BY <1>1, <2>4 DEF Owned, Keeps, Held
      <3>2. MemoriesOf(s) \subseteq MemoriesOf(s)'
        BY MemoriesGrow
      <3> QED
        BY <2>4, <3>1, <3>2 DEF Owns, Keeps
    <2> QED
      BY <2>1, <2>2, <2>3, <2>4, WorkerMoves
  <1> QED
    BY <1>1, StoredOwnedStays DEF Owned

-----------------------------------------------------------------------------
(* The abstract knowledge is implemented *)

\* Memories come from requests only.
LEMMA MemoriesChange ==
    ASSUME TypeInv, [Next]_vars
    PROVE  UNCHANGED memories \/ \E t \in Session : StoreMemory(t)
  <1>1. CASE UNCHANGED rowVars
    BY <1>1 DEF rowVars
  <1>2. CASE \E t \in Session : StoreMemory(t)
    BY <1>2
  <1>3. CASE \/ Start \/ Crash \/ Exit
             \/ \E w \in Worker :
                    \/ Clear(w) \/ Replace(w) \/ StoreSnippet(w)
                    \/ ScanKeys(w) \/ ScanRows(w) \/ SwapIndexes(w)
    BY <1>3 DEF Start, Crash, Exit, Clear, Replace, StoreSnippet, ScanKeys, ScanRows, SwapIndexes,
                envVars
  <1> QED
    BY <1>1, <1>2, <1>3, RowsFrame

\* What one worker has in its hands of a session it rewrites.
InHands(w) == IF pc[w] \in Replacing THEN todo[w] \cup Held(w) ELSE {}

\* With one worker on a session that it runs for, that worker is who rewrites it.
LEMMA RewriterHere ==
    ASSUME TypeInv, Apart, NEW w \in Worker, Step(w), NEW s, s = sess[w]
    PROVE  /\ Rewriters(s) = {v \in {w} : pc[w] \in Replacing}
           /\ Rewriters(s)' = {v \in {w} : pc'[w] \in Replacing}
           /\ KnownOf(s) = GetSnippetsBySessionID(s) \cup InHands(w)
           /\ KnownOf(s)' = GetSnippetsBySessionID(s)' \cup InHands(w)'
  <1>1. Running(w) /\ UNCHANGED sess
    BY StepMoves
  <1>2. ASSUME NEW v \in Worker, v # w, sess[v] = s
        PROVE  pc[v] \notin Replacing /\ pc'[v] \notin Replacing
    <2>1. ~Running(v)
      BY <1>1, <1>2 DEF Apart
    <2>2. pc[v] \notin Replacing
      BY <2>1 DEF Running, Finished, Replacing, Writing, Storing
    <2> QED
      BY <1>2, <2>2, StepKeepsOthers
  <1>3. /\ Rewriters(s) = {v \in {w} : pc[w] \in Replacing}
        /\ Rewriters(s)' = {v \in {w} : pc'[w] \in Replacing}
    BY <1>1, <1>2 DEF Rewriters
  <1>4. KnownOf(s) = GetSnippetsBySessionID(s) \cup InHands(w)
    BY <1>3 DEF KnownOf, InHands
  <1>5. KnownOf(s)' = GetSnippetsBySessionID(s)' \cup InHands(w)'
    BY <1>3 DEF KnownOf, InHands
  <1> QED
    BY <1>3, <1>4, <1>5

\* What is known of the other sessions stays.
LEMMA RewriterElsewhere ==
    ASSUME KnowledgeInv, [Next]_vars, NEW w \in Worker, Step(w),
           NEW s \in Session, s # sess[w]
    PROVE  Rewriters(s)' = Rewriters(s) /\ KnownOf(s)' = KnownOf(s) /\ metadata'[s] = metadata[s]
  <1>1. TypeInv
    BY DEF KnowledgeInv
  <1>2. \A v \in Worker : Step(v) => sess[v] # s
    <2> SUFFICES ASSUME NEW v \in Worker, Step(v), v # w PROVE FALSE
      OBVIOUS
    <2> QED
      BY <1>1, StepMovesOn, StepKeepsOthers
  <1>3. GetSnippetsBySessionID(s)' = GetSnippetsBySessionID(s) /\ metadata'[s] = metadata[s]
    BY <1>2, OthersLeaveAlone
  <1>4. UNCHANGED sess
    BY StepMoves
  <1>5. ASSUME NEW v \in Worker, sess[v] = s
        PROVE  pc'[v] = pc[v] /\ todo'[v] = todo[v] /\ Held(v)' = Held(v)
    <2>1. v # w
      BY <1>5
    <2> QED
      BY <1>1, <2>1, StepKeepsOthers DEF Keeps, Held
  <1>6. Rewriters(s)' = Rewriters(s)
    BY <1>4, <1>5 DEF Rewriters
  <1>7. \A v \in Rewriters(s) : todo'[v] = todo[v] /\ Held(v)' = Held(v)
    BY <1>5 DEF Rewriters
  <1> QED
    BY <1>3, <1>6, <1>7 DEF KnownOf

\* A step of a worker leaves the memories alone.
LEMMA StepKeepsMemories ==
    ASSUME TypeInv, [Next]_vars, NEW w \in Worker, Step(w)
    PROVE  UNCHANGED memories
  <1>1. ASSUME NEW t \in Session, StoreMemory(t) PROVE FALSE
    <2>1. UNCHANGED pc /\ Keeps(w)
      BY <1>1 DEF StoreMemory, locals, Keeps
    <2> QED
      BY <2>1, StepMovesOn
  <1> QED
    BY <1>1, MemoriesChange

\* What is known, as functions: the step of a worker changes it for its session.
LEMMA KnownByStep ==
    ASSUME KnowledgeInv, Apart, [Next]_vars, NEW w \in Worker, Step(w), NEW s, s = sess[w]
    PROVE  /\ s \in Session
           /\ Known' = [Known EXCEPT ![s] = KnownOf(s)']
           /\ Known[s] = KnownOf(s)
           /\ (s \in Rewritten) <=> pc[w] \in Replacing
           /\ Rewritten' = IF pc'[w] \in Replacing THEN Rewritten \cup {s} ELSE Rewritten \ {s}
           /\ \A t \in Session : t # s => metadata'[t] = metadata[t]
  <1>1. TypeInv
    BY DEF KnowledgeInv
  <1>2. s \in Session
    BY <1>1, StepMoves DEF TypeInv, Workers
  <1>3. \A t \in Session : t # s =>
            Rewriters(t)' = Rewriters(t) /\ KnownOf(t)' = KnownOf(t) /\ metadata'[t] = metadata[t]
    BY RewriterElsewhere
  <1>4. Known' = [Known EXCEPT ![s] = KnownOf(s)'] /\ Known[s] = KnownOf(s)
    BY <1>2, <1>3 DEF Known
  <1>5. /\ Rewriters(s) = {v \in {w} : pc[w] \in Replacing}
        /\ Rewriters(s)' = {v \in {w} : pc'[w] \in Replacing}
    BY <1>1, RewriterHere
  <1>6. /\ (s \in Rewritten) <=> pc[w] \in Replacing
        /\ Rewritten' = IF pc'[w] \in Replacing THEN Rewritten \cup {s} ELSE Rewritten \ {s}
    BY <1>2, <1>3, <1>5 DEF Rewritten
  <1> QED
    BY <1>2, <1>3, <1>4, <1>6

\* A step that changes neither who rewrites what nor what is known is none of the
\* abstract knowledge.
LEMMA StepUnseen ==
    ASSUME KnowledgeInv, Apart, [Next]_vars, NEW w \in Worker, Step(w), NEW s, s = sess[w],
           pc[w] \in Replacing <=> pc'[w] \in Replacing,
           GetSnippetsBySessionID(s)' \cup InHands(w)' = GetSnippetsBySessionID(s) \cup InHands(w),
           UNCHANGED metadata
    PROVE  UNCHANGED Knowledge!vars
  <1>1. TypeInv
    BY DEF KnowledgeInv
  <1>2. UNCHANGED memories
    BY <1>1, StepKeepsMemories
  <1>3. KnownOf(s)' = KnownOf(s)
    BY <1>1, RewriterHere
  <1>4. /\ s \in Session
        /\ Known' = [Known EXCEPT ![s] = KnownOf(s)']
        /\ Known[s] = KnownOf(s)
        /\ (s \in Rewritten) <=> pc[w] \in Replacing
        /\ Rewritten' = IF pc'[w] \in Replacing THEN Rewritten \cup {s} ELSE Rewritten \ {s}
    BY KnownByStep
  <1>5. Known' = Known
    BY <1>3, <1>4 DEF Known
  <1>6. Rewritten' = Rewritten
    BY <1>4
  <1> QED
    BY <1>2, <1>5, <1>6 DEF Knowledge!vars

\* A step before the delete changes nothing that is known.
LEMMA ReadingUnseen ==
    ASSUME KnowledgeInv, Apart, [Next]_vars, NEW w \in Worker,
           \/ ReadMark(w) \/ ReadMemories(w) \/ Distill(w) \/ Merge(w) \/ GiveUp(w),
           pc[w] # "setMark", pc'[w] # "next"
    PROVE  UNCHANGED Knowledge!vars
  <1> USE DEF KnowledgeInv, TypeInv, Workers, Goto
  <1>1. Step(w)
    BY DEF Step
  <1>2. UNCHANGED storeVars
    BY DEF ReadMark, ReadMemories, Distill, Merge, GiveUp
  <1>3. pc[w] \notin Replacing
    BY DEF ReadMark, ReadMemories, Distill, Merge, GiveUp, ContextSteps, Replacing, Writing, Storing
  <1>4. pc'[w] \notin Replacing
    <2>1. CASE ReadMark(w) \/ Merge(w) \/ GiveUp(w)
      BY <2>1 DEF ReadMark, Merge, GiveUp, Replacing, Writing, Storing
    <2>2. CASE ReadMemories(w)
      <3>1. \E to \in {"end", "distill"} : Goto(w, to)
        BY <2>2 DEF ReadMemories
      <3> QED
        BY <3>1 DEF Replacing, Writing, Storing
    <2>3. CASE Distill(w)
      <3>1. \E to \in {"next", "merge"} : Goto(w, to)
        BY <2>3 DEF Distill
      <3> QED
        BY <3>1 DEF Replacing, Writing, Storing
    <2> QED
      BY <2>1, <2>2, <2>3
  <1>5. UNCHANGED <<distillations, metadata>>
    BY <1>2 DEF storeVars
  <1>6. InHands(w) = {} /\ InHands(w)' = {}
    BY <1>3, <1>4 DEF InHands
  <1>7. PICK s : s = sess[w]
    OBVIOUS
  <1>8. GetSnippetsBySessionID(s)' = GetSnippetsBySessionID(s)
    BY <1>5, SameSnippets
  <1> QED
    BY <1>1, <1>3, <1>4, <1>5, <1>6, <1>7, <1>8, StepUnseen

\* Nor does one between the delete and the watermark: a fact goes from todo to the
\* worker's hands and from there into the table.
LEMMA WritingUnseen ==
    ASSUME KnowledgeInv, Apart, Reliable({"store"}), [Next]_vars, NEW w \in Worker,
           \/ NextSnippet(w) \/ LookupToken(w) \/ InsertToken(w) \/ Learn(w) \/ StoreSnippet(w)
           \/ LinkMemory(w) \/ AddLink(w) \/ EndLinks(w)
           \/ ScanKeys(w) \/ ScanRows(w) \/ SwapIndexes(w) \/ CarryOn(w)
    PROVE  UNCHANGED Knowledge!vars
  <1> USE DEF KnowledgeInv, TypeInv, Workers, Goto
  <1>1. Step(w)
    BY DEF Step
  <1>2. PICK s : s = sess[w]
    OBVIOUS
  <1>3. pc[w] \in Replacing
    BY DEF NextSnippet, LookupToken, InsertToken, Learn, StoreSnippet, LinkMemory, AddLink,
           EndLinks, ScanKeys, ScanRows, SwapIndexes, CarryOn, Replacing, Writing, Storing
  <1>4. CASE StoreSnippet(w)
    <2>1. /\ pc[w] = "store" /\ pc'[w] = "next" /\ UNCHANGED <<todo, metadata>>
          /\ GetSnippetsBySessionID(s)' = GetSnippetsBySessionID(s) \cup {cur[w].snippet}
      BY <1>2, <1>4, StoreSnippetEffect, StepMoves DEF Step
    <2>2. InHands(w) = todo[w] \cup {cur[w].snippet} /\ InHands(w)' = todo[w]
      BY <2>1 DEF InHands, Held, Replacing, Writing, Storing
    <2>3. pc'[w] \in Replacing
      BY <2>1 DEF Replacing, Writing
    <2>4. GetSnippetsBySessionID(s)' \cup InHands(w)' = GetSnippetsBySessionID(s) \cup InHands(w)
      BY <2>1, <2>2
    <2>5. UNCHANGED metadata
      BY <2>1
    <2> QED
      BY <1>1, <1>2, <1>3, <2>3, <2>4, <2>5, StepUnseen
  <1>5. CASE ~StoreSnippet(w)
    <2>1. UNCHANGED <<distillations, metadata>>
      BY <1>5 DEF NextSnippet, LookupToken, InsertToken, Learn, LinkMemory, AddLink, EndLinks,
                  ScanKeys, ScanRows, SwapIndexes, CarryOn, storeVars
    <2>2. GetSnippetsBySessionID(s)' = GetSnippetsBySessionID(s)
      BY <2>1, SameSnippets
    <2>3. pc'[w] \in Replacing /\ todo'[w] \cup Held(w)' = todo[w] \cup Held(w)
      <3>1. CASE NextSnippet(w)
        <4>1. pc[w] = "next" /\ Held(w) = {}
          BY <3>1 DEF NextSnippet, Held, Storing
        <4>2. CASE todo[w] = {} /\ Goto(w, "link") /\ UNCHANGED todo
          BY <4>1, <4>2 DEF Held, Replacing, Writing, Storing
        <4>3. CASE \E f \in todo[w] :
                      /\ todo' = [todo EXCEPT ![w] = @ \ {f}]
                      /\ cur' = [cur EXCEPT ![w] = [snippet |-> f, tokens |-> {}]]
                      /\ Goto(w, IF TokenOf(f) # {} THEN "lookup" ELSE "store")
          <5>1. PICK f \in todo[w] :
                      /\ todo' = [todo EXCEPT ![w] = @ \ {f}]
                      /\ cur' = [cur EXCEPT ![w] = [snippet |-> f, tokens |-> {}]]
                      /\ Goto(w, IF TokenOf(f) # {} THEN "lookup" ELSE "store")
            BY <4>3
          <5>2. pc'[w] \in {"lookup", "store"}
            BY <5>1
          <5>3. todo'[w] = todo[w] \ {f} /\ cur'[w].snippet = f
            BY <5>1
          <5>4. pc'[w] \in Replacing /\ Held(w)' = {f}
            BY <5>2, <5>3 DEF Held, Replacing, Writing, Storing
          <5> QED
            BY <4>1, <5>3, <5>4
        <4> QED
          BY <3>1, <4>2, <4>3 DEF NextSnippet
      <3>2. CASE LookupToken(w) \/ InsertToken(w) \/ Learn(w)
        <4>1. pc[w] \in {"lookup", "newToken", "learn"} /\ UNCHANGED todo
          BY <3>2 DEF LookupToken, InsertToken, Learn, locals
        <4>2. \E to \in {"newToken", "store", "learn"} : Goto(w, to)
          BY <3>2 DEF LookupToken, InsertToken, Learn
        <4>3. pc'[w] \in {"newToken", "store", "learn"}
          BY <4>2
        <4>4. cur'[w].snippet = cur[w].snippet
          <5>1. CASE Learn(w)
            BY <5>1 DEF Learn, locals
          <5>2. CASE LookupToken(w) \/ InsertToken(w)
            <6>1. PICK found : cur' = [cur EXCEPT ![w].tokens = found]
              BY <5>2 DEF LookupToken, InsertToken
            <6> QED
              BY <6>1
          <5> QED
            BY <3>2, <5>1, <5>2
        <4> QED
          BY <4>1, <4>3, <4>4 DEF Held, Replacing, Writing, Storing
      <3>3. CASE LinkMemory(w) \/ AddLink(w) \/ EndLinks(w)
        <4>1. pc[w] \in Closing /\ UNCHANGED todo
          BY <3>3, LinkStepsGo DEF Closing
        <4>2. \E to \in Closing : Goto(w, to)
          BY <3>3, LinkStepsGo DEF Closing
        <4>3. pc'[w] \in Closing
          BY <4>2
        <4> QED
          BY <4>1, <4>3 DEF Held, Closing, Replacing, Writing, Storing
      <3>4. CASE ScanKeys(w) \/ ScanRows(w) \/ SwapIndexes(w)
        <4>1. pc[w] \in Closing /\ UNCHANGED todo
          BY <3>4 DEF ScanKeys, ScanRows, SwapIndexes, Closing, locals
        <4>2. \E to \in Closing : Goto(w, to)
          BY <3>4 DEF ScanKeys, ScanRows, SwapIndexes, Closing
        <4>3. pc'[w] \in Closing
          BY <4>2
        <4> QED
          BY <4>1, <4>3 DEF Held, Closing, Replacing, Writing, Storing
      <3>5. CASE CarryOn(w)
        <4>1. /\ pc[w] \in {"lookup", "newToken", "scanKeys", "scanRows"}
              /\ UNCHANGED <<todo, cur>>
          BY <3>5 DEF CarryOn, Reliable, locals
        <4>2. pc'[w] = IF pc[w] \in {"lookup", "newToken"} THEN "store" ELSE "setMark"
          BY <3>5, <4>1 DEF CarryOn
        <4> QED
          BY <4>1, <4>2 DEF Held, Replacing, Writing, Storing
      <3> QED
        BY <1>5, <3>1, <3>2, <3>3, <3>4, <3>5
    <2>4. InHands(w)' = InHands(w)
      BY <1>3, <2>3 DEF InHands
    <2> QED
      BY <1>1, <1>2, <1>3, <2>1, <2>2, <2>3, <2>4, StepUnseen
  <1> QED
    BY <1>4, <1>5

\* The delete opens a session: what it deletes is in todo.
LEMMA ReplaceOpens ==
    ASSUME KnowledgeInv, Owned, Apart, [Next]_vars, NEW w \in Worker, Replace(w)
    PROVE  \E s \in Session : Knowledge!Open(s)
  <1> USE DEF KnowledgeInv
  <1>1. PICK s : s = sess[w]
    OBVIOUS
  <1>2. Step(w)
    BY DEF Step
  <1>3. /\ s \in Session /\ pc[w] = "replace" /\ pc'[w] = "next"
        /\ GetSnippetsBySessionID(s)' = {}
        /\ UNCHANGED <<metadata, memories, todo>>
    BY <1>1, ReplaceEffect
  <1>4. Knows(w, s) /\ Owns(w, s)
    BY <1>1, <1>3 DEF Working, Owned
  <1>5. /\ GetSnippetsBySessionID(s) \subseteq todo[w]
        /\ todo[w] \subseteq MemoriesOf(s)
        /\ \E i \in MemoriesOf(s) : i > metadata[s]
    BY <1>3, <1>4 DEF Knows, Owns, Distilling
  <1>6. /\ Known' = [Known EXCEPT ![s] = KnownOf(s)']
        /\ Known[s] = KnownOf(s)
        /\ (s \in Rewritten) <=> pc[w] \in Replacing
        /\ Rewritten' = IF pc'[w] \in Replacing THEN Rewritten \cup {s} ELSE Rewritten \ {s}
    BY <1>1, <1>2, KnownByStep
  <1>7. KnownOf(s) = GetSnippetsBySessionID(s) /\ KnownOf(s)' = todo[w]
    <2>1. /\ KnownOf(s) = GetSnippetsBySessionID(s) \cup InHands(w)
          /\ KnownOf(s)' = GetSnippetsBySessionID(s)' \cup InHands(w)'
      BY <1>1, <1>2, RewriterHere
    <2> QED
      BY <1>3, <2>1 DEF InHands, Held, Replacing, Writing, Storing
  <1>8. s \notin Rewritten /\ Rewritten' = Rewritten \cup {s}
    BY <1>3, <1>6 DEF Replacing, Writing, Storing
  <1>9. Known' = [Known EXCEPT ![s] = @ \cup todo[w]]
    BY <1>5, <1>6, <1>7
  <1>10. Knowledge!Open(s)
    BY <1>3, <1>5, <1>8, <1>9 DEF Knowledge!Open, Knowledge!Fresh, Knowledge!FactsOf, MemoriesOf
  <1> QED
    BY <1>3, <1>10

\* So does the first distillation of a session, which has nothing to delete.
LEMMA DistillOpens ==
    ASSUME KnowledgeInv, Owned, Apart, [Next]_vars,
           NEW w \in Worker, Distill(w), pc'[w] = "next"
    PROVE  \E s \in Session : Knowledge!Open(s)
  <1> USE DEF KnowledgeInv
  <1>1. PICK s : s = sess[w]
    OBVIOUS
  <1>2. Step(w) /\ pc[w] = "distill"
    BY DEF Step, Distill
  <1>3. /\ UNCHANGED <<distillations, metadata, memories>>
        /\ GetSnippetsBySessionID(s)' = GetSnippetsBySessionID(s)
    <2>1. UNCHANGED <<distillations, metadata, memories>>
      BY DEF Distill, storeVars, envVars
    <2> QED
      BY <2>1, SameSnippets
  <1>4. /\ s \in Session
        /\ Known' = [Known EXCEPT ![s] = KnownOf(s)']
        /\ Known[s] = KnownOf(s)
        /\ (s \in Rewritten) <=> pc[w] \in Replacing
        /\ Rewritten' = IF pc'[w] \in Replacing THEN Rewritten \cup {s} ELSE Rewritten \ {s}
    BY <1>1, <1>2, KnownByStep
  <1>5. Knows(w, s) /\ Owns(w, s)
    BY <1>1, <1>4 DEF Working, Owned
  <1>6. /\ todo'[w] \subseteq MemoriesOf(s)
        /\ \E i \in MemoriesOf(s) : i > metadata[s]
    <2>1. todo'[w] \subseteq transcript[w]
      BY DEF Distill, TypeInv, Workers
    <2> QED
      BY <1>2, <1>5, <2>1 DEF Knows, Owns, Distilling
  <1>7. KnownOf(s)' = KnownOf(s) \cup todo'[w]
    <2>1. /\ KnownOf(s) = GetSnippetsBySessionID(s) \cup InHands(w)
          /\ KnownOf(s)' = GetSnippetsBySessionID(s)' \cup InHands(w)'
      BY <1>1, <1>2, RewriterHere
    <2> QED
      BY <1>2, <1>3, <2>1 DEF InHands, Held, Replacing, Writing, Storing
  <1>8. s \notin Rewritten /\ Rewritten' = Rewritten \cup {s}
    BY <1>2, <1>4 DEF Replacing, Writing, Storing
  <1>9. Known' = [Known EXCEPT ![s] = @ \cup todo'[w]]
    BY <1>4, <1>7
  <1>10. Knowledge!Open(s)
    BY <1>3, <1>4, <1>6, <1>8, <1>9 DEF Knowledge!Open, Knowledge!Fresh, Knowledge!FactsOf, MemoriesOf
  <1> QED
    BY <1>4, <1>10

\* The watermark closes it, with everything stored.
LEMMA SetMarkCloses ==
    ASSUME KnowledgeInv, Owned, Apart, [Next]_vars, NEW w \in Worker, SetMark(w)
    PROVE  \E s \in Session : Knowledge!Close(s)
  <1> USE DEF KnowledgeInv
  <1>1. PICK s : s = sess[w]
    OBVIOUS
  <1>2. Step(w)
    BY DEF Step
  <1>3. /\ s \in Session /\ pc[w] = "setMark" /\ pc'[w] = "end"
        /\ UNCHANGED <<memories, distillations>>
    BY <1>1, SetMarkEffect
  <1>4. Knows(w, s) /\ Owns(w, s)
    BY <1>1, <1>3 DEF Working, Owned
  <1>5. /\ wm[w] = metadata[s] /\ todo[w] = {}
        /\ transcript[w] \subseteq MemoriesOf(s)
        /\ \E i \in transcript[w] : i > wm[w]
    BY <1>3, <1>4 DEF Knows, Owns, Replacing, Closing
  <1>6. PICK top \in Last(transcript[w]) : metadata' = [metadata EXCEPT ![s] = top]
    BY <1>1 DEF SetMark, SetMetadata
  <1>7. top \in MemoriesOf(s) /\ top > metadata[s]
    <2>1. top \in transcript[w] /\ \A i \in transcript[w] : i <= top
      BY <1>6 DEF Last
    <2>2. MemoriesOf(s) \subseteq Nat /\ wm[w] \in Nat
      BY DEF MemoriesOf, TypeInv, Workers
    <2>3. PICK i \in transcript[w] : i > wm[w]
      BY <1>5
    <2>4. i \in Nat /\ top \in Nat /\ i <= top
      BY <1>5, <2>1, <2>2
    <2> QED
      BY <1>5, <2>1, <2>2, <2>3, <2>4
  <1>8. /\ Known' = [Known EXCEPT ![s] = KnownOf(s)']
        /\ Known[s] = KnownOf(s)
        /\ (s \in Rewritten) <=> pc[w] \in Replacing
        /\ Rewritten' = IF pc'[w] \in Replacing THEN Rewritten \cup {s} ELSE Rewritten \ {s}
    BY <1>1, <1>2, KnownByStep
  <1>9. KnownOf(s)' = KnownOf(s)
    <2>1. /\ KnownOf(s) = GetSnippetsBySessionID(s) \cup InHands(w)
          /\ KnownOf(s)' = GetSnippetsBySessionID(s)' \cup InHands(w)'
      BY <1>1, <1>2, RewriterHere
    <2>2. GetSnippetsBySessionID(s)' = GetSnippetsBySessionID(s)
      BY <1>3, SameSnippets
    <2>3. InHands(w) = {} /\ InHands(w)' = {}
      BY <1>3, <1>5 DEF InHands, Held, Replacing, Writing, Storing
    <2> QED
      BY <2>1, <2>2, <2>3
  <1>10. Known' = Known
    BY <1>3, <1>8, <1>9 DEF Known
  <1>11. s \in Rewritten /\ Rewritten' = Rewritten \ {s}
    BY <1>3, <1>8 DEF Replacing, Writing, Storing
  <1>12. Knowledge!Close(s)
    BY <1>3, <1>6, <1>7, <1>10, <1>11
       DEF Knowledge!Close, Knowledge!Fresh, Knowledge!FactsOf, MemoriesOf
  <1> QED
    BY <1>3, <1>12

\* What is known of a session are facts of memories.
LEMMA KnownType ==
    ASSUME Owned
    PROVE  Known \in [Session -> SUBSET (1..Len(memories))]
  <1> SUFFICES ASSUME NEW s \in Session PROVE KnownOf(s) \subseteq MemoriesOf(s)
    BY DEF Known, MemoriesOf
  <1>1. ASSUME NEW w \in Rewriters(s)
        PROVE  todo[w] \cup Held(w) \subseteq MemoriesOf(s)
    BY <1>1 DEF Rewriters, Owned, Owns
  <1>2. GetSnippetsBySessionID(s) \subseteq MemoriesOf(s)
    BY DEF Owned
  <1> QED
    BY <1>1, <1>2 DEF KnownOf

\* If the watermark cannot be written, everything is stored and the session is left
\* with its old one.
LEMMA GiveUpBreaks ==
    ASSUME KnowledgeInv, Owned, Apart, [Next]_vars,
           NEW w \in Worker, GiveUp(w), pc[w] = "setMark"
    PROVE  \E S \in SUBSET Session : Knowledge!Break(S)
  <1> USE DEF KnowledgeInv
  <1>1. PICK s : s = sess[w]
    OBVIOUS
  <1>2. Step(w) /\ pc'[w] = "failed" /\ UNCHANGED <<distillations, metadata, memories>>
    BY DEF Step, GiveUp, Goto, TypeInv, Workers, storeVars, envVars
  <1>3. /\ s \in Session
        /\ Known' = [Known EXCEPT ![s] = KnownOf(s)']
        /\ Known[s] = KnownOf(s)
        /\ (s \in Rewritten) <=> pc[w] \in Replacing
        /\ Rewritten' = IF pc'[w] \in Replacing THEN Rewritten \cup {s} ELSE Rewritten \ {s}
    BY <1>1, <1>2, KnownByStep
  <1>4. KnownOf(s)' \subseteq KnownOf(s)
    <2>1. /\ KnownOf(s) = GetSnippetsBySessionID(s) \cup InHands(w)
          /\ KnownOf(s)' = GetSnippetsBySessionID(s)' \cup InHands(w)'
      BY <1>1, <1>2, RewriterHere
    <2>2. GetSnippetsBySessionID(s)' = GetSnippetsBySessionID(s)
      BY <1>2, SameSnippets
    <2>3. InHands(w)' = {}
      BY <1>2 DEF InHands, Replacing, Writing, Storing
    <2> QED
      BY <2>1, <2>2, <2>3
  <1>5. Known \in [Session -> SUBSET (1..Len(memories))]
    BY KnownType
  <1>6. /\ Known' \in [Session -> SUBSET (1..Len(memories))]
        /\ Known'[s] \subseteq Known[s]
        /\ \A t \in Session \ {s} : Known'[t] = Known[t]
    BY <1>3, <1>4, <1>5
  <1>7. s \in Rewritten /\ Rewritten' = Rewritten \ {s}
    BY <1>2, <1>3 DEF Replacing, Writing, Storing
  <1>8. Knowledge!Break({s})
    BY <1>2, <1>3, <1>6, <1>7 DEF Knowledge!Break
  <1> QED
    BY <1>3, <1>8


\* Every step of a worker is one of the abstract knowledge, or none.
LEMMA StepImplements ==
    ASSUME KnowledgeInv, Unforced, Owned, Apart, Reliable({"store"}), [Next]_vars,
           NEW w \in Worker, Step(w)
    PROVE  Knowledge!Next \/ UNCHANGED Knowledge!vars
  <1>1. ~Clear(w) /\ ~ClearMark(w)
    BY DEF Unforced, Clear, ClearMark
  <1>2. CASE ReadMark(w) \/ ReadMemories(w) \/ Merge(w)
    <2>1. pc[w] \in {"readMark", "readMemories", "merge"}
      BY <1>2 DEF ReadMark, ReadMemories, Merge
    <2>2. \E to \in {"readMemories", "end", "distill", "replace"} : Goto(w, to)
      BY <1>2 DEF ReadMark, ReadMemories, Merge
    <2>3. pc'[w] # "next"
      BY <2>2 DEF Goto, KnowledgeInv, TypeInv, Workers
    <2> QED
      BY <1>2, <2>1, <2>3, ReadingUnseen
  <1>3. CASE Distill(w)
    <2>1. pc[w] = "distill"
      BY <1>3 DEF Distill
    <2>2. CASE pc'[w] = "next"
      BY <1>3, <2>2, DistillOpens DEF Knowledge!Next
    <2>3. CASE pc'[w] # "next"
      BY <1>3, <2>1, <2>3, ReadingUnseen
    <2> QED
      BY <2>2, <2>3
  <1>4. CASE Replace(w)
    BY <1>4, ReplaceOpens DEF Knowledge!Next
  <1>5. CASE SetMark(w)
    BY <1>5, SetMarkCloses DEF Knowledge!Next
  <1>6. CASE GiveUp(w)
    <2>1. pc'[w] = "failed"
      BY <1>6 DEF GiveUp, Goto, KnowledgeInv, TypeInv, Workers
    <2>2. CASE pc[w] = "setMark"
      BY <1>6, <2>2, GiveUpBreaks DEF Knowledge!Next
    <2>3. CASE pc[w] # "setMark"
      BY <1>6, <2>1, <2>3, ReadingUnseen
    <2> QED
      BY <2>2, <2>3
  <1>7. CASE \/ NextSnippet(w) \/ LookupToken(w) \/ InsertToken(w) \/ Learn(w) \/ StoreSnippet(w)
             \/ LinkMemory(w) \/ AddLink(w) \/ EndLinks(w)
             \/ ScanKeys(w) \/ ScanRows(w) \/ SwapIndexes(w) \/ CarryOn(w)
    BY <1>7, WritingUnseen
  <1> QED
    BY <1>1, <1>2, <1>3, <1>4, <1>5, <1>6, <1>7 DEF Step

\* When nobody steps, a worker rewrites after it what it rewrote before, and what it
\* has in its hands is the same.
LEMMA RewritersOnlyDie ==
    ASSUME TypeInv, [Next]_vars, \A v \in Worker : ~Step(v), NEW s, NEW v \in Rewriters(s)'
    PROVE  v \in Rewriters(s) /\ todo'[v] = todo[v] /\ Held(v)' = Held(v)
  <1>1. v \in Worker /\ sess'[v] = s /\ pc'[v] \in Replacing
    BY DEF Rewriters
  <1>2. ~Begins(v)
    BY <1>1, BeginsAt DEF Replacing, Writing, Storing
  <1>3. ~Dies(v)
    BY <1>1 DEF Dies, Replacing, Writing, Storing
  <1>4. pc'[v] = pc[v] /\ Keeps(v)
    BY <1>1, <1>2, <1>3, WorkerMoves
  <1> QED
    BY <1>1, <1>4 DEF Rewriters, Keeps, Held

\* The one that rewrites a session and does not any more has died.
LEMMA RewriterGone ==
    ASSUME TypeInv, [Next]_vars, \A v \in Worker : ~Step(v), NEW s, NEW v \in Rewriters(s),
           v \notin Rewriters(s)'
    PROVE  Dies(v)
  <1>1. v \in Worker /\ sess[v] = s /\ pc[v] \in Replacing
    BY DEF Rewriters
  <1>2. ~Begins(v)
    BY <1>1 DEF Begins, Replacing, Writing, Storing
  <1>3. ~(pc'[v] = pc[v] /\ Keeps(v))
    BY <1>1 DEF Rewriters, Keeps
  <1> QED
    BY <1>1, <1>2, <1>3, WorkerMoves

\* What happens around the workers is a memory stored, or the end of calls.
LEMMA OthersImplement ==
    ASSUME KnowledgeInv, Owned, Apart, [Next]_vars, \A v \in Worker : ~Step(v)
    PROVE  Knowledge!Next \/ UNCHANGED Knowledge!vars
  <1>1. TypeInv
    BY DEF KnowledgeInv
  <1>2. UNCHANGED <<distillations, metadata>>
    BY <1>1, KnowledgeChanges DEF Step, knowledgeVars
  <1>3. \A s \in Session : GetSnippetsBySessionID(s)' = GetSnippetsBySessionID(s)
    BY <1>2, SameSnippets
  <1>4. \A s \in Session : Rewriters(s)' \subseteq Rewriters(s)
    BY <1>1, RewritersOnlyDie
  <1>5. \A s \in Session : KnownOf(s)' \subseteq KnownOf(s)
    <2> SUFFICES ASSUME NEW s \in Session, NEW f \in KnownOf(s)', f \notin GetSnippetsBySessionID(s)
                 PROVE  f \in KnownOf(s)
      BY DEF KnownOf
    <2>1. PICK v \in Rewriters(s)' : f \in todo'[v] \cup Held(v)'
      BY <1>3 DEF KnownOf
    <2>2. v \in Rewriters(s) /\ todo'[v] = todo[v] /\ Held(v)' = Held(v)
      BY <1>1, <2>1, RewritersOnlyDie
    <2> QED
      BY <2>1, <2>2 DEF KnownOf
  <1>6. ASSUME NEW s \in Session, s \notin Rewritten \ Rewritten'
        PROVE  KnownOf(s)' = KnownOf(s)
    <2>1. \A u, v \in Rewriters(s) : u = v
      BY DEF Rewriters, Apart, Running, Finished, Replacing, Writing, Storing
    <2>2. Rewriters(s)' = Rewriters(s)
      BY <1>4, <1>6, <2>1 DEF Rewritten
    <2>3. \A v \in Rewriters(s) : todo'[v] = todo[v] /\ Held(v)' = Held(v)
      BY <1>1, <2>2, RewritersOnlyDie
    <2> QED
      BY <1>3, <2>2, <2>3 DEF KnownOf
  <1>7. Rewritten' \subseteq Rewritten
    BY <1>4 DEF Rewritten
  <1>8. CASE Rewritten' = Rewritten
    <2>1. Known' = Known
      BY <1>6, <1>8 DEF Known
    <2>2. CASE UNCHANGED memories
      BY <1>2, <1>8, <2>1, <2>2 DEF Knowledge!vars
    <2>3. CASE \E t \in Session : StoreMemory(t)
      <3>1. PICK t \in Session : StoreMemory(t)
        BY <2>3
      <3>2. Knowledge!Remember(t)
        BY <1>2, <1>8, <2>1, <3>1 DEF StoreMemory, Knowledge!Remember
      <3> QED
        BY <3>2 DEF Knowledge!Next
    <2> QED
      BY <1>1, <2>2, <2>3, MemoriesChange
  <1>9. CASE Rewritten' # Rewritten
    <2>1. PICK S : S = Rewritten \ Rewritten'
      OBVIOUS
    <2>2. S # {} /\ S \subseteq Rewritten /\ S \subseteq Session /\ Rewritten' = Rewritten \ S
      BY <1>7, <1>9, <2>1 DEF Rewritten
    <2>3. UNCHANGED memories
      <3>1. PICK s \in S : Rewriters(s) # {} /\ Rewriters(s)' = {}
        BY <2>1, <2>2 DEF Rewritten
      <3>2. PICK v \in Rewriters(s) : v \notin Rewriters(s)'
        BY <3>1
      <3>3. Crash \/ Kill(v)
        BY <1>1, <3>2, RewriterGone DEF Dies
      <3> QED
        BY <3>3 DEF Crash, Kill, envVars
    <2>4. Known' \in [Session -> SUBSET (1..Len(memories))]
      <3>1. Known \in [Session -> SUBSET (1..Len(memories))]
        BY KnownType
      <3> QED
        BY <1>5, <3>1 DEF Known
    <2>5. \A s \in Session : Known'[s] \subseteq Known[s]
      BY <1>5 DEF Known
    <2>6. \A s \in Session \ S : Known'[s] = Known[s]
      BY <1>6, <2>1 DEF Known
    <2>7. Knowledge!Break(S)
      BY <1>2, <2>2, <2>3, <2>4, <2>5, <2>6 DEF Knowledge!Break
    <2> QED
      BY <2>2, <2>7 DEF Knowledge!Next
  <1> QED
    BY <1>8, <1>9

\* Nothing is remembered or known at first.
LEMMA InitImplements ==
    ASSUME Init
    PROVE  Owned /\ Knowledge!Init
  <1>1. \A w \in Worker : pc[w] = "idle"
    BY DEF Init
  <1>2. \A s \in Session : GetSnippetsBySessionID(s) = {}
    BY DEF Init, InitStore, GetSnippetsBySessionID, OfSession
  <1>3. \A s \in Session : Rewriters(s) = {}
    BY <1>1 DEF Rewriters, Replacing, Writing, Storing
  <1>4. Known = [s \in Session |-> {}] /\ Rewritten = {}
    BY <1>2, <1>3 DEF Known, KnownOf, Rewritten
  <1>5. Owned
    BY <1>1, <1>2 DEF Owned, Owns, Replacing, Writing, Storing, Distilling
  <1> QED
    BY <1>4, <1>5 DEF Init, InitStore, Knowledge!Init

\* The detailed specification implements the abstract one while no session is
\* distilled by two calls at a time, without --force and as long as snippets can be
\* stored: between the delete and the watermark nothing that was known gets lost but
\* with the process, and then the watermark is still below a memory.
THEOREM KnowledgeImplemented ==
    ASSUME NoForce, Reliable({"store"})
    PROVE  Spec /\ []Apart => ImplementsKnowledge
  <1>1. Init => Owned /\ Knowledge!Init
    BY InitImplements
  <1>2. KnowledgeInv /\ Unforced /\ Owned /\ [Next]_vars => Owned'
    BY OwnedStays DEF KnowledgeInv
  <1>3. KnowledgeInv /\ Unforced /\ Owned /\ Apart /\ [Next]_vars
            => [Knowledge!Next]_(Knowledge!vars)
    BY StepImplements, OthersImplement
  <1> QED
    BY <1>1, <1>2, <1>3, KnowledgeInvariant, NobodyForces, PTL
       DEF Spec, ImplementsKnowledge, Knowledge!Spec

\* So does it when the sessions change slower than they are distilled.
THEOREM SerialImplementsKnowledge ==
    ASSUME Serial, NoForce, Reliable({"store"})
    PROVE  Spec => ImplementsKnowledge
  BY KnowledgeImplemented, AloneIsApart, PTL


-----------------------------------------------------------------------------
(* What the abstract specification promises *)

\* Memories are added at the end.
LEMMA FactsGrow ==
    ASSUME Knowledge!Sound, NEW t \in Session, Knowledge!Remember(t)
    PROVE  /\ memories' \in Seq(Session) /\ 1..Len(memories) \subseteq 1..Len(memories')
           /\ \A s : Knowledge!FactsOf(s) \subseteq Knowledge!FactsOf(s)'
           /\ \A s : Knowledge!Fresh(s) \subseteq Knowledge!Fresh(s)'
  <1>1. memories' = Append(memories, t) /\ memories \in Seq(Session) /\ UNCHANGED metadata
    BY DEF Knowledge!Sound, Knowledge!Remember
  <1>2. memories' \in Seq(Session) /\ Len(memories') = Len(memories) + 1 /\ Len(memories) \in Nat
    BY <1>1
  <1>3. \A i \in 1..Len(memories) : memories'[i] = memories[i] /\ i \in 1..Len(memories')
    BY <1>1, <1>2
  <1>4. \A s : Knowledge!FactsOf(s) \subseteq Knowledge!FactsOf(s)'
    BY <1>3 DEF Knowledge!FactsOf
  <1> QED
    BY <1>1, <1>2, <1>3, <1>4 DEF Knowledge!Fresh

\* Every step keeps what is sound, and what it loses it leaves to be distilled again.
LEMMA SoundStays ==
    ASSUME Knowledge!Sound, [Knowledge!Next]_(Knowledge!vars)
    PROVE  Knowledge!Sound' /\ Knowledge!LossIsDue
  <1>1. CASE UNCHANGED Knowledge!vars
    <2>1. /\ UNCHANGED <<memories, metadata, Known, Rewritten>>
          /\ \A s : UNCHANGED <<Knowledge!FactsOf(s), Knowledge!Fresh(s)>>
      BY <1>1 DEF Knowledge!vars, Knowledge!FactsOf, Knowledge!Fresh
    <2> QED
      BY <2>1 DEF Knowledge!Sound, Knowledge!LossIsDue
  <1>2. ASSUME NEW t \in Session, Knowledge!Remember(t)
        PROVE  Knowledge!Sound' /\ Knowledge!LossIsDue
    <2>1. UNCHANGED <<metadata, Known, Rewritten>>
      BY <1>2 DEF Knowledge!Remember
    <2> QED
      BY <1>2, <2>1, FactsGrow DEF Knowledge!Sound, Knowledge!LossIsDue
  <1>3. ASSUME NEW t \in Session, Knowledge!Open(t)
        PROVE  Knowledge!Sound' /\ Knowledge!LossIsDue
    <2>1. /\ UNCHANGED <<memories, metadata>> /\ Rewritten' = Rewritten \cup {t}
          /\ Knowledge!Fresh(t) # {}
          /\ \A s : UNCHANGED <<Knowledge!FactsOf(s), Knowledge!Fresh(s)>>
      BY <1>3 DEF Knowledge!Open, Knowledge!FactsOf, Knowledge!Fresh
    <2>2. PICK facts \in SUBSET Knowledge!FactsOf(t) : Known' = [Known EXCEPT ![t] = @ \cup facts]
      BY <1>3 DEF Knowledge!Open
    <2>3. /\ \A s \in Session : Known[s] \subseteq Known'[s] /\ Known'[s] \subseteq Knowledge!FactsOf(s)
          /\ Known' \in [Session -> SUBSET (1..Len(memories))]
      BY <2>2 DEF Knowledge!Sound, Knowledge!FactsOf
    <2> QED
      BY <2>1, <2>3 DEF Knowledge!Sound, Knowledge!LossIsDue
  <1>4. ASSUME NEW t \in Session, Knowledge!Close(t)
        PROVE  Knowledge!Sound' /\ Knowledge!LossIsDue
    <2>1. /\ UNCHANGED <<memories, Known>> /\ Rewritten' = Rewritten \ {t}
          /\ \A s : UNCHANGED Knowledge!FactsOf(s)
      BY <1>4 DEF Knowledge!Close, Knowledge!FactsOf
    <2>2. PICK top \in Knowledge!Fresh(t) : metadata' = [metadata EXCEPT ![t] = top]
      BY <1>4 DEF Knowledge!Close
    <2>3. metadata' \in [Session -> Nat] /\ \A s \in Session : s # t => metadata'[s] = metadata[s]
      BY <2>2 DEF Knowledge!Sound, Knowledge!Fresh, Knowledge!FactsOf
    <2>4. \A s \in Session : s # t => UNCHANGED Knowledge!Fresh(s)
      BY <2>1, <2>3 DEF Knowledge!Fresh
    <2> QED
      BY <2>1, <2>3, <2>4 DEF Knowledge!Sound, Knowledge!LossIsDue
  <1>5. ASSUME NEW S \in SUBSET Session, Knowledge!Break(S)
        PROVE  Knowledge!Sound' /\ Knowledge!LossIsDue
    <2>1. /\ UNCHANGED <<memories, metadata>> /\ S \subseteq Rewritten /\ Rewritten' = Rewritten \ S
          /\ \A s : UNCHANGED <<Knowledge!FactsOf(s), Knowledge!Fresh(s)>>
      BY <1>5 DEF Knowledge!Break, Knowledge!FactsOf, Knowledge!Fresh
    <2>2. /\ Known' \in [Session -> SUBSET (1..Len(memories))]
          /\ \A s \in Session : Known'[s] \subseteq Known[s] /\ (s \notin S => Known'[s] = Known[s])
      BY <1>5 DEF Knowledge!Break
    <2> QED
      BY <2>1, <2>2 DEF Knowledge!Sound, Knowledge!LossIsDue
  <1> QED
    BY <1>1, <1>2, <1>3, <1>4, <1>5 DEF Knowledge!Next

\* What the abstract specification is worth: what is known of a session are its own
\* facts, and no step loses one without leaving the session due to be distilled
\* again.
THEOREM KnowledgeIsSound ==
    Knowledge!Spec => []Knowledge!Sound /\ [][Knowledge!LossIsDue]_(Knowledge!vars)
  <1>1. Knowledge!Init => Knowledge!Sound
    <2> SUFFICES ASSUME Knowledge!Init PROVE Knowledge!Sound
      OBVIOUS
    <2>1. memories = << >> /\ metadata = [s \in Session |-> 0] /\ Known = [s \in Session |-> {}]
          /\ Rewritten = {}
      BY DEF Knowledge!Init
    <2> QED
      BY <2>1 DEF Knowledge!Sound
  <1>2. Knowledge!Sound /\ [Knowledge!Next]_(Knowledge!vars) => Knowledge!Sound' /\ Knowledge!LossIsDue
    BY SoundStays
  <1> QED
    BY <1>1, <1>2, PTL DEF Knowledge!Spec

\* So while no session is distilled twice at once, no step, a crash in the middle of a
\* replacement included, takes a fact from what is known of a session whose next
\* distillation would not read all its memories again ("no previously captured
\* knowledge is lost", session_distill.go).
THEOREM NoLossWithoutRedo ==
    ASSUME NoForce, Reliable({"store"})
    PROVE  Spec /\ []Apart => [][Knowledge!LossIsDue]_(Knowledge!vars)
  BY KnowledgeImplemented, KnowledgeIsSound, PTL DEF ImplementsKnowledge
===============================================================================
