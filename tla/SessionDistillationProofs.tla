----------------------- MODULE SessionDistillationProofs -----------------------
(***************************************************************************)
(* The watermark of distillOneSession is sound for any number of sessions, *)
(* workers and memories, however they overlap, fail and are killed.        *)
(***************************************************************************)
EXTENDS SessionDistillation, SequenceTheorems, TLAPS

-----------------------------------------------------------------------------
(* The inductive invariant *)

\* The part of the type invariant the argument needs; which sessions workers are
\* given does not matter to it.
MarkTypes ==
    /\ memories \in Seq(Session)
    /\ metadata \in [Session -> Nat]
    /\ told \in [Session -> SUBSET Nat]
    /\ transcript \in [Worker -> SUBSET Nat]
    /\ sess = [w \in Worker |-> sess[w]]
    /\ pc \in [Worker -> Steps]

\* No watermark and no transcript is ahead of the store.
Bounded ==
    /\ \A s \in Session : metadata[s] <= Len(memories)
    /\ \A w \in Worker : \A i \in transcript[w] : i <= Len(memories)

\* What a worker has read of its session has no gap: ids are given in the order
\* rows appear, so a memory it missed is above all it read.
NoGap ==
    \A w \in Worker : \A i \in transcript[w] : \A j \in MemoriesOf(sess[w]) :
        j <= i => j \in transcript[w]

MarkInv == MarkTypes /\ Bounded /\ NoGap /\ WatermarkSound

-----------------------------------------------------------------------------
(* Steps *)

\* What most steps keep: the memories, the watermarks and the transcripts.
markVars == <<memories, metadata, told, transcript, sess>>

\* A step that keeps them keeps the invariant.
LEMMA Frame ==
    ASSUME MarkInv, UNCHANGED markVars, pc' \in [Worker -> Steps]
    PROVE  MarkInv'
  BY DEF MarkInv, MarkTypes, Bounded, NoGap, WatermarkSound, MemoriesOf, markVars

\* The same for a step of one worker.
LEMMA GotoFrame ==
    ASSUME MarkInv, UNCHANGED markVars, NEW w \in Worker, NEW to \in Steps, Goto(w, to)
    PROVE  MarkInv'
  <1>1. pc \in [Worker -> Steps]
    BY DEF MarkInv, MarkTypes
  <1>2. pc' = [pc EXCEPT ![w] = to]
    BY DEF Goto
  <1>3. pc' \in [Worker -> Steps]
    BY <1>1, <1>2
  <1> QED
    BY <1>3, Frame

\* Nothing is stored and nobody called when the program starts.
LEMMA InitMarkInv == Init => MarkInv
  <1> SUFFICES ASSUME Init PROVE MarkInv
    OBVIOUS
  <1>1. memories = << >> /\ Len(memories) = 0
    BY DEF Init
  <1>2. MarkTypes
    <2>1. memories \in Seq(Session)
      BY <1>1
    <2>2. metadata \in [Session -> Nat] /\ told \in [Session -> SUBSET Nat]
      BY DEF Init, InitStore
    <2>3. transcript \in [Worker -> SUBSET Nat]
      BY DEF Init
    <2>4. sess = [w \in Worker |-> sess[w]]
      BY DEF Init
    <2>5. pc \in [Worker -> Steps]
      BY DEF Init, Steps, Finished
    <2> QED
      BY <2>1, <2>2, <2>3, <2>4, <2>5 DEF MarkTypes
  <1> QED
    BY <1>1, <1>2 DEF Init, InitStore, MarkInv, Bounded, NoGap, WatermarkSound, MemoriesOf

\* A call of distillOneSession begins with nothing read.
LEMMA SpawnMarkInv ==
    ASSUME MarkInv, UNCHANGED <<memories, metadata, told>>,
           NEW w \in Worker, NEW s, Spawn(w, s)
    PROVE  MarkInv'
  <1>1. transcript' = [transcript EXCEPT ![w] = {}]
    BY DEF Spawn
  <1>2. sess' = [sess EXCEPT ![w] = s] /\ sess' = [v \in Worker |-> sess'[v]]
    BY DEF Spawn, MarkInv, MarkTypes
  <1>3. PICK to \in {"clear", "readMark"} : pc' = [pc EXCEPT ![w] = to]
    <2>1. CASE Kind[w] = "force"
      BY <2>1 DEF Spawn, Goto
    <2>2. CASE Kind[w] # "force"
      BY <2>2 DEF Spawn, Goto
    <2> QED
      BY <2>1, <2>2
  <1>4. pc' \in [Worker -> Steps] /\ transcript' \in [Worker -> SUBSET Nat]
    BY <1>1, <1>3 DEF MarkInv, MarkTypes, Steps, Finished
  <1>5. MarkTypes' /\ Bounded' /\ WatermarkSound'
    BY <1>1, <1>2, <1>4 DEF MarkInv, MarkTypes, Bounded, WatermarkSound, MemoriesOf
  <1>6. NoGap'
    <2> SUFFICES ASSUME NEW v \in Worker, NEW i \in transcript'[v],
                        NEW j \in MemoriesOf(sess'[v]), j <= i
                 PROVE  j \in transcript'[v]
      BY DEF NoGap, MemoriesOf
    <2>1. v # w
      BY <1>1 DEF MarkInv, MarkTypes
    <2>2. sess'[v] = sess[v] /\ transcript'[v] = transcript[v]
      BY <1>1, <1>2, <2>1 DEF MarkInv, MarkTypes
    <2> QED
      BY <2>2 DEF MarkInv, NoGap
  <1> QED
    BY <1>5, <1>6 DEF MarkInv

\* A stored memory is above every watermark and every transcript.
LEMMA StoreMemoryMarkInv ==
    ASSUME MarkInv, NEW s \in Session, StoreMemory(s)
    PROVE  MarkInv'
  <1>1. /\ memories \in Seq(Session) /\ memories' = Append(memories, s)
        /\ UNCHANGED <<metadata, told, transcript, sess, pc>>
    BY DEF StoreMemory, MarkInv, MarkTypes, storeVars, locals, history
  <1>2. /\ memories' \in Seq(Session) /\ Len(memories') = Len(memories) + 1
        /\ \A i \in 1..Len(memories) : memories'[i] = memories[i]
        /\ Len(memories) \in Nat
    BY <1>1
  <1>3. MarkTypes' /\ Bounded'
    BY <1>1, <1>2 DEF MarkInv, MarkTypes, Bounded
  <1>4. ASSUME NEW t, NEW j \in MemoriesOf(t)', j <= Len(memories)
        PROVE  j \in MemoriesOf(t)
    BY <1>2, <1>4 DEF MemoriesOf
  <1>5. NoGap'
    <2> SUFFICES ASSUME NEW v \in Worker, NEW i \in transcript[v],
                        NEW j \in MemoriesOf(sess[v])', j <= i
                 PROVE  j \in transcript[v]
      BY <1>1 DEF NoGap, MemoriesOf
    <2>1. PICK t : t = sess[v] /\ sess'[v] = t
      BY <1>1
    <2>2. i \in Nat /\ i <= Len(memories) /\ j \in Nat /\ j \in MemoriesOf(t)'
      BY <1>2, <2>1 DEF MarkInv, MarkTypes, Bounded, MemoriesOf
    <2>3. j <= Len(memories)
      BY <1>2, <2>2
    <2> QED
      BY <1>4, <2>1, <2>2, <2>3 DEF MarkInv, NoGap
  <1>6. WatermarkSound'
    <2> SUFFICES ASSUME NEW t \in Session, NEW j \in MemoriesOf(t)', j <= metadata[t]
                 PROVE  j \in told[t]
      BY <1>1 DEF WatermarkSound, MemoriesOf
    <2>1. metadata[t] \in Nat /\ metadata[t] <= Len(memories) /\ j \in Nat
      BY <1>2 DEF MarkInv, MarkTypes, Bounded, MemoriesOf
    <2>2. j <= Len(memories)
      BY <1>2, <2>1
    <2> QED
      BY <1>4, <2>2 DEF MarkInv, WatermarkSound
  <1> QED
    BY <1>3, <1>5, <1>6 DEF MarkInv

\* Clearing the watermark of a forced distillation takes back what it claimed.
LEMMA ClearMarkMarkInv ==
    ASSUME MarkInv, NEW w \in Worker, ClearMark(w)
    PROVE  MarkInv'
  <1>1. /\ metadata' = [metadata EXCEPT ![sess[w]] = 0]
        /\ UNCHANGED <<memories, told, transcript, sess>>
        /\ pc' = [pc EXCEPT ![w] = "readMark"]
    BY DEF ClearMark, SetMetadata, Goto, envVars, locals, history
  <1>2. Len(memories) \in Nat
    BY DEF MarkInv, MarkTypes
  <1>3. MarkTypes'
    <2>1. metadata' \in [Session -> Nat] /\ pc' \in [Worker -> Steps]
      BY <1>1 DEF MarkInv, MarkTypes, Steps, Finished
    <2> QED
      BY <1>1, <2>1 DEF MarkInv, MarkTypes
  <1>6. Bounded'
    BY <1>1, <1>2 DEF MarkInv, MarkTypes, Bounded
  <1>4. NoGap'
    BY <1>1 DEF MarkInv, MarkTypes, NoGap, MemoriesOf
  <1>5. WatermarkSound'
    <2> SUFFICES ASSUME NEW t \in Session, NEW i \in MemoriesOf(t), i <= metadata'[t]
                 PROVE  i \in told[t]
      BY <1>1 DEF WatermarkSound, MemoriesOf
    <2>1. metadata'[t] = metadata[t] \/ metadata'[t] = 0
      BY <1>1 DEF MarkInv, MarkTypes, Steps, Finished
    <2>2. i >= 1
      BY DEF MemoriesOf
    <2> QED
      BY <2>1, <2>2 DEF MarkInv, WatermarkSound, MemoriesOf
  <1> QED
    BY <1>3, <1>4, <1>5, <1>6 DEF MarkInv

\* A transcript is everything its session has at that moment.
LEMMA ReadMemoriesMarkInv ==
    ASSUME MarkInv, NEW w \in Worker, ReadMemories(w)
    PROVE  MarkInv'
  <1>1. UNCHANGED <<memories, metadata, told, sess>> /\ pc[w] = "readMemories"
    BY DEF ReadMemories, storeVars, envVars, history
  <1>2. CASE \A i \in MemoriesOf(sess[w]) : i <= wm[w]
    <2>1. Goto(w, "end") /\ UNCHANGED transcript
      BY <1>2 DEF ReadMemories
    <2>2. UNCHANGED markVars
      BY <1>1, <2>1 DEF markVars
    <2> QED
      BY <2>1, <2>2, GotoFrame DEF Steps, Finished
  <1>3. CASE ~ \A i \in MemoriesOf(sess[w]) : i <= wm[w]
    <2>1. /\ transcript' = [transcript EXCEPT ![w] = MemoriesOf(sess[w])]
          /\ pc' = [pc EXCEPT ![w] = "distill"]
      BY <1>3 DEF ReadMemories, Goto
    <2>2. /\ MemoriesOf(sess[w]) \in SUBSET Nat
          /\ \A i \in MemoriesOf(sess[w]) : i <= Len(memories)
      BY DEF MemoriesOf, MarkInv, MarkTypes
    <2>3. MarkTypes'
      <3>1. transcript' \in [Worker -> SUBSET Nat] /\ pc' \in [Worker -> Steps]
        BY <2>1, <2>2 DEF MarkInv, MarkTypes, Steps, Finished
      <3> QED
        BY <1>1, <3>1 DEF MarkInv, MarkTypes
    <2>6. Bounded'
      BY <1>1, <2>1, <2>2 DEF MarkInv, MarkTypes, Bounded
    <2>5. WatermarkSound'
      BY <1>1, <2>1 DEF MarkInv, MarkTypes, WatermarkSound, MemoriesOf
    <2>4. NoGap'
      <3> SUFFICES ASSUME NEW v \in Worker, NEW i \in transcript'[v],
                          NEW j \in MemoriesOf(sess[v]), j <= i
                   PROVE  j \in transcript'[v]
        BY <1>1 DEF NoGap, MemoriesOf
      <3>1. CASE v = w
        BY <2>1, <3>1 DEF MarkInv, MarkTypes
      <3>2. CASE v # w
        BY <2>1, <3>2 DEF MarkInv, MarkTypes, NoGap
      <3> QED
        BY <3>1, <3>2
    <2> QED
      BY <2>3, <2>4, <2>5, <2>6 DEF MarkInv
  <1> QED
    BY <1>2, <1>3

\* The watermark written is the last of a transcript that has no gap.
LEMMA SetMarkMarkInv ==
    ASSUME MarkInv, NEW w \in Worker, SetMark(w)
    PROVE  MarkInv'
  <1>1. PICK top \in Last(transcript[w]) : metadata' = [metadata EXCEPT ![sess[w]] = top]
    BY DEF SetMark, SetMetadata
  <1>2. top \in transcript[w] /\ \A i \in transcript[w] : i <= top
    BY <1>1 DEF Last
  <1>3. /\ UNCHANGED <<memories, sess>>
        /\ told' = [told EXCEPT ![sess[w]] = @ \cup transcript[w]]
        /\ transcript' = [transcript EXCEPT ![w] = {}]
        /\ pc' = [pc EXCEPT ![w] = "end"]
    BY DEF SetMark, Goto, envVars
  <1>4. transcript[w] \subseteq Nat /\ top \in Nat /\ top <= Len(memories)
    BY <1>2 DEF MarkInv, MarkTypes, Bounded
  <1>5. MarkTypes'
    <2>1. metadata' \in [Session -> Nat] /\ told' \in [Session -> SUBSET Nat]
      BY <1>1, <1>3, <1>4 DEF MarkInv, MarkTypes
    <2>2. transcript' \in [Worker -> SUBSET Nat] /\ pc' \in [Worker -> Steps]
      BY <1>3 DEF MarkInv, MarkTypes, Steps, Finished
    <2> QED
      BY <1>3, <2>1, <2>2 DEF MarkInv, MarkTypes
  <1>8. Bounded'
    BY <1>1, <1>3, <1>4 DEF MarkInv, MarkTypes, Bounded
  <1>6. NoGap'
    BY <1>3 DEF MarkInv, MarkTypes, NoGap, MemoriesOf
  <1>7. WatermarkSound'
    <2> SUFFICES ASSUME NEW t \in Session, NEW i \in MemoriesOf(t), i <= metadata'[t]
                 PROVE  i \in told'[t]
      BY <1>3 DEF WatermarkSound, MemoriesOf
    <2>1. CASE t = sess[w]
      <3>1. metadata'[t] = top /\ told'[t] = told[t] \cup transcript[w]
        BY <1>1, <1>3, <2>1 DEF MarkInv, MarkTypes
      <3> QED
        BY <1>2, <2>1, <3>1 DEF MarkInv, NoGap
    <2>2. CASE t # sess[w]
      BY <1>1, <1>3, <2>2 DEF MarkInv, MarkTypes, WatermarkSound
    <2> QED
      BY <2>1, <2>2
  <1> QED
    BY <1>5, <1>6, <1>7, <1>8 DEF MarkInv

\* Every other step of a worker moves it along and keeps what the invariant is about.
LEMMA OtherStepMarkInv ==
    ASSUME MarkInv, NEW w \in Worker, Step(w),
           ~ClearMark(w), ~ReadMemories(w), ~SetMark(w)
    PROVE  MarkInv'
  <1>1. \/ Clear(w) \/ ReadMark(w) \/ Distill(w) \/ Merge(w) \/ Replace(w)
        \/ NextSnippet(w) \/ LookupToken(w) \/ InsertToken(w) \/ Learn(w) \/ StoreSnippet(w)
        \/ LinkMemory(w) \/ AddLink(w) \/ EndLinks(w) \/ ScanKeys(w) \/ ScanRows(w) \/ SwapIndexes(w)
        \/ GiveUp(w) \/ CarryOn(w)
    BY DEF Step
  <1>2. UNCHANGED markVars
    <2>1. CASE Clear(w) \/ Replace(w)
      BY <2>1 DEF Clear, Replace, DeleteDistillationsBySessionID, markVars, envVars, locals
    <2>2. CASE StoreSnippet(w)
      BY <2>2 DEF StoreSnippet, InsertDistillation, markVars, envVars
    <2>3. CASE ReadMark(w) \/ Distill(w) \/ Merge(w) \/ NextSnippet(w) \/ LookupToken(w)
      BY <2>3 DEF ReadMark, Distill, Merge, NextSnippet, LookupToken,
                  markVars, storeVars, envVars, history
    <2>4. CASE InsertToken(w) \/ Learn(w) \/ LinkMemory(w) \/ AddLink(w) \/ EndLinks(w)
      BY <2>4 DEF InsertToken, Learn, LinkMemory, AddLink, EndLinks,
                  markVars, storeVars, envVars, locals, history
    <2>5. CASE ScanKeys(w) \/ ScanRows(w) \/ SwapIndexes(w)
      BY <2>5 DEF ScanKeys, ScanRows, SwapIndexes, markVars, storeVars, envVars, history
    <2>6. CASE GiveUp(w) \/ CarryOn(w)
      BY <2>6 DEF GiveUp, CarryOn, markVars, storeVars, envVars, locals, history
    <2> QED
      BY <1>1, <2>1, <2>2, <2>3, <2>4, <2>5, <2>6
  <1>3. \E to \in Steps : Goto(w, to)
    <2> USE DEF Steps, Finished
    <2>1. CASE Clear(w) \/ ReadMark(w) \/ Merge(w) \/ Replace(w) \/ Learn(w) \/ StoreSnippet(w)
      BY <2>1 DEF Clear, ReadMark, Merge, Replace, Learn, StoreSnippet
    <2>2. CASE Distill(w)
      BY <2>2 DEF Distill
    <2>3. CASE NextSnippet(w)
      BY <2>3 DEF NextSnippet
    <2>4. CASE LookupToken(w)
      BY <2>4 DEF LookupToken
    <2>5. CASE InsertToken(w)
      BY <2>5 DEF InsertToken
    <2>6. CASE LinkMemory(w) \/ AddLink(w) \/ EndLinks(w)
      <3>1. CASE LinkMemory(w)
        BY <3>1 DEF LinkMemory
      <3>2. CASE AddLink(w) \/ EndLinks(w)
        BY <3>2 DEF AddLink, EndLinks
      <3> QED
        BY <2>6, <3>1, <3>2
    <2>7. CASE ScanKeys(w) \/ ScanRows(w) \/ SwapIndexes(w) \/ GiveUp(w)
      BY <2>7 DEF ScanKeys, ScanRows, SwapIndexes, GiveUp
    <2>8. CASE CarryOn(w)
      BY <2>8 DEF CarryOn
    <2> QED
      BY <1>1, <2>1, <2>2, <2>3, <2>4, <2>5, <2>6, <2>7, <2>8
  <1> QED
    BY <1>2, <1>3, GotoFrame

\* Starting, dying, and failing requests touch no watermark; a killed worker has ended.
LEMMA ProcessMarkInv ==
    ASSUME MarkInv,
           \/ Start \/ Crash \/ Exit
           \/ \E p \in Proc : Interrupt(p)
           \/ \E s \in Session : RequestFails(s)
           \/ \E w \in Worker : Kill(w)
    PROVE  MarkInv'
  <1>1. CASE Start
    <2>1. UNCHANGED markVars /\ UNCHANGED pc
      BY <1>1 DEF Start, markVars, storeVars, locals, history
    <2> QED
      BY <2>1, Frame DEF MarkInv, MarkTypes
  <1>2. CASE Crash
    <2>1. UNCHANGED markVars
      BY <1>2 DEF Crash, markVars, storeVars, locals, history
    <2>2. pc' = [w \in Worker |-> IF Kind[w] = "auto" /\ Running(w) THEN "killed" ELSE pc[w]]
      BY <1>2 DEF Crash
    <2>3. pc' \in [Worker -> Steps]
      BY <2>2 DEF MarkInv, MarkTypes, Steps, Finished
    <2> QED
      BY <2>1, <2>3, Frame
  <1>3. CASE \E s \in Session : RequestFails(s)
    <2>1. UNCHANGED markVars /\ UNCHANGED pc
      BY <1>3 DEF RequestFails, markVars, storeVars, locals, history
    <2> QED
      BY <2>1, Frame DEF MarkInv, MarkTypes
  <1>4. CASE \E w \in Worker : Kill(w)
    <2>1. PICK w \in Worker : Kill(w)
      BY <1>4
    <2>2. UNCHANGED markVars /\ Goto(w, "killed")
      BY <2>1 DEF Kill, markVars, storeVars, envVars, locals, history
    <2> QED
      BY <2>2, GotoFrame DEF Steps, Finished
  <1>5. CASE Exit \/ \E p \in Proc : Interrupt(p)
    <2>1. UNCHANGED markVars /\ UNCHANGED pc
      BY <1>5 DEF Exit, Interrupt, markVars, storeVars, locals, history
    <2> QED
      BY <2>1, Frame DEF MarkInv, MarkTypes
  <1> QED
    BY <1>1, <1>2, <1>3, <1>4, <1>5

\* A request that changes the session, or a command line pass, starts a call.
LEMMA BeginMarkInv ==
    ASSUME MarkInv,
           \/ \E s \in Session : Arrive(s)
           \/ \E w \in Worker : RunPass(w) \/ NextSession(w)
    PROVE  MarkInv'
  <1>1. CASE \E s \in Session : Arrive(s)
    <2>1. UNCHANGED <<memories, metadata, told>>
      BY <1>1 DEF Arrive, storeVars, history
    <2>2. CASE UNCHANGED <<pc, locals>>
      <3>1. UNCHANGED markVars /\ UNCHANGED pc
        BY <2>1, <2>2 DEF markVars, locals
      <3> QED
        BY <3>1, Frame DEF MarkInv, MarkTypes
    <2>3. CASE \E w \in Worker : Spawn(w, active)
      BY <2>1, <2>3, SpawnMarkInv
    <2> QED
      BY <1>1, <2>2, <2>3 DEF Arrive
  <1>2. CASE \E w \in Worker : RunPass(w) \/ NextSession(w)
    <2>1. PICK w \in Worker : \E s : Spawn(w, s)
      BY <1>2 DEF RunPass, NextSession
    <2>2. UNCHANGED <<memories, metadata, told>>
      BY <1>2 DEF RunPass, NextSession, storeVars, history
    <2> QED
      BY <2>1, <2>2, SpawnMarkInv
  <1> QED
    BY <1>1, <1>2

\* Every step, and a stuttering one, keeps the invariant.
LEMMA NextMarkInv ==
    ASSUME MarkInv, [Next]_vars
    PROVE  MarkInv'
  <1>1. CASE Start \/ Crash \/ Exit \/ \E p \in Proc : Interrupt(p)
    BY <1>1, ProcessMarkInv
  <1>2. CASE \E s \in Session : Arrive(s) \/ StoreMemory(s) \/ RequestFails(s)
    BY <1>2, BeginMarkInv, StoreMemoryMarkInv, ProcessMarkInv
  <1>3. CASE \E w \in Worker : RunPass(w) \/ NextSession(w) \/ Kill(w)
    BY <1>3, BeginMarkInv, ProcessMarkInv
  <1>4. CASE \E w \in Worker : Step(w)
    BY <1>4, ClearMarkMarkInv, ReadMemoriesMarkInv, SetMarkMarkInv, OtherStepMarkInv
  <1>5. CASE UNCHANGED vars
    <2>1. UNCHANGED markVars /\ UNCHANGED pc
      BY <1>5 DEF vars, markVars, storeVars, envVars, locals, history
    <2> QED
      BY <2>1, Frame DEF MarkInv, MarkTypes
  <1> QED
    BY <1>1, <1>2, <1>3, <1>4, <1>5 DEF Next

-----------------------------------------------------------------------------
(* The theorem *)

\* "Watermark is the max memory ID included in the last distillation"
\* (session_distill.go): a memory at or below the watermark of its session was in
\* a completed transcript of it, for any sessions, workers and memories, and
\* however their steps, failures and crashes are ordered.
THEOREM WatermarkIsSound == Spec => []WatermarkSound
  <1>1. Init => MarkInv
    BY InitMarkInv
  <1>2. MarkInv /\ [Next]_vars => MarkInv'
    BY NextMarkInv
  <1>3. MarkInv => WatermarkSound
    BY DEF MarkInv
  <1> QED
    BY <1>1, <1>2, <1>3, PTL DEF Spec
==============================================================================
