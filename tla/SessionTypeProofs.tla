-------------------------- MODULE SessionTypeProofs --------------------------
(***************************************************************************)
(* The state of SessionDistillation is well typed for any sessions,        *)
(* workers, memories and entities: what is read, carried and stored names  *)
(* memories, tokens and rows that exist.                                   *)
(***************************************************************************)
EXTENDS SessionDistillation, SequenceTheorems, FiniteSetTheorems, TLAPS

-----------------------------------------------------------------------------
(* The inductive invariant: the type invariant by parts, strengthened *)

\* Memories, tokens, links, watermarks and the history of sessions.
Tables ==
    /\ memories \in Seq(Session)
    /\ tokens \subseteq Token
    /\ links \subseteq Token \X (1..Len(memories))
    /\ linkIndex \subseteq links
    /\ metadata \in [Session -> 0..Len(memories)]
    /\ captured \in [Session -> SUBSET (1..Len(memories))]
    /\ replacing \subseteq Session
    /\ told \in [Session -> SUBSET (1..Len(memories))]

\* Distillations and what has been read of them; ids grow.
Rows ==
    /\ distillations \subseteq Distillation
    /\ semkeys \subseteq Key \X (1..nextID - 1)
    /\ nextID \in Nat \ {0}
    /\ RetrieverTypeOK
    /\ \A d \in distillations : d.id < nextID /\ d.snippet \in 1..Len(memories)
    /\ scan \in [Worker -> [keys : SUBSET (Key \X (1..nextID - 1)),
                            rows : SUBSET (Token \X (1..nextID - 1))]]

\* The serving process; there is room for the memory of every request received.
Requests ==
    /\ up \in BOOLEAN /\ stopping \subseteq Proc
    /\ active \in Session \cup {NoSession}
    /\ inflight \in [Session -> 0..MaxMemories]
    /\ IsFiniteSet(Pending)
    /\ Len(memories) + Cardinality(Pending) <= MaxMemories

\* Workers; one that is running has a session, one that stores a snippet has one.
Workers ==
    /\ matcher \in [Proc -> SUBSET tokens]
    /\ pc \in [Worker -> Steps]
    /\ sess \in [Worker -> Session \cup {NoSession}]
    /\ wm \in [Worker -> 0..Len(memories)]
    /\ transcript \in [Worker -> SUBSET (1..Len(memories))]
    /\ todo \in [Worker -> SUBSET (1..Len(memories))]
    /\ cur \in [Worker -> [snippet : 0..Len(memories), tokens : SUBSET tokens]]
    /\ \A w \in Worker : Running(w) => sess[w] \in Session
    /\ \A w \in Worker : pc[w] \in Storing => cur[w].snippet # 0

\* A link is stored before it is indexed.
Linking ==
    \A w \in Worker : pc[w] = "addLink" => cur[w].tokens \X {cur[w].snippet} \subseteq links

\* The sessions passes have read are sessions with memories.
Passes ==
    /\ queue \in [Worker -> SUBSET Session]
    /\ \A w \in Worker : \A s \in queue[w] : MemoriesOf(s) # {}

TypeInv == Tables /\ Rows /\ Requests /\ Workers /\ Linking /\ Passes

\* The parts make up the type invariant.
LEMMA TypeInvImplies == TypeInv => TypeOK
  <1> SUFFICES ASSUME TypeInv PROVE TypeOK
    OBVIOUS
  <1>1. Len(memories) \in Nat
    BY DEF TypeInv, Tables
  <1>2. StoreTypeOK /\ RetrieverTypeOK
    BY <1>1 DEF TypeInv, Tables, Rows, StoreTypeOK
  <1>3. inflight \in [Session -> Nat]
    BY SnippetAssumption DEF TypeInv, Requests
  <1> QED
    BY <1>2, <1>3 DEF TypeInv, Tables, Rows, Requests, Workers, Passes, TypeOK

-----------------------------------------------------------------------------
(* Facts *)

\* No more memories than snippets there are.
LEMMA Bounds ==
    ASSUME TypeInv
    PROVE  /\ Len(memories) \in Nat /\ MaxMemories \in Nat /\ Len(memories) <= MaxMemories
           /\ Cardinality(Pending) \in Nat
           /\ 1..Len(memories) \subseteq Snippet
  <1>1. Len(memories) \in Nat /\ MaxMemories \in Nat
    BY SnippetAssumption DEF TypeInv, Tables
  <1>2. Cardinality(Pending) \in Nat
    BY FS_CardinalityType DEF TypeInv, Requests
  <1> QED
    BY <1>1, <1>2, SnippetAssumption DEF TypeInv, Requests

\* The entity of a fact and the keys of a snippet.
LEMMA SnippetType ==
    ASSUME NEW i \in Snippet
    PROVE  TokenOf(i) \subseteq Token /\ SnippetKeys[i] \subseteq Key
  BY SnippetAssumption DEF TokenOf

\* A worker belongs to a process.
LEMMA ProcOfType ==
    ASSUME NEW w \in Worker
    PROVE  ProcOf(w) \in Proc
  BY DEF ProcOf, Proc

\* The memories of a session are memories.
LEMMA MemoriesExist ==
    ASSUME NEW s
    PROVE  MemoriesOf(s) \subseteq 1..Len(memories)
  BY DEF MemoriesOf

\* Snippets of stored rows are memories.
LEMMA StoredSnippets ==
    ASSUME Rows, NEW s
    PROVE  GetSnippetsBySessionID(s) \subseteq 1..Len(memories)
  BY DEF Rows, GetSnippetsBySessionID, OfSession

\* The rows Rebuild scans name stored distillations.
LEMMA TokenRowsType ==
    ASSUME Rows
    PROVE  TokenRows \subseteq Token \X (1..nextID - 1)
  <1>1. \A d \in distillations : d.id \in 1..nextID - 1
    BY DEF Rows, Distillation
  <1> QED
    BY <1>1 DEF TokenRows, LiveIDs

\* A stored memory takes the place of its request.
LEMMA StoreMemoryEffect ==
    ASSUME TypeInv, NEW s \in Session, StoreMemory(s)
    PROVE  /\ memories' = Append(memories, s) /\ memories' \in Seq(Session)
           /\ Len(memories') = Len(memories) + 1
           /\ Len(memories) \in Nat /\ 1..Len(memories) \subseteq 1..Len(memories')
  BY DEF StoreMemory, TypeInv, Tables

-----------------------------------------------------------------------------
(* The initial states *)

\* Nothing is stored and nobody called when the program starts.
LEMMA InitTypeInv == Init => TypeInv
  <1> SUFFICES ASSUME Init PROVE TypeInv
    OBVIOUS
  <1>1. memories = << >> /\ Len(memories) = 0
    BY DEF Init
  <1>2. Tables
    BY <1>1 DEF Init, InitStore, Tables
  <1>3. Rows
    BY <1>1 DEF Init, InitStore, InitRetriever, Rows, RetrieverTypeOK, Blank
  <1>4. Requests
    <2>1. inflight = [s \in Session |-> 0] /\ MaxMemories \in Nat
      BY SnippetAssumption DEF Init
    <2>2. Pending = {}
      BY <2>1 DEF Pending
    <2>3. IsFiniteSet(Pending) /\ Cardinality(Pending) = 0
      BY <2>2, FS_EmptySet
    <2>4. inflight \in [Session -> 0..MaxMemories]
      BY <2>1
    <2>5. Len(memories) + Cardinality(Pending) <= MaxMemories
      BY <1>1, <2>1, <2>3
    <2> QED
      BY <2>3, <2>4, <2>5 DEF Init, Requests
  <1>5. Workers
    <2>1. pc = [w \in Worker |-> "idle"] /\ \A w \in Worker : ~Running(w) /\ pc[w] \notin Storing
      BY DEF Init, Running, Finished, Storing
    <2>2. matcher \in [Proc -> SUBSET tokens] /\ pc \in [Worker -> Steps]
      BY DEF Init, Steps, Finished
    <2>3. /\ sess \in [Worker -> Session \cup {NoSession}] /\ wm \in [Worker -> 0..Len(memories)]
          /\ transcript \in [Worker -> SUBSET (1..Len(memories))]
          /\ todo \in [Worker -> SUBSET (1..Len(memories))]
      BY <1>1 DEF Init
    <2>4. cur \in [Worker -> [snippet : 0..Len(memories), tokens : SUBSET tokens]]
      <3>1. Idle \in [snippet : 0..Len(memories), tokens : SUBSET tokens]
        BY <1>1 DEF Idle
      <3> QED
        BY <3>1 DEF Init
    <2> QED
      BY <2>1, <2>2, <2>3, <2>4 DEF Workers
  <1>6. Linking /\ Passes
    BY DEF Init, Linking, Passes
  <1> QED
    BY <1>2, <1>3, <1>4, <1>5, <1>6 DEF TypeInv

-----------------------------------------------------------------------------
(* Tables *)

tableVars == <<memories, tokens, links, linkIndex, metadata, captured, replacing, told>>

\* The steps of workers that change what is stored of a session.
LEMMA SessionTables ==
    ASSUME TypeInv, NEW w \in Worker,
           Clear(w) \/ ClearMark(w) \/ Replace(w) \/ StoreSnippet(w) \/ SetMark(w)
    PROVE  Tables'
  <1>1. /\ UNCHANGED <<memories, tokens, links, linkIndex>>
        /\ Running(w) /\ sess[w] \in Session
    BY DEF Clear, ClearMark, Replace, StoreSnippet, SetMark, envVars, Running, Finished,
           TypeInv, Workers
  <1>2. Len(memories) \in Nat
    BY Bounds
  <1>3. CASE Clear(w)
    BY <1>1, <1>3 DEF Clear, DeleteDistillationsBySessionID, TypeInv, Tables
  <1>4. CASE ClearMark(w)
    BY <1>1, <1>2, <1>4 DEF ClearMark, SetMetadata, history, TypeInv, Tables
  <1>5. CASE Replace(w)
    <2>1. /\ UNCHANGED <<metadata, told>>
          /\ replacing' = replacing \cup {sess[w]}
          /\ captured' = [captured EXCEPT ![sess[w]] =
                 IF sess[w] \in replacing THEN @ \cap GetSnippetsBySessionID(sess[w]) ELSE @]
      BY <1>5 DEF Replace, DeleteDistillationsBySessionID
    <2>2. captured' \in [Session -> SUBSET (1..Len(memories))]
      BY <1>1, <2>1 DEF TypeInv, Tables
    <2> QED
      BY <1>1, <2>1, <2>2 DEF TypeInv, Tables
  <1>6. CASE StoreSnippet(w)
    <2>1. /\ UNCHANGED <<metadata, replacing, told>>
          /\ captured' = [captured EXCEPT ![sess[w]] = @ \cup {cur[w].snippet}]
          /\ pc[w] \in Storing
      BY <1>6 DEF StoreSnippet, InsertDistillation, Storing
    <2>2. cur[w].snippet \in 1..Len(memories)
      BY <1>2, <2>1 DEF TypeInv, Workers
    <2>3. captured' \in [Session -> SUBSET (1..Len(memories))]
      BY <1>1, <2>1, <2>2 DEF TypeInv, Tables
    <2> QED
      BY <1>1, <2>1, <2>3 DEF TypeInv, Tables
  <1>7. CASE SetMark(w)
    <2>1. PICK top \in Last(transcript[w]) : metadata' = [metadata EXCEPT ![sess[w]] = top]
      BY <1>7 DEF SetMark, SetMetadata
    <2>2. top \in 0..Len(memories) /\ transcript[w] \subseteq 1..Len(memories)
      BY <1>2, <2>1 DEF Last, TypeInv, Workers
    <2>3. /\ UNCHANGED captured
          /\ replacing' = replacing \ {sess[w]}
          /\ told' = [told EXCEPT ![sess[w]] = @ \cup transcript[w]]
      BY <1>7 DEF SetMark
    <2>4. /\ metadata' \in [Session -> 0..Len(memories)]
          /\ told' \in [Session -> SUBSET (1..Len(memories))]
      BY <2>1, <2>2, <2>3 DEF TypeInv, Tables
    <2> QED
      BY <1>1, <2>3, <2>4 DEF TypeInv, Tables
  <1> QED
    BY <1>3, <1>4, <1>5, <1>6, <1>7

\* Every step, and a stuttering one.
LEMMA NextTables ==
    ASSUME TypeInv, [Next]_vars
    PROVE  Tables'
  <1>1. CASE UNCHANGED tableVars
    BY <1>1 DEF TypeInv, Tables, tableVars
  <1>2. CASE Start \/ Crash \/ Exit
    BY <1>2 DEF Start, Crash, Exit, Gone, storeVars, history, TypeInv, Tables
  <1>3. CASE \E s \in Session : StoreMemory(s)
    <2>1. PICK s \in Session : StoreMemory(s)
      BY <1>3
    <2>2. UNCHANGED <<tokens, links, linkIndex, metadata, captured, replacing, told>>
      BY <2>1 DEF StoreMemory, storeVars, history
    <2>3. 0..Len(memories) \subseteq 0..Len(memories')
      BY <2>1, StoreMemoryEffect
    <2>4. metadata' \in [Session -> 0..Len(memories')]
      BY <2>2, <2>3 DEF TypeInv, Tables
    <2>5. /\ captured' \in [Session -> SUBSET (1..Len(memories'))]
          /\ told' \in [Session -> SUBSET (1..Len(memories'))]
          /\ links' \subseteq Token \X (1..Len(memories'))
      BY <2>1, <2>2, StoreMemoryEffect DEF TypeInv, Tables
    <2> QED
      BY <2>1, <2>2, <2>4, <2>5, StoreMemoryEffect DEF TypeInv, Tables
  <1>4. CASE \E w \in Worker : InsertToken(w)
    <2>1. PICK w \in Worker : InsertToken(w)
      BY <1>4
    <2>2. cur[w].snippet \in Snippet
      BY <2>1, Bounds DEF InsertToken, Storing, TypeInv, Workers
    <2>3. /\ tokens' = tokens \cup (TokenOf(cur[w].snippet) \ tokens)
          /\ UNCHANGED <<memories, links, linkIndex, metadata, captured, replacing, told>>
      BY <2>1 DEF InsertToken, storeVars, history
    <2> QED
      BY <2>2, <2>3, SnippetType DEF TypeInv, Tables
  <1>5. CASE \E w \in Worker : LinkMemory(w)
    <2>1. PICK w \in Worker : LinkMemory(w)
      BY <1>5
    <2>2. UNCHANGED <<memories, tokens, linkIndex, metadata, captured, replacing, told>>
      BY <2>1 DEF LinkMemory, storeVars, history
    <2>3. PICK m \in transcript[w], stored \in SUBSET matcher[ProcOf(w)] :
              links' = links \cup (stored \X {m})
      BY <2>1 DEF LinkMemory, First, Unlinked
    <2>4. m \in 1..Len(memories) /\ stored \subseteq Token
      BY <2>3, ProcOfType DEF TypeInv, Tables, Workers
    <2>5. links' \subseteq Token \X (1..Len(memories)) /\ linkIndex' \subseteq links'
      BY <2>2, <2>3, <2>4 DEF TypeInv, Tables
    <2> QED
      BY <2>2, <2>5 DEF TypeInv, Tables
  <1>10. CASE \E w \in Worker : AddLink(w)
    <2>1. PICK w \in Worker : AddLink(w)
      BY <1>10
    <2>2. UNCHANGED <<memories, tokens, links, metadata, captured, replacing, told>>
      BY <2>1 DEF AddLink, storeVars, history
    <2>3. linkIndex' \subseteq linkIndex \cup (cur[w].tokens \X {cur[w].snippet})
      BY <2>1 DEF AddLink
    <2>4. cur[w].tokens \X {cur[w].snippet} \subseteq links
      BY <2>1 DEF AddLink, TypeInv, Linking
    <2> QED
      BY <2>2, <2>3, <2>4 DEF TypeInv, Tables
  <1>6. CASE \E w \in Worker :
                 Clear(w) \/ ClearMark(w) \/ Replace(w) \/ StoreSnippet(w) \/ SetMark(w)
    BY <1>6, SessionTables
  <1>7. ASSUME ~UNCHANGED tableVars
        PROVE  \/ Start \/ Crash \/ Exit \/ \E s \in Session : StoreMemory(s)
               \/ \E w \in Worker :
                     \/ InsertToken(w) \/ LinkMemory(w) \/ AddLink(w)
                     \/ Clear(w) \/ ClearMark(w) \/ Replace(w) \/ StoreSnippet(w) \/ SetMark(w)
    <2>1. CASE UNCHANGED vars
      BY <1>7, <2>1 DEF vars, tableVars, storeVars, envVars, history
    <2>2. CASE \/ \E p \in Proc : Interrupt(p)
               \/ \E s \in Session : Arrive(s) \/ RequestFails(s)
               \/ \E w \in Worker : RunPass(w) \/ NextSession(w) \/ Kill(w)
      BY <1>7, <2>2 DEF Interrupt, Arrive, RequestFails, RunPass, NextSession, Kill,
                        tableVars, storeVars, envVars, history
    <2>3. CASE \E w \in Worker :
                  \/ ReadMark(w) \/ ReadMemories(w) \/ Distill(w) \/ Merge(w) \/ NextSnippet(w)
                  \/ LookupToken(w) \/ ScanKeys(w) \/ ScanRows(w) \/ GiveUp(w) \/ CarryOn(w)
      BY <1>7, <2>3 DEF ReadMark, ReadMemories, Distill, Merge, NextSnippet, LookupToken,
                        ScanKeys, ScanRows, GiveUp, CarryOn,
                        tableVars, storeVars, envVars, history
    <2>4. CASE \E w \in Worker : Learn(w) \/ EndLinks(w) \/ SwapIndexes(w)
      BY <1>7, <2>4 DEF Learn, EndLinks, SwapIndexes, tableVars, storeVars, envVars, history
    <2> QED
      BY <2>1, <2>2, <2>3, <2>4 DEF Next, Step
  <1> QED
    BY <1>1, <1>2, <1>3, <1>4, <1>5, <1>6, <1>7, <1>10

-----------------------------------------------------------------------------
(* Rows *)

rowVars == <<memories, distillations, semkeys, nextID, l0Index, personalIndex, scan>>

\* The steps that change no row, index or scan, or only the memories.
LEMMA RowsFrame ==
    ASSUME TypeInv, [Next]_vars, ~UNCHANGED rowVars
    PROVE  \/ Start \/ Crash \/ Exit \/ \E s \in Session : StoreMemory(s)
           \/ \E w \in Worker :
                 \/ Clear(w) \/ Replace(w) \/ StoreSnippet(w)
                 \/ ScanKeys(w) \/ ScanRows(w) \/ SwapIndexes(w)
  <1>1. CASE UNCHANGED vars
    BY <1>1 DEF vars, rowVars, storeVars, retrieverVars, envVars, locals
  <1>2. CASE \/ \E p \in Proc : Interrupt(p)
             \/ \E s \in Session : RequestFails(s)
             \/ \E w \in Worker : Kill(w)
    BY <1>2 DEF Interrupt, RequestFails, Kill, rowVars, storeVars, retrieverVars, envVars, locals
  <1>3. CASE \/ \E s \in Session : Arrive(s)
             \/ \E w \in Worker : RunPass(w) \/ NextSession(w)
    BY <1>3 DEF Arrive, RunPass, NextSession, Spawn, rowVars, storeVars, retrieverVars, locals
  <1>4. CASE \E w \in Worker : ClearMark(w) \/ SetMark(w)
    BY <1>4 DEF ClearMark, SetMark, SetMetadata, rowVars, retrieverVars, envVars, locals
  <1>5. CASE \E w \in Worker :
                \/ ReadMark(w) \/ ReadMemories(w) \/ Distill(w) \/ Merge(w) \/ NextSnippet(w)
                \/ LookupToken(w) \/ InsertToken(w)
    BY <1>5 DEF ReadMark, ReadMemories, Distill, Merge, NextSnippet, LookupToken, InsertToken,
                rowVars, storeVars, retrieverVars, envVars
  <1>6. CASE \E w \in Worker :
                \/ Learn(w) \/ LinkMemory(w) \/ AddLink(w) \/ EndLinks(w) \/ GiveUp(w) \/ CarryOn(w)
    BY <1>6 DEF Learn, LinkMemory, AddLink, EndLinks, GiveUp, CarryOn,
                rowVars, storeVars, retrieverVars, envVars, locals
  <1> QED
    BY <1>1, <1>2, <1>3, <1>4, <1>5, <1>6 DEF Next, Step

\* Every step, and a stuttering one.
LEMMA NextRows ==
    ASSUME TypeInv, [Next]_vars
    PROVE  Rows'
  <1> USE DEF RetrieverTypeOK
  <1>1. CASE UNCHANGED rowVars
    BY <1>1 DEF TypeInv, Rows, rowVars
  <1>2. CASE Start
    <2>1. l0Index' = semkeys /\ personalIndex' = TokenRows
      BY <1>2 DEF Start, NewDistillationRetriever
    <2>2. UNCHANGED <<memories, distillations, semkeys, nextID, scan>>
      BY <1>2 DEF Start, storeVars, locals
    <2> QED
      BY <2>1, <2>2, TokenRowsType DEF TypeInv, Rows
  <1>3. CASE Crash \/ Exit
    BY <1>3 DEF Crash, Exit, Gone, storeVars, locals, TypeInv, Rows
  <1>4. CASE \E s \in Session : StoreMemory(s)
    <2>1. UNCHANGED <<distillations, semkeys, nextID, l0Index, personalIndex, scan>>
      BY <1>4 DEF StoreMemory, storeVars, retrieverVars, locals
    <2>2. 1..Len(memories) \subseteq 1..Len(memories')
      BY <1>4, StoreMemoryEffect
    <2> QED
      BY <2>1, <2>2 DEF TypeInv, Rows
  <1>5. CASE \E w \in Worker : Clear(w) \/ Replace(w)
    <2>1. /\ distillations' \subseteq distillations /\ semkeys' \subseteq semkeys
          /\ UNCHANGED <<memories, nextID, l0Index, personalIndex, scan>>
      BY <1>5 DEF Clear, Replace, DeleteDistillationsBySessionID, retrieverVars, envVars, locals
    <2> QED
      BY <2>1 DEF TypeInv, Rows
  <1>6. CASE \E w \in Worker : StoreSnippet(w)
    <2>1. PICK w \in Worker : StoreSnippet(w)
      BY <1>6
    <2> DEFINE f == cur[w].snippet
               row == [id |-> nextID, session |-> sess[w], snippet |-> f, tokens |-> cur[w].tokens]
    <2>2. /\ distillations' = distillations \cup {row}
          /\ semkeys' = semkeys \cup (SnippetKeys[f] \X {nextID})
          /\ nextID' = nextID + 1
          /\ UNCHANGED <<memories, l0Index, personalIndex, scan>>
      BY <2>1 DEF StoreSnippet, InsertDistillation, retrieverVars, envVars
    <2>3. /\ f \in 1..Len(memories) /\ f \in Snippet /\ cur[w].tokens \subseteq Token
          /\ sess[w] \in Session
      <3>1. pc[w] = "store" /\ pc[w] \in Storing /\ Running(w)
        BY <2>1 DEF StoreSnippet, Storing, Running, Finished
      <3>2. f \in 0..Len(memories) /\ f # 0 /\ cur[w].tokens \subseteq tokens
        BY <3>1 DEF TypeInv, Workers
      <3>3. tokens \subseteq Token /\ sess[w] \in Session
        BY <3>1 DEF TypeInv, Tables, Workers
      <3> QED
        BY <3>2, <3>3, Bounds
    <2>4. nextID \in Nat \ {0} /\ 1..nextID - 1 \subseteq 1..nextID' - 1 /\ nextID \in 1..nextID' - 1
      BY <2>2 DEF TypeInv, Rows
    <2>5. row \in Distillation
      BY <2>3, <2>4 DEF Distillation
    <2>6. semkeys' \subseteq Key \X (1..nextID' - 1)
      BY <2>2, <2>3, <2>4, SnippetType DEF TypeInv, Rows
    <2>7. /\ l0Index' \subseteq Key \X (1..nextID' - 1)
          /\ personalIndex' \subseteq Token \X (1..nextID' - 1)
      BY <2>2, <2>4 DEF TypeInv, Rows
    <2>8. scan' \in [Worker -> [keys : SUBSET (Key \X (1..nextID' - 1)),
                                rows : SUBSET (Token \X (1..nextID' - 1))]]
      BY <2>2, <2>4 DEF TypeInv, Rows
    <2>9. distillations' \subseteq Distillation
      BY <2>2, <2>5 DEF TypeInv, Rows
    <2>10. \A d \in distillations' : d.id < nextID' /\ d.snippet \in 1..Len(memories')
      <3> SUFFICES ASSUME NEW d \in distillations'
                   PROVE  d.id < nextID' /\ d.snippet \in 1..Len(memories')
        OBVIOUS
      <3>1. CASE d = row
        BY <2>2, <2>3, <2>4, <3>1
      <3>2. CASE d \in distillations
        BY <2>2, <2>4, <3>2 DEF TypeInv, Rows, Distillation
      <3> QED
        BY <2>2, <3>1, <3>2
    <2>11. nextID' \in Nat \ {0}
      BY <2>2, <2>4
    <2> QED
      BY <2>6, <2>7, <2>8, <2>9, <2>10, <2>11 DEF Rows
  <1>7. CASE \E w \in Worker : ScanKeys(w) \/ ScanRows(w)
    <2>1. PICK w \in Worker : ScanKeys(w) \/ ScanRows(w)
      BY <1>7
    <2>2. UNCHANGED <<memories, distillations, semkeys, nextID, l0Index, personalIndex>>
      BY <2>1 DEF ScanKeys, ScanRows, storeVars, retrieverVars, envVars
    <2>3. \/ scan' = [scan EXCEPT ![w].keys = semkeys]
          \/ scan' = [scan EXCEPT ![w].rows = TokenRows]
      BY <2>1 DEF ScanKeys, ScanRows
    <2>4. scan' \in [Worker -> [keys : SUBSET (Key \X (1..nextID - 1)),
                                rows : SUBSET (Token \X (1..nextID - 1))]]
      BY <2>3, TokenRowsType DEF TypeInv, Rows
    <2> QED
      BY <2>2, <2>4 DEF TypeInv, Rows
  <1>8. CASE \E w \in Worker : SwapIndexes(w)
    <2>1. PICK w \in Worker : SwapIndexes(w)
      BY <1>8
    <2>2. /\ UNCHANGED <<memories, distillations, semkeys, nextID>>
          /\ l0Index' = scan[w].keys /\ personalIndex' = scan[w].rows
          /\ scan' = [scan EXCEPT ![w] = Blank]
      BY <2>1 DEF SwapIndexes, Swap, storeVars, envVars
    <2>3. /\ l0Index' \subseteq Key \X (1..nextID - 1)
          /\ personalIndex' \subseteq Token \X (1..nextID - 1)
      BY <2>2 DEF TypeInv, Rows
    <2>4. scan' \in [Worker -> [keys : SUBSET (Key \X (1..nextID - 1)),
                                rows : SUBSET (Token \X (1..nextID - 1))]]
      BY <2>2 DEF TypeInv, Rows, Blank
    <2> QED
      BY <2>2, <2>3, <2>4 DEF TypeInv, Rows
  <1> QED
    BY <1>1, <1>2, <1>3, <1>4, <1>5, <1>6, <1>7, <1>8, RowsFrame

-----------------------------------------------------------------------------
(* Requests *)

\* Where there is room a session has fewer than MaxMemories requests: they alone
\* would take it.
LEMMA RoomForOne ==
    ASSUME TypeInv, Room, NEW s \in Session
    PROVE  inflight[s] + 1 \in 1..MaxMemories
  <1>1. inflight[s] \in 0..MaxMemories /\ MaxMemories \in Nat
    BY Bounds DEF TypeInv, Requests
  <1>2. Cardinality(Pending) < MaxMemories
    BY Bounds DEF Room
  <1>3. ASSUME inflight[s] = MaxMemories PROVE FALSE
    <2> DEFINE request == [i \in 1..MaxMemories |-> <<s, i>>]
    <2>1. request \in [1..MaxMemories -> Pending]
      BY <1>1, <1>3 DEF Pending
    <2>2. IsFiniteSet(1..MaxMemories) /\ Cardinality(1..MaxMemories) = MaxMemories
      BY <1>1, FS_Interval
    <2>3. IsFiniteSet(Pending)
      BY DEF TypeInv, Requests
    <2> HIDE DEF request
    <2>4. \E x, y \in 1..MaxMemories : x # y /\ request[x] = request[y]
      BY <1>2, <2>1, <2>2, <2>3, FS_PigeonHole
    <2> QED
      BY <2>4 DEF request
  <1> QED
    BY <1>1, <1>3

\* Every step, and a stuttering one.
LEMMA NextRequests ==
    ASSUME TypeInv, [Next]_vars
    PROVE  Requests'
  <1>1. CASE UNCHANGED <<up, stopping, active, inflight, memories>>
    BY <1>1 DEF TypeInv, Requests, Pending
  <1>2. CASE Start
    BY <1>2 DEF Start, TypeInv, Requests, Pending
  <1>3. CASE Crash \/ Exit
    <2>1. Gone /\ UNCHANGED memories
      BY <1>3 DEF Crash, Exit
    <2>2. Pending' = {}
      BY <2>1, Bounds DEF Gone, Pending
    <2>3. inflight' \in [Session -> 0..MaxMemories]
      BY <2>1, Bounds DEF Gone
    <2>4. IsFiniteSet(Pending') /\ Cardinality(Pending') = 0
      BY <2>2, FS_EmptySet
    <2>5. Len(memories') + Cardinality(Pending') <= MaxMemories
      BY <2>1, <2>4, Bounds
    <2> QED
      BY <2>1, <2>3, <2>4, <2>5 DEF Gone, TypeInv, Requests
  <1>4. CASE \E p \in Proc : Interrupt(p)
    BY <1>4 DEF Interrupt, TypeInv, Requests, Pending
  <1>5. CASE \E s \in Session : Arrive(s)
    <2>1. PICK s \in Session : Arrive(s)
      BY <1>5
    <2>2. /\ Room /\ UNCHANGED <<up, stopping, memories>> /\ active' = s
          /\ inflight' = [inflight EXCEPT ![s] = @ + 1]
      BY <2>1 DEF Arrive
    <2>3. inflight[s] + 1 \in 1..MaxMemories
      BY <2>2, RoomForOne
    <2>4. inflight' \in [Session -> 0..MaxMemories]
      BY <2>2, <2>3 DEF TypeInv, Requests
    <2>5. Pending' = Pending \cup {<<s, inflight[s] + 1>>}
      BY <2>2, <2>3 DEF Pending, TypeInv, Requests
    <2>6. IsFiniteSet(Pending') /\ Cardinality(Pending') <= Cardinality(Pending) + 1
      <3>1. IsFiniteSet(Pending) /\ Cardinality(Pending) \in Nat
        BY Bounds DEF TypeInv, Requests
      <3>2. PICK x : x = <<s, inflight[s] + 1>>
        OBVIOUS
      <3>3. /\ IsFiniteSet(Pending \cup {x})
            /\ \/ Cardinality(Pending \cup {x}) = Cardinality(Pending)
               \/ Cardinality(Pending \cup {x}) = Cardinality(Pending) + 1
        BY <3>1, FS_AddElement
      <3> QED
        BY <2>5, <3>1, <3>2, <3>3
    <2>7. Cardinality(Pending') \in Nat
      BY <2>6, FS_CardinalityType
    <2>8. Len(memories') + Cardinality(Pending') <= MaxMemories
      BY <2>2, <2>6, <2>7, Bounds DEF Room
    <2> QED
      BY <2>2, <2>4, <2>6, <2>8 DEF TypeInv, Requests
  <1>6. CASE \E s \in Session : StoreMemory(s) \/ RequestFails(s)
    <2>1. PICK s \in Session : StoreMemory(s) \/ RequestFails(s)
      BY <1>6
    <2>2. /\ UNCHANGED <<up, stopping, active>> /\ inflight[s] > 0
          /\ inflight' = [inflight EXCEPT ![s] = @ - 1]
      BY <2>1 DEF StoreMemory, RequestFails
    <2>3. inflight[s] \in 1..MaxMemories /\ inflight[s] - 1 \in 0..MaxMemories
      BY <2>2, Bounds DEF TypeInv, Requests
    <2>4. inflight' \in [Session -> 0..MaxMemories]
      BY <2>2, <2>3 DEF TypeInv, Requests
    <2>5. Pending' = Pending \ {<<s, inflight[s]>>} /\ <<s, inflight[s]>> \in Pending
      BY <2>2, <2>3 DEF Pending, TypeInv, Requests
    <2>6. IsFiniteSet(Pending') /\ Cardinality(Pending') = Cardinality(Pending) - 1
      BY <2>5, FS_RemoveElement DEF TypeInv, Requests
    <2>7. Len(memories') <= Len(memories) + 1 /\ Len(memories') \in Nat
      <3>1. CASE StoreMemory(s)
        BY <3>1, StoreMemoryEffect
      <3>2. CASE RequestFails(s)
        BY <3>2, Bounds DEF RequestFails
      <3> QED
        BY <2>1, <3>1, <3>2
    <2>8. Len(memories') + Cardinality(Pending') <= MaxMemories
      BY <2>6, <2>7, Bounds DEF TypeInv, Requests
    <2> QED
      BY <2>2, <2>4, <2>6, <2>8 DEF TypeInv, Requests
  <1>7. CASE \E w \in Worker : RunPass(w) \/ NextSession(w) \/ Kill(w)
    BY <1>1, <1>7 DEF RunPass, NextSession, Kill, envVars
  <1>8. CASE \E w \in Worker : Step(w)
    <2>1. CASE \E w \in Worker :
                  \/ Clear(w) \/ ClearMark(w) \/ ReadMark(w) \/ ReadMemories(w)
                  \/ Distill(w) \/ Merge(w) \/ Replace(w) \/ NextSnippet(w) \/ LookupToken(w)
      BY <1>1, <2>1 DEF Clear, ClearMark, ReadMark, ReadMemories, Distill, Merge, Replace,
                        NextSnippet, LookupToken, envVars
    <2>2. CASE \E w \in Worker :
                  InsertToken(w) \/ Learn(w) \/ LinkMemory(w) \/ AddLink(w) \/ EndLinks(w)
      BY <1>1, <2>2 DEF InsertToken, Learn, LinkMemory, AddLink, EndLinks, envVars
    <2>3. CASE \E w \in Worker :
                  \/ StoreSnippet(w) \/ ScanKeys(w) \/ ScanRows(w) \/ SwapIndexes(w)
                  \/ SetMark(w) \/ GiveUp(w) \/ CarryOn(w)
      BY <1>1, <2>3 DEF StoreSnippet, ScanKeys, ScanRows, SwapIndexes, SetMark, GiveUp, CarryOn,
                        envVars
    <2> QED
      BY <1>8, <2>1, <2>2, <2>3 DEF Step
  <1>9. CASE UNCHANGED vars
    BY <1>1, <1>9 DEF vars, envVars
  <1> QED
    BY <1>2, <1>3, <1>4, <1>5, <1>6, <1>7, <1>8, <1>9 DEF Next

-----------------------------------------------------------------------------
(* Workers *)

\* A step of a worker that is not idle moves it on, in its session.
LEMMA StepMoves ==
    ASSUME NEW w \in Worker, Step(w)
    PROVE  /\ Running(w) /\ UNCHANGED sess
           /\ \E to \in Steps \ {"idle"} : Goto(w, to)
  <1> USE DEF Running, Finished, Steps
  <1>1. CASE Clear(w) \/ ClearMark(w) \/ ReadMark(w)
    BY <1>1 DEF Clear, ClearMark, ReadMark, locals
  <1>2. CASE ReadMemories(w)
    BY <1>2 DEF ReadMemories
  <1>3. CASE Distill(w)
    BY <1>3 DEF Distill
  <1>4. CASE Merge(w) \/ Replace(w)
    BY <1>4 DEF Merge, Replace, locals
  <1>5. CASE NextSnippet(w)
    BY <1>5 DEF NextSnippet
  <1>6. CASE LookupToken(w)
    BY <1>6 DEF LookupToken
  <1>7. CASE InsertToken(w)
    BY <1>7 DEF InsertToken
  <1>8. CASE Learn(w) \/ StoreSnippet(w)
    BY <1>8 DEF Learn, StoreSnippet, locals
  <1>9. CASE LinkMemory(w) \/ AddLink(w) \/ EndLinks(w)
    <2>1. CASE LinkMemory(w)
      BY <2>1 DEF LinkMemory
    <2>2. CASE AddLink(w) \/ EndLinks(w)
      BY <2>2 DEF AddLink, EndLinks, locals
    <2> QED
      BY <1>9, <2>1, <2>2
  <1>10. CASE ScanKeys(w) \/ ScanRows(w) \/ SwapIndexes(w) \/ SetMark(w)
    BY <1>10 DEF ScanKeys, ScanRows, SwapIndexes, SetMark
  <1>11. CASE GiveUp(w)
    BY <1>11 DEF GiveUp, locals, ContextSteps
  <1>12. CASE CarryOn(w)
    BY <1>12 DEF CarryOn, locals
  <1> QED
    BY <1>1, <1>2, <1>3, <1>4, <1>5, <1>6, <1>7, <1>8, <1>9, <1>10, <1>11, <1>12 DEF Step

\* The types of what workers carry.
Carried ==
    /\ matcher \in [Proc -> SUBSET tokens]
    /\ wm \in [Worker -> 0..Len(memories)]
    /\ transcript \in [Worker -> SUBSET (1..Len(memories))]
    /\ todo \in [Worker -> SUBSET (1..Len(memories))]
    /\ cur \in [Worker -> [snippet : 0..Len(memories), tokens : SUBSET tokens]]

\* A worker moved on keeps the invariant, when what it carries has its type and it
\* has a snippet where it stores one.
LEMMA MoveOn ==
    ASSUME TypeInv, NEW w \in Worker, NEW to \in Steps, Goto(w, to), UNCHANGED sess,
           Running(w), Carried', \A v \in Worker : v # w => cur'[v] = cur[v],
           to \in Storing => cur'[w].snippet # 0
    PROVE  Workers'
  <1>1. pc' = [pc EXCEPT ![w] = to] /\ pc \in [Worker -> Steps]
    BY DEF Goto, TypeInv, Workers
  <1>2. pc' \in [Worker -> Steps] /\ sess' \in [Worker -> Session \cup {NoSession}]
    BY <1>1 DEF TypeInv, Workers
  <1>3. \A v \in Worker : pc'[v] \notin Finished => sess'[v] \in Session
    BY <1>1 DEF TypeInv, Workers, Running
  <1>4. \A v \in Worker : pc'[v] \in Storing => cur'[v].snippet # 0
    BY <1>1 DEF TypeInv, Workers
  <1> QED
    BY <1>2, <1>3, <1>4 DEF Workers, Carried, Running

\* What most steps of a worker leave alone.
carriedVars == <<memories, tokens, matcher, wm, transcript, todo, cur>>

\* A step that changes nothing a worker carries, and does not begin a snippet.
LEMMA MoveOnAlone ==
    ASSUME TypeInv, NEW w \in Worker, Step(w), UNCHANGED carriedVars,
           pc'[w] \in Storing => pc[w] \in Storing
    PROVE  Workers'
  <1>1. PICK to \in Steps : Goto(w, to)
    BY StepMoves
  <1>2. pc'[w] = to
    BY <1>1 DEF Goto, TypeInv, Workers
  <1>3. Carried'
    BY DEF Carried, carriedVars, TypeInv, Workers
  <1>4. to \in Storing => cur'[w].snippet # 0
    BY <1>2 DEF carriedVars, TypeInv, Workers
  <1> QED
    BY <1>1, <1>3, <1>4, StepMoves, MoveOn DEF carriedVars

\* A call of distillOneSession begins for a session.
LEMMA SpawnWorkers ==
    ASSUME TypeInv, NEW w \in Worker, NEW s \in Session, Spawn(w, s),
           UNCHANGED <<memories, tokens>>, matcher' \in [Proc -> SUBSET tokens]
    PROVE  Workers'
  <1>1. PICK to \in {"clear", "readMark"} : pc' = [pc EXCEPT ![w] = to]
    <2>1. CASE Kind[w] = "force"
      BY <2>1 DEF Spawn, Goto
    <2>2. CASE Kind[w] # "force"
      BY <2>2 DEF Spawn, Goto
    <2> QED
      BY <2>1, <2>2
  <1>2. pc' \in [Worker -> Steps] /\ \A v \in Worker : pc'[v] \in Storing => pc[v] \in Storing
    BY <1>1 DEF TypeInv, Workers, Steps, Storing
  <1>3. /\ sess' = [sess EXCEPT ![w] = s] /\ wm' = [wm EXCEPT ![w] = 0]
        /\ transcript' = [transcript EXCEPT ![w] = {}] /\ todo' = [todo EXCEPT ![w] = {}]
        /\ cur' = [cur EXCEPT ![w] = Idle]
    BY DEF Spawn
  <1>4. /\ sess' \in [Worker -> Session \cup {NoSession}] /\ wm' \in [Worker -> 0..Len(memories)]
        /\ transcript' \in [Worker -> SUBSET (1..Len(memories))]
        /\ todo' \in [Worker -> SUBSET (1..Len(memories))]
        /\ cur' \in [Worker -> [snippet : 0..Len(memories), tokens : SUBSET tokens]]
    BY <1>3, Bounds DEF TypeInv, Workers, Idle
  <1>5. \A v \in Worker : pc'[v] \notin Finished => sess'[v] \in Session
    BY <1>1, <1>3 DEF TypeInv, Workers, Running
  <1>6. \A v \in Worker : pc'[v] \in Storing => cur'[v].snippet # 0
    <2>1. pc'[w] \notin Storing
      BY <1>1 DEF TypeInv, Workers, Storing
    <2> QED
      BY <1>2, <1>3, <2>1 DEF TypeInv, Workers
  <1> QED
    BY <1>2, <1>3, <1>4, <1>5, <1>6 DEF TypeInv, Workers, Running

\* A pass distils sessions with memories.
LEMMA SpawnsSession ==
    ASSUME TypeInv, NEW w \in Worker, RunPass(w) \/ NextSession(w)
    PROVE  \E s \in Session : MemoriesOf(s) # {} /\ Spawn(w, s)
  BY DEF RunPass, NextSession, Earliest, TypeInv, Passes

\* Steps that are not a worker's own: what workers carry stays or grows.
LEMMA ProcessWorkers ==
    ASSUME TypeInv,
           \/ Start \/ Crash \/ Exit
           \/ \E p \in Proc : Interrupt(p)
           \/ \E s \in Session : Arrive(s) \/ StoreMemory(s) \/ RequestFails(s)
           \/ \E w \in Worker : RunPass(w) \/ NextSession(w) \/ Kill(w)
    PROVE  Workers'
  <1>1. CASE Start \/ Exit
    <2>1. UNCHANGED <<memories, tokens, pc, sess, wm, transcript, todo, cur>>
      BY <1>1 DEF Start, Exit, locals
    <2>2. matcher' = [matcher EXCEPT ![Serve] = tokens] \/ matcher' = [matcher EXCEPT ![Serve] = {}]
      BY <1>1 DEF Start, Exit, Gone
    <2>3. matcher' \in [Proc -> SUBSET tokens']
      BY <2>1, <2>2 DEF TypeInv, Workers
    <2> QED
      BY <2>1, <2>3 DEF TypeInv, Workers, Running
  <1>2. CASE Crash
    <2>1. /\ UNCHANGED <<memories, tokens, sess, wm, transcript, todo, cur>>
          /\ matcher' = [matcher EXCEPT ![Serve] = {}]
          /\ pc' = [w \in Worker |-> IF Kind[w] = "auto" /\ Running(w) THEN "killed" ELSE pc[w]]
      BY <1>2 DEF Crash, Gone, locals
    <2>2. matcher' \in [Proc -> SUBSET tokens'] /\ pc' \in [Worker -> Steps]
      BY <2>1 DEF TypeInv, Workers, Steps, Finished
    <2>3. \A w \in Worker : pc'[w] = pc[w] \/ pc'[w] = "killed"
      BY <2>1
    <2> QED
      BY <2>1, <2>2, <2>3 DEF TypeInv, Workers, Running, Finished, Storing
  <1>3. CASE \/ \E p \in Proc : Interrupt(p)
             \/ \E s \in Session : RequestFails(s)
    <2>1. UNCHANGED <<memories, tokens, matcher, pc, sess, wm, transcript, todo, cur>>
      BY <1>3 DEF Interrupt, RequestFails, locals
    <2> QED
      BY <2>1 DEF TypeInv, Workers, Running
  <1>4. CASE \E s \in Session : StoreMemory(s)
    <2>1. /\ UNCHANGED <<tokens, matcher, pc, sess, wm, transcript, todo, cur>>
          /\ 0..Len(memories) \subseteq 0..Len(memories')
          /\ 1..Len(memories) \subseteq 1..Len(memories')
      BY <1>4, StoreMemoryEffect DEF StoreMemory, locals
    <2>2. wm' \in [Worker -> 0..Len(memories')]
      BY <2>1 DEF TypeInv, Workers
    <2>3. transcript' \in [Worker -> SUBSET (1..Len(memories'))]
      BY <2>1 DEF TypeInv, Workers
    <2>4. todo' \in [Worker -> SUBSET (1..Len(memories'))]
      BY <2>1 DEF TypeInv, Workers
    <2>5. cur' \in [Worker -> [snippet : 0..Len(memories'), tokens : SUBSET tokens']]
      BY <2>1 DEF TypeInv, Workers
    <2> QED
      BY <2>1, <2>2, <2>3, <2>4, <2>5 DEF TypeInv, Workers, Running
  <1>5. CASE \E s \in Session : Arrive(s)
    <2>1. UNCHANGED <<memories, tokens, matcher>>
      BY <1>5 DEF Arrive
    <2>2. CASE UNCHANGED <<pc, locals>>
      BY <2>1, <2>2 DEF locals, TypeInv, Workers, Running
    <2>3. CASE active # NoSession /\ \E w \in Worker : Spawn(w, active)
      <3>1. active \in Session
        BY <2>3 DEF TypeInv, Requests
      <3>2. matcher' \in [Proc -> SUBSET tokens]
        BY <2>1 DEF TypeInv, Workers
      <3> QED
        BY <2>1, <2>3, <3>1, <3>2, SpawnWorkers
    <2> QED
      BY <1>5, <2>2, <2>3 DEF Arrive
  <1>6. CASE \E w \in Worker : RunPass(w) \/ NextSession(w)
    <2>1. PICK w \in Worker : RunPass(w) \/ NextSession(w)
      BY <1>6
    <2>2. PICK s \in Session : Spawn(w, s)
      BY <2>1, SpawnsSession
    <2>3. /\ UNCHANGED <<memories, tokens>>
          /\ UNCHANGED matcher \/ matcher' = [matcher EXCEPT ![w] = tokens]
      BY <2>1 DEF RunPass, NextSession
    <2>4. matcher' \in [Proc -> SUBSET tokens]
      BY <2>3 DEF TypeInv, Workers
    <2> QED
      BY <2>2, <2>3, <2>4, SpawnWorkers
  <1>7. CASE \E w \in Worker : Kill(w)
    <2>1. PICK w \in Worker : Kill(w)
      BY <1>7
    <2>2. UNCHANGED carriedVars /\ UNCHANGED sess /\ Goto(w, "killed") /\ Running(w)
      BY <2>1 DEF Kill, carriedVars, envVars, locals
    <2>3. Carried'
      BY <2>2 DEF Carried, carriedVars, TypeInv, Workers
    <2> QED
      BY <2>2, <2>3, MoveOn DEF carriedVars, Steps, Finished, Storing
  <1> QED
    BY <1>1, <1>2, <1>3, <1>4, <1>5, <1>6, <1>7

\* The steps that read: the watermark, the transcript, the facts to store.
LEMMA ReadingWorkers ==
    ASSUME TypeInv, NEW w \in Worker,
           ReadMark(w) \/ ReadMemories(w) \/ Distill(w) \/ Merge(w) \/ SetMark(w)
    PROVE  Workers'
  <1>1. PICK to \in Steps \ Storing : Goto(w, to)
    <2> USE DEF Steps, Finished, Storing
    <2>1. CASE ReadMark(w) \/ Merge(w) \/ SetMark(w)
      BY <2>1 DEF ReadMark, Merge, SetMark
    <2>2. CASE ReadMemories(w)
      BY <2>2 DEF ReadMemories
    <2>3. CASE Distill(w)
      BY <2>3 DEF Distill
    <2> QED
      BY <2>1, <2>2, <2>3
  <1>2. Running(w) /\ UNCHANGED sess
    BY StepMoves DEF Step
  <1>3. UNCHANGED <<memories, tokens, matcher, cur>>
    BY DEF ReadMark, ReadMemories, Distill, Merge, SetMark, envVars
  <1>4. wm' \in [Worker -> 0..Len(memories)]
    <2>1. CASE ReadMark(w)
      BY <1>2, <2>1 DEF ReadMark, TypeInv, Tables, Workers
    <2>2. CASE UNCHANGED wm
      BY <2>2 DEF TypeInv, Workers
    <2> QED
      BY <2>1, <2>2 DEF ReadMemories, Distill, Merge, SetMark
  <1>5. transcript' \in [Worker -> SUBSET (1..Len(memories))]
    <2>1. CASE transcript' = [transcript EXCEPT ![w] = MemoriesOf(sess[w])]
      BY <2>1, MemoriesExist DEF TypeInv, Workers
    <2>2. CASE UNCHANGED transcript \/ transcript' = [transcript EXCEPT ![w] = {}]
      BY <2>2 DEF TypeInv, Workers
    <2> QED
      BY <2>1, <2>2 DEF ReadMark, ReadMemories, Distill, Merge, SetMark
  <1>6. todo' \in [Worker -> SUBSET (1..Len(memories))]
    <2>1. CASE Distill(w)
      <3>1. PICK facts \in SUBSET transcript[w] : todo' = [todo EXCEPT ![w] = facts]
        BY <2>1 DEF Distill
      <3> QED
        BY <3>1 DEF TypeInv, Workers
    <2>2. CASE Merge(w)
      <3>1. todo' = [todo EXCEPT ![w] = @ \cup GetSnippetsBySessionID(sess[w])]
        BY <2>2 DEF Merge
      <3> QED
        BY <3>1, StoredSnippets DEF TypeInv, Workers
    <2>3. CASE UNCHANGED todo
      BY <2>3 DEF TypeInv, Workers
    <2> QED
      BY <2>1, <2>2, <2>3 DEF ReadMark, ReadMemories, SetMark
  <1>7. Carried'
    BY <1>3, <1>4, <1>5, <1>6 DEF Carried, TypeInv, Workers
  <1> QED
    BY <1>1, <1>2, <1>3, <1>7, MoveOn

\* The steps that store a snippet: it is one of those to store, and has tokens
\* that are stored.
LEMMA StoringWorkers ==
    ASSUME TypeInv, NEW w \in Worker,
           NextSnippet(w) \/ LookupToken(w) \/ InsertToken(w) \/ Learn(w) \/ StoreSnippet(w)
    PROVE  Workers'
  <1>1. PICK to \in Steps : Goto(w, to)
    BY StepMoves DEF Step
  <1>2. Running(w) /\ UNCHANGED sess
    BY StepMoves DEF Step
  <1>3. UNCHANGED <<memories, wm, transcript>> /\ tokens \subseteq tokens'
    BY DEF NextSnippet, LookupToken, InsertToken, Learn, StoreSnippet, envVars, locals
  <1>4. pc'[w] = to
    BY <1>1 DEF Goto, TypeInv, Workers
  <1>5. CASE NextSnippet(w)
    <2>1. CASE UNCHANGED todo /\ cur' = [cur EXCEPT ![w] = Idle] /\ Goto(w, "link")
      <3>1. UNCHANGED <<tokens, matcher>>
        BY <1>5 DEF NextSnippet, envVars
      <3>2. cur' \in [Worker -> [snippet : 0..Len(memories), tokens : SUBSET tokens]]
        BY <2>1, Bounds DEF Idle, TypeInv, Workers
      <3>3. Carried'
        BY <1>3, <2>1, <3>1, <3>2 DEF Carried, TypeInv, Workers
      <3>4. \A v \in Worker : v # w => cur'[v] = cur[v]
        BY <2>1 DEF TypeInv, Workers
      <3>5. "link" \in Steps \ Storing
        BY DEF Steps, Storing
      <3> QED
        BY <1>2, <2>1, <3>3, <3>4, <3>5, MoveOn
    <2>2. CASE \E f \in todo[w] :
                  /\ todo' = [todo EXCEPT ![w] = @ \ {f}]
                  /\ cur' = [cur EXCEPT ![w] = [snippet |-> f, tokens |-> {}]]
      <3>1. PICK f \in todo[w] :
                  /\ todo' = [todo EXCEPT ![w] = @ \ {f}]
                  /\ cur' = [cur EXCEPT ![w] = [snippet |-> f, tokens |-> {}]]
        BY <2>2
      <3>2. f \in 1..Len(memories) /\ f # 0
        BY <3>1, Bounds DEF TypeInv, Workers
      <3>3. UNCHANGED <<tokens, matcher>>
        BY <1>5 DEF NextSnippet, envVars
      <3>4. /\ cur' \in [Worker -> [snippet : 0..Len(memories), tokens : SUBSET tokens]]
            /\ cur'[w].snippet = f
        BY <3>1, <3>2, Bounds DEF TypeInv, Workers
      <3>5. todo' \in [Worker -> SUBSET (1..Len(memories))]
        BY <3>1 DEF TypeInv, Workers
      <3>6. Carried'
        BY <1>3, <3>3, <3>4, <3>5 DEF Carried, TypeInv, Workers
      <3>7. \A v \in Worker : v # w => cur'[v] = cur[v]
        BY <3>1 DEF TypeInv, Workers
      <3> QED
        BY <1>1, <1>2, <3>2, <3>4, <3>6, <3>7, MoveOn
    <2> QED
      BY <1>5, <2>1, <2>2 DEF NextSnippet
  <1>6. CASE LookupToken(w) \/ InsertToken(w)
    <2>1. PICK found \in SUBSET tokens' : cur' = [cur EXCEPT ![w].tokens = found]
      BY <1>6 DEF LookupToken, InsertToken, envVars
    <2>2. UNCHANGED <<matcher, todo>>
      BY <1>6 DEF LookupToken, InsertToken, envVars
    <2>3. /\ cur' \in [Worker -> [snippet : 0..Len(memories), tokens : SUBSET tokens']]
          /\ cur'[w].snippet = cur[w].snippet
          /\ \A v \in Worker : v # w => cur'[v] = cur[v]
      BY <1>3, <2>1 DEF TypeInv, Workers
    <2>4. matcher' \in [Proc -> SUBSET tokens']
      BY <1>3, <2>2 DEF TypeInv, Workers
    <2>5. Carried'
      BY <1>3, <2>2, <2>3, <2>4 DEF Carried, TypeInv, Workers
    <2>6. cur[w].snippet # 0
      BY <1>6 DEF LookupToken, InsertToken, Storing, TypeInv, Workers
    <2> QED
      BY <1>1, <1>2, <2>3, <2>5, <2>6, MoveOn
  <1>7. CASE Learn(w)
    <2>1. /\ matcher' = [matcher EXCEPT ![ProcOf(w)] = @ \cup cur[w].tokens]
          /\ UNCHANGED <<tokens, todo, cur>>
      BY <1>7 DEF Learn, locals
    <2>2. matcher' \in [Proc -> SUBSET tokens] /\ cur[w].snippet # 0
      BY <1>7, <2>1 DEF Learn, Storing, TypeInv, Workers
    <2>3. Carried'
      BY <1>3, <2>1, <2>2 DEF Carried, TypeInv, Workers
    <2> QED
      BY <1>1, <1>2, <2>1, <2>2, <2>3, MoveOn
  <1>8. CASE StoreSnippet(w)
    <2>1. /\ cur' = [cur EXCEPT ![w] = Idle] /\ UNCHANGED <<tokens, matcher, todo>>
          /\ Goto(w, "next")
      BY <1>8 DEF StoreSnippet, envVars
    <2>2. Idle \in [snippet : 0..Len(memories), tokens : SUBSET tokens]
      BY Bounds DEF Idle
    <2>3. /\ cur' \in [Worker -> [snippet : 0..Len(memories), tokens : SUBSET tokens]]
          /\ \A v \in Worker : v # w => cur'[v] = cur[v]
      BY <2>1, <2>2 DEF TypeInv, Workers
    <2>4. Carried'
      BY <1>3, <2>1, <2>3 DEF Carried, TypeInv, Workers
    <2>5. "next" \in Steps \ Storing
      BY DEF Steps, Storing
    <2> QED
      BY <1>2, <2>1, <2>3, <2>4, <2>5, MoveOn
  <1> QED
    BY <1>5, <1>6, <1>7, <1>8

\* The steps that link a memory: it is one of the transcript, and its tokens are stored.
LEMMA LinkingWorkers ==
    ASSUME TypeInv, NEW w \in Worker, LinkMemory(w)
    PROVE  Workers'
  <1>1. PICK m \in transcript[w], stored \in SUBSET matcher[ProcOf(w)] :
            cur' = [cur EXCEPT ![w] = [snippet |-> m, tokens |-> stored]]
    BY DEF LinkMemory, First, Unlinked
  <1>2. PICK to \in {"link", "addLink"} : Goto(w, to)
    BY DEF LinkMemory
  <1>3. Running(w) /\ UNCHANGED <<memories, tokens, matcher, sess, wm, transcript, todo>>
    BY StepMoves DEF LinkMemory, Step
  <1>4. m \in 0..Len(memories) /\ stored \subseteq tokens
    BY ProcOfType, Bounds DEF TypeInv, Workers
  <1>5. /\ cur' \in [Worker -> [snippet : 0..Len(memories), tokens : SUBSET tokens]]
        /\ \A v \in Worker : v # w => cur'[v] = cur[v]
    BY <1>1, <1>4 DEF TypeInv, Workers
  <1>6. Carried'
    BY <1>3, <1>5 DEF Carried, TypeInv, Workers
  <1>7. to \in Steps \ Storing
    BY DEF Steps, Storing
  <1> QED
    BY <1>2, <1>3, <1>5, <1>6, <1>7, MoveOn

\* Every step, and a stuttering one.
LEMMA NextWorkers ==
    ASSUME TypeInv, [Next]_vars
    PROVE  Workers'
  <1>1. CASE UNCHANGED vars
    BY <1>1 DEF vars, envVars, locals, TypeInv, Workers, Running
  <1>2. ASSUME NEW w \in Worker, Step(w) PROVE Workers'
    <2>1. CASE Clear(w) \/ ClearMark(w) \/ Replace(w) \/ GiveUp(w) \/ CarryOn(w)
      <3>1. UNCHANGED carriedVars
        BY <2>1 DEF Clear, ClearMark, Replace, GiveUp, CarryOn, carriedVars, envVars, locals
      <3>2. pc'[w] \in Storing => pc[w] \in Storing
        BY <2>1 DEF Clear, ClearMark, Replace, GiveUp, CarryOn, Goto, Storing, TypeInv, Workers
      <3> QED
        BY <1>2, <3>1, <3>2, MoveOnAlone
    <2>2. CASE AddLink(w) \/ EndLinks(w) \/ ScanKeys(w) \/ ScanRows(w) \/ SwapIndexes(w)
      <3>1. UNCHANGED carriedVars
        BY <2>2 DEF AddLink, EndLinks, ScanKeys, ScanRows, SwapIndexes, carriedVars, envVars, locals
      <3>2. pc'[w] \notin Storing
        BY <2>2 DEF AddLink, EndLinks, ScanKeys, ScanRows, SwapIndexes, Goto, Storing, TypeInv, Workers
      <3> QED
        BY <1>2, <3>1, <3>2, MoveOnAlone
    <2> QED
      BY <1>2, <2>1, <2>2, ReadingWorkers, StoringWorkers, LinkingWorkers DEF Step
  <1> QED
    BY <1>1, <1>2, ProcessWorkers DEF Next

-----------------------------------------------------------------------------
(* What a step does to a worker *)

\* Its session and what it carries stay.
Keeps(v) ==
    /\ sess'[v] = sess[v]
    /\ wm'[v] = wm[v]
    /\ transcript'[v] = transcript[v]
    /\ todo'[v] = todo[v]
    /\ cur'[v] = cur[v]
    /\ scan'[v] = scan[v]

\* It dies with its process.
Dies(v) ==
    /\ Crash \/ Kill(v)
    /\ Running(v) /\ pc'[v] = "killed"

\* It is called, and nothing else happens that outlives the call.
Begins(v) ==
    /\ pc[v] \in (IF Kind[v] = "auto" THEN {"idle"} ELSE {"idle", "end", "failed"})
    /\ \E s \in Session : Spawn(v, s) /\ (Kind[v] # "auto" => MemoriesOf(s) # {})
    /\ \/ UNCHANGED matcher
       \/ Kind[v] # "auto" /\ matcher' = [matcher EXCEPT ![v] = tokens]
    /\ UNCHANGED <<storeVars, retrieverVars, memories, tokens, links, up, linkIndex, history>>

\* A step of a worker leaves the others where they are.
LEMMA StepKeepsOthers ==
    ASSUME TypeInv, NEW w \in Worker, NEW v \in Worker, v # w, Step(w)
    PROVE  pc'[v] = pc[v] /\ Keeps(v)
  <1> USE DEF TypeInv, Workers, Rows, Keeps
  <1>1. pc'[v] = pc[v]
    BY StepMoves DEF Goto
  <1>2. CASE Clear(w) \/ ClearMark(w) \/ Replace(w) \/ Learn(w) \/ AddLink(w) \/ EndLinks(w)
             \/ GiveUp(w) \/ CarryOn(w)
    BY <1>1, <1>2 DEF Clear, ClearMark, Replace, Learn, AddLink, EndLinks, GiveUp, CarryOn, locals
  <1>3. CASE ReadMark(w) \/ ReadMemories(w)
    BY <1>1, <1>3 DEF ReadMark, ReadMemories
  <1>4. CASE Distill(w)
    <2>1. PICK facts : todo' = [todo EXCEPT ![w] = facts]
      BY <1>4 DEF Distill
    <2> QED
      BY <1>1, <1>4, <2>1 DEF Distill
  <1>5. CASE Merge(w)
    BY <1>1, <1>5 DEF Merge
  <1>6. CASE NextSnippet(w)
    BY <1>1, <1>6 DEF NextSnippet
  <1>7. CASE LookupToken(w) \/ InsertToken(w)
    <2>1. PICK found : cur' = [cur EXCEPT ![w].tokens = found]
      BY <1>7 DEF LookupToken, InsertToken
    <2>2. UNCHANGED <<sess, wm, transcript, todo, scan>>
      BY <1>7 DEF LookupToken, InsertToken
    <2> QED
      BY <1>1, <2>1, <2>2
  <1>8. CASE StoreSnippet(w)
    BY <1>1, <1>8 DEF StoreSnippet
  <1>9. CASE ScanKeys(w) \/ ScanRows(w)
    BY <1>1, <1>9 DEF ScanKeys, ScanRows
  <1>10. CASE SwapIndexes(w) \/ SetMark(w)
    BY <1>1, <1>10 DEF SwapIndexes, SetMark
  <1>11. CASE LinkMemory(w)
    <2>1. PICK linking : cur' = [cur EXCEPT ![w] = linking]
      BY <1>11 DEF LinkMemory
    <2> QED
      BY <1>1, <1>11, <2>1 DEF LinkMemory
  <1> QED
    BY <1>2, <1>3, <1>4, <1>5, <1>6, <1>7, <1>8, <1>9, <1>10, <1>11 DEF Step

\* Every step of a worker moves it on, to another step or another memory, so no two
\* workers take one step together.
LEMMA StepMovesOn ==
    ASSUME TypeInv, NEW w \in Worker, Step(w)
    PROVE  pc'[w] # pc[w] \/ ~Keeps(w)
  <1> USE DEF Goto, TypeInv, Workers
  <1>1. CASE Clear(w) \/ ClearMark(w) \/ ReadMark(w)
    BY <1>1 DEF Clear, ClearMark, ReadMark
  <1>2. CASE ReadMemories(w)
    <2>1. \E to \in {"end", "distill"} : Goto(w, to)
      BY <1>2 DEF ReadMemories
    <2> QED
      BY <1>2, <2>1 DEF ReadMemories
  <1>3. CASE Distill(w)
    BY <1>3 DEF Distill
  <1>4. CASE Merge(w) \/ Replace(w) \/ Learn(w) \/ StoreSnippet(w)
    BY <1>4 DEF Merge, Replace, Learn, StoreSnippet
  <1>5. CASE NextSnippet(w)
    <2>1. \E to \in {"link", "lookup", "store"} : Goto(w, to)
      BY <1>5 DEF NextSnippet
    <2> QED
      BY <1>5, <2>1 DEF NextSnippet
  <1>6. CASE LookupToken(w) \/ InsertToken(w)
    <2>1. CASE LookupToken(w)
      BY <2>1 DEF LookupToken
    <2>2. CASE InsertToken(w)
      BY <2>2 DEF InsertToken
    <2> QED
      BY <1>6, <2>1, <2>2
  <1>7. CASE LinkMemory(w) \/ AddLink(w) \/ EndLinks(w)
    <2>1. CASE LinkMemory(w)
      <3>1. PICK m \in transcript[w], stored \in SUBSET matcher[ProcOf(w)] :
                cur' = [cur EXCEPT ![w] = [snippet |-> m, tokens |-> stored]]
        BY <2>1 DEF LinkMemory, First, Unlinked
      <3>2. cur'[w].snippet = m
        BY <3>1
      <3>3. m > cur[w].snippet /\ m \in Nat /\ cur[w].snippet \in Nat
        BY <2>1, <3>1, <3>2 DEF LinkMemory, First, Unlinked
      <3> QED
        BY <3>2, <3>3 DEF Keeps
    <2>2. CASE AddLink(w)
      BY <2>2 DEF AddLink
    <2>3. CASE EndLinks(w)
      <3>1. \E to \in {"scanKeys", "setMark"} : Goto(w, to)
        BY <2>3 DEF EndLinks
      <3> QED
        BY <2>3, <3>1 DEF EndLinks
    <2> QED
      BY <1>7, <2>1, <2>2, <2>3
  <1>8. CASE ScanKeys(w) \/ ScanRows(w) \/ SwapIndexes(w) \/ SetMark(w)
    BY <1>8 DEF ScanKeys, ScanRows, SwapIndexes, SetMark
  <1>9. CASE GiveUp(w)
    BY <1>9, StepMoves DEF GiveUp, Running, Finished
  <1>10. CASE CarryOn(w)
    BY <1>10 DEF CarryOn
  <1> QED
    BY <1>1, <1>2, <1>3, <1>4, <1>5, <1>6, <1>7, <1>8, <1>9, <1>10 DEF Step

\* A worker takes a step of its own, begins, dies, or stays where it is.
LEMMA WorkerMoves ==
    ASSUME TypeInv, [Next]_vars, NEW v \in Worker
    PROVE  \/ Step(v)
           \/ Begins(v)
           \/ Dies(v) /\ Keeps(v)
           \/ pc'[v] = pc[v] /\ Keeps(v)
  <1>1. CASE UNCHANGED vars
    BY <1>1 DEF vars, locals, Keeps
  <1>2. CASE \/ Start \/ Exit
             \/ \E p \in Proc : Interrupt(p)
             \/ \E s \in Session : StoreMemory(s) \/ RequestFails(s)
    BY <1>2 DEF Start, Exit, Interrupt, StoreMemory, RequestFails, locals, Keeps
  <1>3. CASE Crash
    <2>1. Keeps(v) /\ pc'[v] = IF Kind[v] = "auto" /\ Running(v) THEN "killed" ELSE pc[v]
      BY <1>3 DEF Crash, locals, Keeps
    <2> QED
      BY <1>3, <2>1 DEF Dies
  <1>4. CASE \E s \in Session : Arrive(s)
    <2>1. UNCHANGED <<storeVars, retrieverVars, memories, tokens, links, up, matcher, linkIndex,
                      history>>
      BY <1>4 DEF Arrive
    <2>2. CASE UNCHANGED <<pc, locals>>
      BY <2>2 DEF locals, Keeps
    <2>3. CASE active # NoSession /\ \E w \in Worker :
                  Kind[w] = "auto" /\ pc[w] = "idle" /\ Spawn(w, active)
      <3>1. PICK w \in Worker : Kind[w] = "auto" /\ pc[w] = "idle" /\ Spawn(w, active)
        BY <2>3
      <3>2. active \in Session
        BY <2>3 DEF TypeInv, Requests
      <3>3. CASE w = v
        BY <2>1, <3>1, <3>2, <3>3 DEF Begins
      <3>4. CASE w # v
        BY <3>1, <3>4 DEF Spawn, Goto, Keeps, TypeInv, Workers
      <3> QED
        BY <3>3, <3>4
    <2> QED
      BY <1>4, <2>2, <2>3 DEF Arrive
  <1>5. CASE \E w \in Worker : RunPass(w) \/ NextSession(w)
    <2>1. PICK w \in Worker : RunPass(w) \/ NextSession(w)
      BY <1>5
    <2>2. PICK s \in Session : MemoriesOf(s) # {} /\ Spawn(w, s)
      BY <2>1, SpawnsSession
    <2>3. CASE w = v
      <3>1. UNCHANGED <<storeVars, retrieverVars, memories, tokens, links, up, linkIndex, history>>
        BY <2>1 DEF RunPass, NextSession
      <3>2. /\ Kind[v] # "auto" /\ pc[v] \in {"idle", "end", "failed"}
            /\ UNCHANGED matcher \/ matcher' = [matcher EXCEPT ![v] = tokens]
        BY <2>1, <2>3 DEF RunPass, NextSession
      <3> QED
        BY <2>2, <2>3, <3>1, <3>2 DEF Begins
    <2>4. CASE w # v
      BY <2>2, <2>4 DEF Spawn, Goto, Keeps, TypeInv, Workers
    <2> QED
      BY <2>3, <2>4
  <1>6. CASE \E w \in Worker : Kill(w)
    <2>1. PICK w \in Worker : Kill(w)
      BY <1>6
    <2>2. Keeps(v)
      BY <2>1 DEF Kill, locals, Keeps
    <2>3. CASE w = v
      BY <2>1, <2>2, <2>3 DEF Kill, Dies, Goto, TypeInv, Workers
    <2>4. CASE w # v
      BY <2>1, <2>2, <2>4 DEF Kill, Goto, TypeInv, Workers
    <2> QED
      BY <2>3, <2>4
  <1>7. CASE \E w \in Worker : Step(w)
    BY <1>7, StepKeepsOthers
  <1> QED
    BY <1>1, <1>2, <1>3, <1>4, <1>5, <1>6, <1>7 DEF Next

\* A call begins at its first step.
LEMMA BeginsAt ==
    ASSUME TypeInv, NEW v \in Worker, Begins(v)
    PROVE  /\ pc' = [pc EXCEPT ![v] = IF Kind[v] = "force" THEN "clear" ELSE "readMark"]
           /\ pc'[v] \in {"clear", "readMark"} /\ sess'[v] \in Session
           /\ Serial => \A w \in Worker : ~Running(w)
  <1>1. PICK s \in Session : Spawn(v, s)
    BY DEF Begins
  <1>2. sess'[v] = s
    BY <1>1 DEF Spawn, TypeInv, Workers
  <1>3. pc' = [pc EXCEPT ![v] = IF Kind[v] = "force" THEN "clear" ELSE "readMark"]
    BY <1>1 DEF Spawn, Goto
  <1>4. pc'[v] \in {"clear", "readMark"}
    BY <1>3 DEF TypeInv, Workers
  <1> QED
    BY <1>1, <1>2, <1>3, <1>4 DEF Spawn

-----------------------------------------------------------------------------
(* Links and passes *)

\* Only LinkMemory stores links, only AddLink indexes one while serve runs, and only a
\* pass has a queue, which GiveUp may drop.
LEMMA LinksFrame ==
    ASSUME [Next]_vars
    PROVE  /\ UNCHANGED links \/ \E w \in Worker : LinkMemory(w)
           /\ UNCHANGED linkIndex \/ Start \/ Crash \/ Exit \/ \E w \in Worker : AddLink(w)
           /\ \/ UNCHANGED queue
              \/ \E w \in Worker : RunPass(w) \/ NextSession(w) \/ GiveUp(w)
  <1> USE DEF envVars
  <1>1. CASE UNCHANGED vars
    BY <1>1 DEF vars
  <1>2. CASE \/ Start \/ Crash \/ Exit
             \/ \E p \in Proc : Interrupt(p)
             \/ \E s \in Session : Arrive(s) \/ StoreMemory(s) \/ RequestFails(s)
    BY <1>2 DEF Start, Crash, Exit, Interrupt, Arrive, StoreMemory, RequestFails
  <1>3. CASE \E w \in Worker : RunPass(w) \/ NextSession(w) \/ Kill(w) \/ GiveUp(w)
    BY <1>3 DEF RunPass, NextSession, Kill, GiveUp
  <1>4. CASE \E w \in Worker :
                \/ Clear(w) \/ ClearMark(w) \/ ReadMark(w) \/ ReadMemories(w)
                \/ Distill(w) \/ Merge(w) \/ Replace(w)
    BY <1>4 DEF Clear, ClearMark, ReadMark, ReadMemories, Distill, Merge, Replace
  <1>5. CASE \E w \in Worker :
                \/ NextSnippet(w) \/ LookupToken(w) \/ InsertToken(w) \/ Learn(w) \/ StoreSnippet(w)
    BY <1>5 DEF NextSnippet, LookupToken, InsertToken, Learn, StoreSnippet
  <1>6. CASE \E w \in Worker : LinkMemory(w) \/ AddLink(w) \/ EndLinks(w)
    BY <1>6 DEF LinkMemory, AddLink, EndLinks
  <1>7. CASE \E w \in Worker : ScanKeys(w) \/ ScanRows(w) \/ SwapIndexes(w) \/ SetMark(w) \/ CarryOn(w)
    BY <1>7 DEF ScanKeys, ScanRows, SwapIndexes, SetMark, CarryOn
  <1> QED
    BY <1>1, <1>2, <1>3, <1>4, <1>5, <1>6, <1>7 DEF Next, Step

\* Links stay.
LEMMA LinksStay ==
    ASSUME [Next]_vars
    PROVE  links \subseteq links'
  BY LinksFrame DEF LinkMemory

\* A link is indexed only after it was stored.
LEMMA OnlyLinkMemoryLinks ==
    ASSUME TypeInv, NEW v \in Worker, Step(v), pc'[v] = "addLink"
    PROVE  LinkMemory(v)
  <1> USE DEF Goto, TypeInv, Workers
  <1>1. ~(Clear(v) \/ ClearMark(v) \/ ReadMark(v) \/ Merge(v) \/ Replace(v) \/ Learn(v)
            \/ StoreSnippet(v) \/ SetMark(v) \/ GiveUp(v))
    BY DEF Clear, ClearMark, ReadMark, Merge, Replace, Learn, StoreSnippet, SetMark, GiveUp
  <1>2. ~ReadMemories(v) /\ ~Distill(v)
    BY DEF ReadMemories, Distill
  <1>3. ~NextSnippet(v) /\ ~CarryOn(v)
    BY DEF NextSnippet, CarryOn
  <1>4. ~LookupToken(v) /\ ~InsertToken(v)
    BY DEF LookupToken, InsertToken
  <1>5. ~(AddLink(v) \/ EndLinks(v) \/ ScanKeys(v) \/ ScanRows(v) \/ SwapIndexes(v))
    BY DEF AddLink, EndLinks, ScanKeys, ScanRows, SwapIndexes
  <1> QED
    BY <1>1, <1>2, <1>3, <1>4, <1>5 DEF Step

\* LinkMemory stores what AddLink is going to index.
LEMMA LinkMemoryStores ==
    ASSUME TypeInv, NEW w \in Worker, LinkMemory(w)
    PROVE  links' = links \cup (cur'[w].tokens \X {cur'[w].snippet})
  <1>1. PICK m, stored : /\ links' = links \cup (stored \X {m})
                         /\ cur' = [cur EXCEPT ![w] = [snippet |-> m, tokens |-> stored]]
    BY DEF LinkMemory
  <1>2. cur'[w] = [snippet |-> m, tokens |-> stored]
    BY <1>1 DEF TypeInv, Workers
  <1> QED
    BY <1>1, <1>2

\* Every step, and a stuttering one.
LEMMA NextLinking ==
    ASSUME TypeInv, [Next]_vars
    PROVE  Linking'
  <1> SUFFICES ASSUME NEW v \in Worker, pc'[v] = "addLink"
               PROVE  cur'[v].tokens \X {cur'[v].snippet} \subseteq links'
    BY DEF Linking
  <1>1. CASE Step(v)
    BY <1>1, OnlyLinkMemoryLinks, LinkMemoryStores
  <1>2. ~Begins(v) /\ ~Dies(v)
    BY BeginsAt DEF Dies
  <1>3. CASE pc'[v] = pc[v] /\ Keeps(v)
    BY <1>3, LinksStay DEF Keeps, TypeInv, Linking
  <1> QED
    BY <1>1, <1>2, <1>3, WorkerMoves

\* Memories are never deleted.
LEMMA MemoriesGrow ==
    ASSUME TypeInv, [Next]_vars, NEW s
    PROVE  MemoriesOf(s) \subseteq MemoriesOf(s)'
  <1>1. CASE UNCHANGED memories
    BY <1>1 DEF MemoriesOf
  <1>2. CASE \E t \in Session : StoreMemory(t)
    <2>1. PICK t \in Session : StoreMemory(t)
      BY <1>2
    <2>2. /\ memories' = Append(memories, t) /\ 1..Len(memories) \subseteq 1..Len(memories')
          /\ memories \in Seq(Session)
      BY <2>1, StoreMemoryEffect DEF TypeInv, Tables
    <2>3. \A i \in 1..Len(memories) : memories'[i] = memories[i]
      BY <2>2
    <2> QED
      BY <2>2, <2>3 DEF MemoriesOf
  <1>3. CASE ~UNCHANGED rowVars /\ ~ \E t \in Session : StoreMemory(t)
    <2>1. \/ Start \/ Crash \/ Exit
          \/ \E w \in Worker :
                \/ Clear(w) \/ Replace(w) \/ StoreSnippet(w)
                \/ ScanKeys(w) \/ ScanRows(w) \/ SwapIndexes(w)
      BY <1>3, RowsFrame
    <2> QED
      BY <1>1, <2>1 DEF Start, Crash, Exit, Clear, Replace, StoreSnippet, ScanKeys, ScanRows,
                        SwapIndexes, envVars
  <1> QED
    BY <1>1, <1>2, <1>3 DEF rowVars

\* Every step, and a stuttering one.
LEMMA NextPasses ==
    ASSUME TypeInv, [Next]_vars
    PROVE  Passes'
  <1>1. /\ queue' \in [Worker -> SUBSET Session]
        /\ \A w \in Worker : \A s \in queue'[w] : MemoriesOf(s) # {}
    <2>1. CASE \E w \in Worker : RunPass(w)
      <3>1. PICK w \in Worker, s \in Session :
                queue' = [queue EXCEPT ![w] = {r \in Session : MemoriesOf(r) # {}} \ {s}]
        BY <2>1 DEF RunPass, Earliest
      <3> QED
        BY <3>1 DEF TypeInv, Passes
    <2>2. CASE \E w \in Worker : NextSession(w)
      BY <2>2 DEF NextSession, TypeInv, Passes
    <2>3. CASE \E w \in Worker : GiveUp(w)
      BY <2>3 DEF GiveUp, TypeInv, Passes
    <2>4. CASE UNCHANGED queue
      BY <2>4 DEF TypeInv, Passes
    <2> QED
      BY <2>1, <2>2, <2>3, <2>4, LinksFrame
  <1> QED
    BY <1>1, MemoriesGrow DEF Passes

-----------------------------------------------------------------------------
(* The theorem *)

\* The type invariant is inductive.
LEMMA NextTypeInv == TypeInv /\ [Next]_vars => TypeInv'
  BY NextTables, NextRows, NextRequests, NextWorkers, NextLinking, NextPasses DEF TypeInv

\* Whatever overlaps, fails and is killed, the tables, the indexes and what the
\* workers of distillOneSession carry name memories, tokens, links and rows that
\* exist, and no watermark is ahead of the memories.
THEOREM SessionTypeCorrect == Spec => []TypeOK
  <1>1. Init => TypeInv
    BY InitTypeInv
  <1>2. TypeInv /\ [Next]_vars => TypeInv'
    BY NextTypeInv
  <1>3. TypeInv => TypeOK
    BY TypeInvImplies
  <1> QED
    BY <1>1, <1>2, <1>3, PTL DEF Spec


-----------------------------------------------------------------------------
(* Foreign keys *)

\* With foreign keys enforced, deleting the rows of a session takes their semkeys
\* and no others.
LEMMA CascadeSweeps ==
    ASSUME ForeignKeys, SemkeysLive, NEW s, DeleteDistillationsBySessionID(s)
    PROVE  SemkeysLive'
  <1>1. /\ distillations' = distillations \ OfSession(s)
        /\ semkeys' = {row \in semkeys : \A d \in OfSession(s) : row[2] # d.id}
    BY DEF DeleteDistillationsBySessionID
  <1> SUFFICES ASSUME NEW row \in semkeys' PROVE row[2] \in LiveIDs'
    BY DEF SemkeysLive
  <1>2. row \in semkeys /\ \A d \in OfSession(s) : row[2] # d.id
    BY <1>1
  <1>3. PICK d \in distillations : row[2] = d.id
    BY <1>2 DEF SemkeysLive, LiveIDs
  <1>4. d \in distillations'
    BY <1>1, <1>2, <1>3
  <1> QED
    BY <1>3, <1>4 DEF LiveIDs

\* "Semkey rows are removed automatically via ON DELETE CASCADE" (store.go) is true
\* of every connection that enforces foreign keys, whatever overlaps, fails and is
\* killed: that openSharedDB does not ask for it is the one reason why SemkeysLive is
\* violated.
THEOREM ForeignKeysKeepSemkeysLive ==
    ASSUME ForeignKeys
    PROVE  Spec => []SemkeysLive
  <1>1. Init => TypeInv /\ SemkeysLive
    BY InitTypeInv DEF Init, InitStore, SemkeysLive
  <1>2. TypeInv /\ SemkeysLive /\ [Next]_vars => (TypeInv /\ SemkeysLive)'
    <2> SUFFICES ASSUME TypeInv, SemkeysLive, [Next]_vars PROVE SemkeysLive'
      BY NextTypeInv
    <2>1. CASE UNCHANGED <<distillations, semkeys>>
      BY <2>1 DEF SemkeysLive, LiveIDs
    <2>2. CASE \E w \in Worker : Clear(w) \/ Replace(w)
      BY <2>2, CascadeSweeps DEF Clear, Replace
    <2>3. CASE \E w \in Worker : StoreSnippet(w)
      <3>1. PICK w \in Worker : StoreSnippet(w)
        BY <2>3
      <3> DEFINE row == [id |-> nextID, session |-> sess[w], snippet |-> cur[w].snippet,
                         tokens |-> cur[w].tokens]
      <3>2. /\ distillations' = distillations \cup {row}
            /\ semkeys' = semkeys \cup (SnippetKeys[cur[w].snippet] \X {nextID})
        BY <3>1 DEF StoreSnippet, InsertDistillation
      <3>3. row.id = nextID
        OBVIOUS
      <3> HIDE DEF row
      <3>4. LiveIDs' = LiveIDs \cup {nextID}
        BY <3>2, <3>3 DEF LiveIDs
      <3> QED
        BY <3>2, <3>4 DEF SemkeysLive
    <2> QED
      BY <2>1, <2>2, <2>3, RowsFrame
         DEF Start, Crash, Exit, StoreMemory, ScanKeys, ScanRows, SwapIndexes, storeVars, rowVars
  <1> QED
    BY <1>1, <1>2, PTL DEF Spec
===============================================================================
