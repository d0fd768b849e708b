-------------------------- MODULE MemoryIndexProofs --------------------------
(***************************************************************************)
(* Theorems about MemoryIndex for any set of processes, requests, keys and *)
(* tokens.  IInv is the inductive invariant; the second part of the module *)
(* adds what the uniqueness of turn ids needs, the third shows that the    *)
(* write path implements MemoryLog.                                        *)
(***************************************************************************)
EXTENDS MemoryIndex, SequenceTheorems, TLAPS

\* Every request that has an id: the row it stored is still what it stored.
RowsKept ==
    \A r \in Request : memID[r] # 0 =>
        memories[memID[r]] = [turn |-> turn[r], keys |-> semKey[r]]

\* Only a running process has requests on their way.
InFlightServed == \A r \in Request : pc[r] \in InFlight => up[Host[r]]

\* A request has no id before its insert, and no two requests share one.
IDsOwned ==
    /\ \A r \in Request : pc[r] \in {"idle", "turn", "insert"} => memID[r] = 0
    /\ \A r, s \in Request : memID[r] = memID[s] /\ memID[r] # 0 => r = s

\* The links a request has stored, from the step that stores them, and the same
\* links in the process's index from the step that has added the last one.
LinksStored ==
    \A r \in Request :
        /\ pc[r] \in {"addlinks", "refresh", "done"} =>
            matched[r] \X {memID[r]} \subseteq links
        /\ pc[r] \in {"refresh", "done"} /\ up[Host[r]] =>
            matched[r] \X {memID[r]} \subseteq personalIndex[Host[r]]

\* A stored link belongs to a request that has it among its tokens.
LinksOwned ==
    \A link \in links : \E r \in Request :
        /\ memID[r] = link[2]
        /\ link[1] \in matched[r]

IInv ==
    /\ TypeOK
    /\ IndexIsPrefix
    /\ AnsweredIsSearchable
    /\ LinksMirrored
    /\ InFlightServed
    /\ IDsOwned
    /\ RowsKept
    /\ LinksStored
    /\ LinksOwned

-----------------------------------------------------------------------------
(* The rows of the store *)

\* What SemKeysSince returns, row by row.
LEMMA SemKeyRows ==
    ASSUME NEW after
    PROVE  \A k, i : <<k, i>> \in SemKeysSince(after) <=>
                k \in Key /\ i \in MemoryIDs /\ i > after /\ k \in memories[i].keys
BY DEF SemKeysSince, MemoryIDs

\* The same, for a row that is not taken apart.
LEMMA SemKeyPairs ==
    ASSUME NEW after
    PROVE  /\ SemKeysSince(after) \subseteq Key \X MemoryIDs
           /\ \A row \in Key \X MemoryIDs : row \in SemKeysSince(after) <=>
                row[2] > after /\ row[1] \in memories[row[2]].keys
BY DEF SemKeysSince

\* Every row is a turn and a set of keys.
LEMMA RowTypes ==
    ASSUME memories \in Seq([turn : Nat, keys : SUBSET Key])
    PROVE  \A i \in MemoryIDs : memories[i].turn \in Nat /\ memories[i].keys \in SUBSET Key
<1>1. \A i \in MemoryIDs : memories[i] \in [turn : Nat, keys : SUBSET Key]
  BY ElementOfSeq DEF MemoryIDs
<1> QED BY <1>1

\* The watermark a process takes over bounds every row it has read.
LEMMA LastIDBounds ==
    ASSUME memories \in Seq([turn : Nat, keys : SUBSET Key]),
           NEW least \in 0..Len(memories), NEW after,
           NEW top \in LastIDs(least, SemKeysSince(after))
    PROVE  /\ top \in 0..Len(memories)
           /\ top >= least
           /\ \A row \in SemKeysSince(after) : row[2] <= top
<1>1. \A row \in SemKeysSince(after) : row[2] \in 1..Len(memories)
  BY SemKeyPairs DEF MemoryIDs
<1> QED BY <1>1 DEF LastIDs, Highest

\* Appending a memory leaves every earlier row where it was.
LEMMA AppendKeeps ==
    ASSUME memories \in Seq([turn : Nat, keys : SUBSET Key]),
           NEW m \in [turn : Nat, keys : SUBSET Key],
           memories' = Append(memories, m)
    PROVE  /\ memories' \in Seq([turn : Nat, keys : SUBSET Key])
           /\ Len(memories') = Len(memories) + 1
           /\ MemoryIDs \subseteq MemoryIDs'
           /\ \A i \in MemoryIDs : memories'[i] = memories[i]
           /\ memories'[Len(memories) + 1] = m
           /\ \A k, i : i \in MemoryIDs =>
                (<<k, i>> \in AllSemKeys' <=> <<k, i>> \in AllSemKeys)
BY DEF MemoryIDs, AllSemKeys, SemKeysSince

-----------------------------------------------------------------------------
(* The inductive invariant, one lemma per action *)

\* The program starts with an empty database and with no process up.
LEMMA InitIInv == Init => IInv
<1> SUFFICES ASSUME Init PROVE IInv
  OBVIOUS
<1> USE DEF Init
<1>1. memories \in Seq([turn : Nat, keys : SUBSET Key]) /\ Len(memories) = 0
  OBVIOUS
<1>2. TypeOK
  BY <1>1 DEF TypeOK, Answered, InFlight, MemoryIDs
<1>3. IndexIsPrefix /\ LinksMirrored
  BY DEF IndexIsPrefix, LinksMirrored
<1>4. AnsweredIsSearchable /\ InFlightServed /\ LinksStored
  BY DEF AnsweredIsSearchable, InFlightServed, LinksStored, InFlight
<1>5. IDsOwned /\ RowsKept /\ LinksOwned
  BY DEF IDsOwned, RowsKept, LinksOwned
<1> QED BY <1>2, <1>3, <1>4, <1>5 DEF IInv

\* Open, NewPersonalRetriever and MaxTurnID read a consistent picture (main).
LEMMA StartIInv == ASSUME IInv, NEW p \in Process, Start(p) PROVE IInv'
<1> USE DEF IInv
<1>1. /\ UNCHANGED <<memories, links, pc, semKey, matched, turn, memID>>
      /\ MemoryIDs' = MemoryIDs /\ AllSemKeys' = AllSemKeys
  BY DEF Start, durable, request, MemoryIDs, AllSemKeys, SemKeysSince
<1>2. PICK top \in LastIDs(0, AllSemKeys) : lastID' = [lastID EXCEPT ![p] = top]
  BY DEF Start
<1>3. /\ top \in 0..Len(memories)
      /\ AllSemKeys \subseteq Key \X MemoryIDs
      /\ \A row \in AllSemKeys : row[2] <= top
  <2>1. 0 \in 0..Len(memories) /\ top \in LastIDs(0, SemKeysSince(0))
    BY <1>2 DEF AllSemKeys, TypeOK
  <2>2. SemKeysSince(0) \subseteq Key \X MemoryIDs
    BY SemKeyPairs
  <2> QED BY <2>1, <2>2, LastIDBounds DEF AllSemKeys, TypeOK
<1>4. TypeOK'
  <2>1. \A n \in MaxTurnID : n \in Nat
    BY DEF MaxTurnID, Highest, TypeOK, MemoryIDs
  <2> QED BY <1>1, <1>2, <1>3, <2>1 DEF TypeOK, Start
<1>5. IndexIsPrefix'
  <2>1. \A q \in Process \ {p} : index'[q] = index[q] /\ up'[q] = up[q] /\ lastID'[q] = lastID[q]
    BY <1>2 DEF Start, TypeOK
  <2>2. index'[p] = AllSemKeys /\ up'[p] /\ lastID'[p] = top
    BY <1>2 DEF Start, TypeOK
  <2> QED BY <1>1, <1>3, <2>1, <2>2 DEF IndexIsPrefix
<1>6. AnsweredIsSearchable' /\ LinksStored'
  BY <1>1 DEF AnsweredIsSearchable, LinksStored, Start, TypeOK
<1>7. LinksMirrored'
  BY <1>1 DEF LinksMirrored, Start, TypeOK
<1>8. InFlightServed' /\ IDsOwned' /\ RowsKept' /\ LinksOwned'
  BY <1>1, HostAssumption DEF InFlightServed, IDsOwned, RowsKept, LinksOwned, Start, TypeOK
<1> QED BY <1>4, <1>5, <1>6, <1>7, <1>8

\* A process that ends takes its indexes and its requests with it.
LEMMA StopIInv == ASSUME IInv, NEW p \in Process, Stop(p) PROVE IInv'
<1> USE DEF IInv
<1>1. /\ UNCHANGED <<memories, links, semKey, matched, turn, memID>>
      /\ MemoryIDs' = MemoryIDs /\ AllSemKeys' = AllSemKeys
  BY DEF Stop, durable, MemoryIDs, AllSemKeys, SemKeysSince
<1>2. \A r \in Request :
        /\ pc'[r] # pc[r] => Host[r] = p /\ pc[r] \in InFlight /\ pc'[r] = "lost"
        /\ Host[r] = p => pc'[r] \notin InFlight
  BY DEF Stop, InFlight
<1>3. TypeOK'
  BY <1>1 DEF TypeOK, Stop, InFlight
<1>4. IndexIsPrefix'
  BY <1>1 DEF IndexIsPrefix, Stop, TypeOK
<1>5. AnsweredIsSearchable' /\ LinksStored'
  BY <1>1, <1>2, HostAssumption DEF AnsweredIsSearchable, LinksStored, Stop, TypeOK
<1>6. LinksMirrored'
  <2> SUFFICES ASSUME NEW q \in Process, up'[q]
               PROVE  /\ personalIndex'[q] \subseteq links
                      /\ \A link \in links \ personalIndex'[q] : \E r \in Request :
                            memID[r] = link[2] /\ (pc'[r] = "addlinks" \/ Host[r] # q)
    BY <1>1 DEF LinksMirrored
  <2>1. q # p /\ up[q] /\ personalIndex'[q] = personalIndex[q]
    BY DEF Stop, TypeOK
  <2>2. \A r \in Request : pc[r] = "addlinks" => pc'[r] = "addlinks" \/ Host[r] # q
    BY <1>2, <2>1
  <2> QED BY <2>1, <2>2 DEF LinksMirrored
<1>7. InFlightServed'
  BY <1>2, HostAssumption DEF InFlightServed, Stop, TypeOK
<1>8. IDsOwned' /\ RowsKept' /\ LinksOwned'
  BY <1>1, <1>2 DEF IDsOwned, RowsKept, LinksOwned, InFlight
<1> QED BY <1>3, <1>4, <1>5, <1>6, <1>7, <1>8

\* A step that touches neither the links nor the personal indexes, and no request
\* that has an id, keeps what is said about links.
LEMMA LinksFrame ==
    ASSUME TypeOK, LinksMirrored, LinksOwned,
           UNCHANGED <<links, up, personalIndex>>,
           \A s \in Request : memID[s] # 0 =>
                /\ memID'[s] = memID[s] /\ matched'[s] = matched[s]
                /\ pc[s] = "addlinks" => pc'[s] = "addlinks"
    PROVE  LinksMirrored' /\ LinksOwned'
<1>1. \A link \in links : link[2] # 0
  BY DEF TypeOK, MemoryIDs
<1>2. \A link \in links, s \in Request : memID[s] = link[2] =>
        /\ memID'[s] = link[2] /\ matched'[s] = matched[s]
        /\ pc[s] = "addlinks" => pc'[s] = "addlinks"
  BY <1>1
<1>3. LinksMirrored'
  BY <1>2 DEF LinksMirrored
<1>4. LinksOwned'
  BY <1>2 DEF LinksOwned
<1> QED BY <1>3, <1>4

\* A request that arrives has stored nothing yet (Ingest, Chat).
LEMMA ReceiveIInv == ASSUME IInv, NEW r \in Request, Receive(r) PROVE IInv'
<1> USE DEF IInv
<1>1. /\ UNCHANGED <<memories, links, up, index, lastID, turnSeq, personalIndex, turn, memID>>
      /\ MemoryIDs' = MemoryIDs /\ AllSemKeys' = AllSemKeys
  BY DEF Receive, durable, volatile, MemoryIDs, AllSemKeys, SemKeysSince
<1>2. /\ pc[r] = "idle" /\ up[Host[r]] /\ pc' = [pc EXCEPT ![r] = "turn"]
      /\ memID[r] = 0
      /\ \A s \in Request \ {r} : semKey'[s] = semKey[s] /\ matched'[s] = matched[s]
  BY DEF Receive, Goto, TypeOK, IDsOwned
<1>3. TypeOK'
  BY <1>1, <1>2 DEF TypeOK, Receive, InFlight
<1>4. IndexIsPrefix' /\ InFlightServed' /\ IDsOwned'
  BY <1>1, <1>2 DEF IndexIsPrefix, InFlightServed, IDsOwned, TypeOK
<1>5. AnsweredIsSearchable' /\ LinksStored' /\ RowsKept'
  BY <1>1, <1>2 DEF AnsweredIsSearchable, LinksStored, RowsKept, TypeOK
<1>6. LinksMirrored' /\ LinksOwned'
  <2>1. \A s \in Request : memID[s] # 0 =>
            /\ memID'[s] = memID[s] /\ matched'[s] = matched[s]
            /\ pc[s] = "addlinks" => pc'[s] = "addlinks"
    BY <1>1, <1>2 DEF TypeOK
  <2> QED BY <1>1, <2>1, LinksFrame
<1> QED BY <1>3, <1>4, <1>5, <1>6

\* turnSeq.Add moves the counter and nothing that is stored.
LEMMA DrawTurnIInv == ASSUME IInv, NEW r \in Request, DrawTurn(r) PROVE IInv'
<1> USE DEF IInv
<1>1. /\ UNCHANGED <<memories, links, up, index, lastID, personalIndex, semKey, matched, memID>>
      /\ MemoryIDs' = MemoryIDs /\ AllSemKeys' = AllSemKeys
  BY DEF DrawTurn, durable, MemoryIDs, AllSemKeys, SemKeysSince
<1>2. /\ pc[r] = "turn" /\ pc' = [pc EXCEPT ![r] = "insert"]
      /\ memID[r] = 0
      /\ \A s \in Request \ {r} : turn'[s] = turn[s]
  BY DEF DrawTurn, Goto, TypeOK, IDsOwned
<1>3. TypeOK'
  <2>1. Host[r] \in Process
    BY HostAssumption
  <2> QED BY <1>1, <1>2, <2>1 DEF TypeOK, DrawTurn, InFlight
<1>4. IndexIsPrefix' /\ InFlightServed' /\ IDsOwned'
  BY <1>1, <1>2 DEF IndexIsPrefix, InFlightServed, IDsOwned, TypeOK, InFlight
<1>5. AnsweredIsSearchable' /\ LinksStored' /\ RowsKept'
  BY <1>1, <1>2 DEF AnsweredIsSearchable, LinksStored, RowsKept, TypeOK
<1>6. LinksMirrored' /\ LinksOwned'
  <2>1. \A s \in Request : pc[s] = "addlinks" => pc'[s] = "addlinks"
    BY <1>2 DEF TypeOK
  <2> QED BY <1>1, <2>1, LinksFrame
<1> QED BY <1>3, <1>4, <1>5, <1>6

\* store.Insert appends above every watermark, so no index gets a hole.
LEMMA InsertIInv == ASSUME IInv, NEW r \in Request, Insert(r) PROVE IInv'
<1> USE DEF IInv
<1> DEFINE m == [turn |-> turn[r], keys |-> semKey[r]]
           id == Len(memories) + 1
<1>1. /\ UNCHANGED <<links, up, index, lastID, turnSeq, personalIndex, semKey, matched, turn>>
      /\ memories' = Append(memories, m)
      /\ m \in [turn : Nat, keys : SUBSET Key]
  BY DEF Insert, volatile, TypeOK
<1>2. /\ pc[r] = "insert" /\ up[Host[r]]
      /\ memID[r] = 0 /\ memID' = [memID EXCEPT ![r] = id]
      /\ pc'[r] \in {"link", "refresh"}
      /\ pc'[r] = "refresh" => matched[r] = {}
      /\ \A s \in Request \ {r} : pc'[s] = pc[s] /\ memID'[s] = memID[s]
      /\ pc' \in [Request -> InFlight \cup Answered \cup {"idle", "lost"}]
  BY DEF Insert, Goto, TypeOK, IDsOwned, InFlightServed, InFlight
<1>3. /\ memories' \in Seq([turn : Nat, keys : SUBSET Key])
      /\ Len(memories') = id /\ memories'[id] = m
      /\ MemoryIDs \subseteq MemoryIDs'
      /\ \A i \in MemoryIDs : memories'[i] = memories[i]
      /\ \A row : row[2] \in MemoryIDs => (row \in AllSemKeys' <=> row \in AllSemKeys)
      /\ \A row \in AllSemKeys' : row[2] \in MemoryIDs \cup {id}
      /\ id \notin MemoryIDs /\ Len(memories) \in Nat
  BY <1>1, AppendKeeps DEF TypeOK, MemoryIDs, AllSemKeys, SemKeysSince
<1>4. \A s \in Request : memID[s] \in MemoryIDs \cup {0}
  BY DEF TypeOK, MemoryIDs
<1>5. TypeOK'
  BY <1>1, <1>2, <1>3 DEF TypeOK, MemoryIDs
<1>6. IndexIsPrefix'
  <2>1. \A q \in Process : {row \in AllSemKeys' : row[2] <= lastID[q]}
                            = {row \in AllSemKeys : row[2] <= lastID[q]}
    BY <1>3 DEF TypeOK, MemoryIDs, AllSemKeys, SemKeysSince
  <2> QED BY <1>1, <2>1 DEF IndexIsPrefix
<1>7. AnsweredIsSearchable' /\ LinksStored' /\ InFlightServed'
  BY <1>1, <1>2, <1>3, <1>4 DEF AnsweredIsSearchable, LinksStored, InFlightServed, MemoryIDs
<1>8. IDsOwned'
  BY <1>2, <1>3, <1>4 DEF IDsOwned, TypeOK
<1>9. RowsKept'
  <2>1. \A s \in Request \ {r} : memID'[s] # 0 =>
            memories'[memID'[s]] = [turn |-> turn[s], keys |-> semKey[s]]
    <3> SUFFICES ASSUME NEW s \in Request \ {r}, memID'[s] # 0
                 PROVE  memories'[memID'[s]] = [turn |-> turn[s], keys |-> semKey[s]]
      OBVIOUS
    <3>1. memID'[s] = memID[s] /\ memID[s] \in MemoryIDs
      BY <1>2, <1>4
    <3>2. memories'[memID[s]] = memories[memID[s]]
      BY <1>3, <3>1
    <3> QED BY <3>1, <3>2 DEF RowsKept
  <2>2. memories'[memID'[r]] = m
    BY <1>2, <1>3 DEF TypeOK
  <2> QED BY <1>1, <2>1, <2>2 DEF RowsKept
<1>10. LinksMirrored' /\ LinksOwned'
  <2>1. \A s \in Request : memID[s] # 0 =>
            /\ memID'[s] = memID[s] /\ matched'[s] = matched[s]
            /\ pc[s] = "addlinks" => pc'[s] = "addlinks"
    BY <1>1, <1>2
  <2> QED BY <1>1, <2>1, LinksFrame
<1> QED BY <1>5, <1>6, <1>7, <1>8, <1>9, <1>10

\* LinkMemory stores the links its request is about to add to the index.
LEMMA LinkMemoryIInv == ASSUME IInv, NEW r \in Request, LinkMemory(r) PROVE IInv'
<1> USE DEF IInv
<1> DEFINE new == matched[r] \X {memID[r]}
<1>1. /\ UNCHANGED <<memories, up, index, lastID, turnSeq, personalIndex, semKey, matched, turn, memID>>
      /\ MemoryIDs' = MemoryIDs /\ AllSemKeys' = AllSemKeys
      /\ links' = links \cup new
  BY DEF LinkMemory, volatile, MemoryIDs, AllSemKeys, SemKeysSince
<1>2. /\ pc[r] = "link" /\ pc' = [pc EXCEPT ![r] = "addlinks"]
      /\ memID[r] \in MemoryIDs /\ matched[r] \subseteq Token
  BY DEF LinkMemory, Goto, TypeOK, MemoryIDs
<1>3. TypeOK'
  BY <1>1, <1>2 DEF TypeOK, InFlight
<1>4. IndexIsPrefix' /\ InFlightServed' /\ IDsOwned' /\ RowsKept'
  BY <1>1, <1>2 DEF IndexIsPrefix, InFlightServed, IDsOwned, RowsKept, TypeOK, InFlight
<1>5. AnsweredIsSearchable' /\ LinksStored'
  BY <1>1, <1>2 DEF AnsweredIsSearchable, LinksStored, TypeOK
<1>6. \A link \in new : link[1] \in matched[r] /\ link[2] = memID[r]
  OBVIOUS
<1>7. LinksMirrored'
  <2>1. \A s \in Request : pc[s] = "addlinks" => pc'[s] = "addlinks"
    BY <1>2 DEF TypeOK
  <2>2. pc'[r] = "addlinks"
    BY <1>2 DEF TypeOK
  <2> QED BY <1>1, <1>6, <2>1, <2>2 DEF LinksMirrored
<1>8. LinksOwned'
  BY <1>1, <1>6 DEF LinksOwned
<1> QED BY <1>3, <1>4, <1>5, <1>7, <1>8

\* AddLink follows the stored links, the last one ending the loop.
LEMMA AddLinkIInv == ASSUME IInv, NEW r \in Request, AddLink(r) PROVE IInv'
<1> USE DEF IInv
<1> DEFINE p == Host[r]
           unlinked == {t \in matched[r] : <<t, memID[r]>> \notin personalIndex[p]}
<1>1. /\ UNCHANGED <<memories, links, up, index, lastID, turnSeq, semKey, matched, turn, memID>>
      /\ MemoryIDs' = MemoryIDs /\ AllSemKeys' = AllSemKeys
  BY DEF AddLink, durable, MemoryIDs, AllSemKeys, SemKeysSince
<1>2. PICK t \in unlinked :
        /\ personalIndex' = [personalIndex EXCEPT ![p] = @ \cup {<<t, memID[r]>>}]
        /\ pc' = [pc EXCEPT ![r] = IF unlinked = {t} THEN "refresh" ELSE "addlinks"]
  BY DEF AddLink, Goto
<1>3. /\ pc[r] = "addlinks" /\ p \in Process /\ up[p]
      /\ memID[r] \in MemoryIDs /\ matched[r] \subseteq Token
      /\ matched[r] \X {memID[r]} \subseteq links
      /\ pc'[r] \in {"refresh", "addlinks"}
      /\ \A s \in Request \ {r} : pc'[s] = pc[s]
      /\ personalIndex'[p] = personalIndex[p] \cup {<<t, memID[r]>>}
      /\ \A q \in Process \ {p} : personalIndex'[q] = personalIndex[q]
  <2>1. pc[r] = "addlinks" /\ p \in Process
    BY HostAssumption DEF AddLink
  <2>2. up[p] /\ memID[r] \in MemoryIDs /\ matched[r] \subseteq Token
    BY <2>1 DEF TypeOK, MemoryIDs, InFlightServed, InFlight
  <2>3. matched[r] \X {memID[r]} \subseteq links
    BY <2>1 DEF LinksStored
  <2>4. pc'[r] \in {"refresh", "addlinks"} /\ \A s \in Request \ {r} : pc'[s] = pc[s]
    BY <1>2 DEF TypeOK
  <2>5. /\ personalIndex'[p] = personalIndex[p] \cup {<<t, memID[r]>>}
        /\ \A q \in Process \ {p} : personalIndex'[q] = personalIndex[q]
    BY <1>2, <2>1 DEF TypeOK
  <2> QED BY <2>1, <2>2, <2>3, <2>4, <2>5
<1>4. <<t, memID[r]>> \in links /\ <<t, memID[r]>> \in Token \X MemoryIDs
  BY <1>3
<1>5. TypeOK'
  BY <1>1, <1>2, <1>3, <1>4 DEF TypeOK, InFlight
<1>6. IndexIsPrefix' /\ InFlightServed' /\ IDsOwned' /\ RowsKept'
  BY <1>1, <1>3 DEF IndexIsPrefix, InFlightServed, IDsOwned, RowsKept, InFlight
<1>7. pc'[r] = "refresh" => matched[r] \X {memID[r]} \subseteq personalIndex'[p]
  <2> SUFFICES ASSUME unlinked = {t}, NEW u \in matched[r]
               PROVE  <<u, memID[r]>> \in personalIndex'[p]
    BY <1>2, <1>3 DEF TypeOK
  <2> QED BY <1>3
<1>8. LinksStored'
  <2>1. \A s \in Request \ {r} : personalIndex[Host[s]] \subseteq personalIndex'[Host[s]]
    BY <1>3, HostAssumption
  <2> QED BY <1>1, <1>3, <1>7, <2>1 DEF LinksStored
<1>9. AnsweredIsSearchable'
  BY <1>1, <1>3, <1>8 DEF AnsweredIsSearchable, LinksStored
<1>10. LinksMirrored'
  <2> SUFFICES ASSUME NEW q \in Process, up[q]
               PROVE  /\ personalIndex'[q] \subseteq links
                      /\ \A link \in links \ personalIndex'[q] : \E s \in Request :
                            memID[s] = link[2] /\ (pc'[s] = "addlinks" \/ Host[s] # q)
    BY <1>1 DEF LinksMirrored
  <2>1. personalIndex'[q] \subseteq links
    BY <1>3, <1>4 DEF LinksMirrored
  <2>2. ASSUME NEW link \in links \ personalIndex'[q]
        PROVE  \E s \in Request : memID[s] = link[2] /\ (pc'[s] = "addlinks" \/ Host[s] # q)
    <3>1. PICK s \in Request : memID[s] = link[2] /\ (pc[s] = "addlinks" \/ Host[s] # q)
      <4>1. link \notin personalIndex[q]
        BY <1>3
      <4> QED BY <4>1 DEF LinksMirrored
    <3>2. CASE s # r \/ Host[r] # q \/ pc'[r] = "addlinks"
      BY <1>3, <3>1, <3>2
    <3>3. CASE s = r /\ q = p /\ pc'[r] = "refresh"
      \* Then link is one of r's own, and r has just added the last of those.
      <4>1. PICK o \in Request : memID[o] = link[2] /\ link[1] \in matched[o]
        BY DEF LinksOwned
      <4>2. o = r
        BY <1>3, <3>1, <3>3, <4>1 DEF IDsOwned, MemoryIDs
      <4>3. link = <<link[1], memID[r]>>
        BY <3>1, <3>3 DEF TypeOK
      <4> QED BY <1>7, <3>3, <4>1, <4>2, <4>3
    <3> QED BY <1>3, <3>2, <3>3
  <2> QED BY <2>1, <2>2
<1>11. LinksOwned'
  BY <1>1 DEF LinksOwned
<1> QED BY <1>5, <1>6, <1>8, <1>9, <1>10, <1>11

\* Refresh reads every row above the watermark, so the prefix only grows.
LEMMA RefreshIInv == ASSUME IInv, NEW r \in Request, Refresh(r) PROVE IInv'
<1> USE DEF IInv
<1> DEFINE p == Host[r]
           rows == SemKeysSince(lastID[p])
<1>1. /\ UNCHANGED <<memories, links, up, turnSeq, personalIndex, semKey, matched, turn, memID>>
      /\ MemoryIDs' = MemoryIDs /\ AllSemKeys' = AllSemKeys
  BY DEF Refresh, durable, MemoryIDs, AllSemKeys, SemKeysSince
<1>2. PICK top \in LastIDs(lastID[p], rows) : lastID' = [lastID EXCEPT ![p] = top]
  BY DEF Refresh
<1>3. /\ pc[r] = "refresh" /\ pc' = [pc EXCEPT ![r] = "done"]
      /\ index' = [index EXCEPT ![p] = @ \cup rows]
      /\ p \in Process /\ up[p] /\ lastID[p] \in 0..Len(memories)
  BY HostAssumption DEF Refresh, Goto, TypeOK, InFlightServed, InFlight
<1>4. /\ top \in 0..Len(memories) /\ top >= lastID[p]
      /\ \A row \in rows : row[2] <= top
      /\ rows \subseteq Key \X MemoryIDs
  BY <1>2, <1>3, LastIDBounds, SemKeyPairs DEF TypeOK
<1>5. index'[p] = AllSemKeys /\ AllSemKeys \subseteq index'[p]
  <2>1. index[p] \cup rows = AllSemKeys
    BY <1>3, <1>4, SemKeyPairs DEF IndexIsPrefix, AllSemKeys, SemKeysSince, MemoryIDs, TypeOK
  <2> QED BY <1>3, <2>1 DEF TypeOK
<1>6. \A row \in AllSemKeys : row[2] <= top
  <2>1. ASSUME NEW row \in AllSemKeys PROVE row \in rows \/ row[2] <= lastID[p]
    BY <1>3, <2>1 DEF AllSemKeys, SemKeysSince, MemoryIDs, TypeOK
  <2>2. \A row \in AllSemKeys : row[2] \in Int
    BY DEF AllSemKeys, SemKeysSince, MemoryIDs
  <2> QED BY <1>3, <1>4, <2>1, <2>2
<1>7. \A q \in Process \ {p} : index'[q] = index[q] /\ lastID'[q] = lastID[q]
  BY <1>2, <1>3 DEF TypeOK
<1>8. TypeOK'
  BY <1>1, <1>2, <1>3, <1>4 DEF TypeOK, Answered
<1>9. IndexIsPrefix'
  <2>1. lastID'[p] = top
    BY <1>2, <1>3 DEF TypeOK
  <2>2. index'[p] = {row \in AllSemKeys : row[2] <= lastID'[p]}
    BY <1>5, <1>6, <2>1
  <2> QED BY <1>1, <1>3, <1>7, <2>2 DEF IndexIsPrefix
<1>10. AnsweredIsSearchable'
  <2>1. matched[r] \X {memID[r]} \subseteq personalIndex[p]
    BY <1>3 DEF LinksStored
  <2>2. \A s \in Request \ {r} : pc'[s] = pc[s]
    BY <1>3 DEF TypeOK
  <2>3. \A s \in Request : Host[s] \in Process
    BY HostAssumption
  <2> QED BY <1>1, <1>5, <1>7, <2>1, <2>2, <2>3 DEF AnsweredIsSearchable
<1>11. InFlightServed' /\ IDsOwned' /\ RowsKept' /\ LinksStored'
  BY <1>1, <1>3 DEF InFlightServed, IDsOwned, RowsKept, LinksStored, TypeOK, InFlight
<1>12. LinksMirrored' /\ LinksOwned'
  <2>1. \A s \in Request : pc[s] = "addlinks" => pc'[s] = "addlinks"
    BY <1>3 DEF TypeOK
  <2> QED BY <1>1, <2>1, LinksFrame
<1> QED BY <1>8, <1>9, <1>10, <1>11, <1>12

\* A failing call leaves what the earlier calls stored.
LEMMA FailIInv == ASSUME IInv, NEW r \in Request, Fail(r) PROVE IInv'
<1> USE DEF IInv
<1>1. /\ UNCHANGED <<memories, links, up, index, lastID, turnSeq, personalIndex, semKey, matched, turn, memID>>
      /\ MemoryIDs' = MemoryIDs /\ AllSemKeys' = AllSemKeys
  BY DEF Fail, durable, volatile, MemoryIDs, AllSemKeys, SemKeysSince
<1>2. pc[r] \in {"insert", "link", "refresh"} /\ pc' = [pc EXCEPT ![r] = "failed"]
  BY DEF Fail, Goto
<1>3. TypeOK'
  BY <1>1, <1>2 DEF TypeOK, Answered
<1>4. IndexIsPrefix' /\ InFlightServed' /\ IDsOwned' /\ RowsKept'
  BY <1>1, <1>2 DEF IndexIsPrefix, InFlightServed, IDsOwned, RowsKept, TypeOK, InFlight
<1>5. AnsweredIsSearchable' /\ LinksStored'
  BY <1>1, <1>2 DEF AnsweredIsSearchable, LinksStored, TypeOK
<1>6. LinksMirrored' /\ LinksOwned'
  <2>1. \A s \in Request : pc[s] = "addlinks" => pc'[s] = "addlinks"
    BY <1>2 DEF TypeOK
  <2> QED BY <1>1, <2>1, LinksFrame
<1> QED BY <1>3, <1>4, <1>5, <1>6

\* Every step of the write path keeps the invariant.
LEMMA NextIInv == IInv /\ [Next]_vars => IInv'
<1> SUFFICES ASSUME IInv, [Next]_vars PROVE IInv'
  OBVIOUS
<1>1. CASE UNCHANGED vars
  <2>1. UNCHANGED <<memories, links, up, index, lastID, turnSeq, personalIndex,
                    pc, semKey, matched, turn, memID>>
    BY <1>1 DEF vars, durable, volatile, request
  <2> QED BY <2>1 DEF IInv, TypeOK, IndexIsPrefix, AnsweredIsSearchable, LinksMirrored,
            InFlightServed, IDsOwned, RowsKept, LinksStored, LinksOwned,
            MemoryIDs, AllSemKeys, SemKeysSince
<1>2. CASE \E p \in Process : Start(p) \/ Stop(p)
  BY <1>2, StartIInv, StopIInv
<1>3. CASE \E r \in Request : Receive(r) \/ Step(r)
  BY <1>3, ReceiveIInv, DrawTurnIInv, InsertIInv, LinkMemoryIInv, AddLinkIInv,
     RefreshIInv, FailIInv DEF Step
<1> QED BY <1>1, <1>2, <1>3 DEF Next

\* The inductive invariant holds in every reachable state.
THEOREM Invariance == Spec => []IInv
BY InitIInv, NextIInv, PTL DEF Spec

\* Every variable keeps its type, and no id names a row that is not stored.
THEOREM TypeCorrect == Spec => []TypeOK
BY Invariance, PTL DEF IInv

\* retriever.go: incremental Refresh over a shared, growing table leaves no hole
\* in any process's index, however requests and restarts interleave.
THEOREM NoHoleInIndex == Spec => []IndexIsPrefix
BY Invariance, PTL DEF IInv

\* orchestrator.go: an answer without error promises that the memory, all
\* earlier ones and the personal links are searchable, across restarts.
THEOREM ReadYourWrites == Spec => []AnsweredIsSearchable
BY Invariance, PTL DEF IInv

\* personal/retriever.go: the in-memory links follow the stored ones.
THEOREM PersonalIndexMirrors == Spec => []LinksMirrored
BY Invariance, PTL DEF IInv

-----------------------------------------------------------------------------
(* Turn ids, when one process at a time has the database open *)

\* At most one process is up.
Sole == \A p, q \in Process : up[p] /\ up[q] => p = q

\* The counter of the process that is up is past every turn stored or drawn.
TurnsBelowCounter ==
    \A p \in Process : up[p] =>
        /\ \A i \in MemoryIDs : memories[i].turn <= turnSeq[p]
        /\ \A r \in Request : pc[r] = "insert" => turn[r] <= turnSeq[p]

\* A turn drawn and not yet stored is nobody else's.
DrawnTurnsFresh ==
    \A r \in Request : pc[r] = "insert" =>
        /\ \A i \in MemoryIDs : memories[i].turn # turn[r]
        /\ \A s \in Request : pc[s] = "insert" /\ turn[s] = turn[r] => s = r

TurnInv ==
    /\ TurnsBelowCounter
    /\ DrawnTurnsFresh
    /\ TurnsDistinct

\* No turn has been drawn when the program starts.
LEMMA InitTurnInv == Init => TurnInv
BY DEF Init, TurnInv, TurnsBelowCounter, DrawnTurnsFresh, TurnsDistinct, MemoryIDs

\* With one process at a time no step draws or stores a turn id twice.
LEMMA NextTurnInv ==
    ASSUME IInv, TurnInv, Sole, Sole', [Next]_vars
    PROVE  TurnInv'
<1> USE DEF TurnInv, IInv
<1>1. CASE UNCHANGED vars
  BY <1>1 DEF vars, durable, volatile, request, TurnsBelowCounter, DrawnTurnsFresh,
     TurnsDistinct, MemoryIDs
<1>2. ASSUME NEW p \in Process, Start(p) PROVE TurnInv'
  <2>1. /\ UNCHANGED <<memories, pc, turn>> /\ MemoryIDs' = MemoryIDs
        /\ up' = [up EXCEPT ![p] = TRUE] /\ ~up[p]
    BY <1>2 DEF Start, durable, request, MemoryIDs
  <2>5. \A q \in Process : ~up[q]
    BY <2>1 DEF Sole, TypeOK
  <2>2. \A r \in Request : pc[r] # "insert"
    BY <2>5, HostAssumption DEF InFlightServed, InFlight
  <2>3. \A q \in Process : up'[q] => q = p
    BY <2>1, <2>5 DEF TypeOK
  <2>4. \A i \in MemoryIDs : memories[i].turn <= turnSeq'[p]
    BY <1>2 DEF Start, MaxTurnID, Highest, TypeOK
  <2> QED BY <2>1, <2>2, <2>3, <2>4 DEF TurnsBelowCounter, DrawnTurnsFresh, TurnsDistinct
<1>3. ASSUME NEW p \in Process, Stop(p) PROVE TurnInv'
  <2>1. /\ UNCHANGED <<memories, turn>> /\ MemoryIDs' = MemoryIDs
        /\ \A q \in Process : up'[q] => up[q] /\ turnSeq'[q] = turnSeq[q]
        /\ \A r \in Request : pc'[r] = "insert" => pc[r] = "insert"
    BY <1>3 DEF Stop, durable, MemoryIDs, TypeOK
  <2> QED BY <2>1 DEF TurnsBelowCounter, DrawnTurnsFresh, TurnsDistinct
<1>4. ASSUME NEW r \in Request, DrawTurn(r) PROVE TurnInv'
  <2> DEFINE p == Host[r]
  <2>1. /\ UNCHANGED <<memories, up>> /\ MemoryIDs' = MemoryIDs
        /\ p \in Process /\ up[p] /\ turnSeq[p] \in Nat
    BY <1>4, HostAssumption DEF DrawTurn, durable, MemoryIDs, InFlightServed, InFlight, TypeOK
  <2>2. /\ turnSeq'[p] = turnSeq[p] + 1 /\ turn'[r] = turnSeq[p] + 1
        /\ \A s \in Request \ {r} : pc'[s] = pc[s] /\ turn'[s] = turn[s]
    BY <1>4, <2>1 DEF DrawTurn, Goto, TypeOK
  <2>3. \A q \in Process : up[q] => q = p
    BY <2>1 DEF Sole
  <2>4. /\ \A i \in MemoryIDs : memories[i].turn \in Nat
        /\ \A s \in Request : turn[s] \in Nat
    BY RowTypes DEF TypeOK
  <2>5. TurnsBelowCounter'
    BY <2>1, <2>2, <2>3, <2>4 DEF TurnsBelowCounter
  <2>6. DrawnTurnsFresh'
    BY <2>1, <2>2, <2>4 DEF TurnsBelowCounter, DrawnTurnsFresh
  <2> QED BY <2>1, <2>5, <2>6 DEF TurnsDistinct
<1>5. ASSUME NEW r \in Request, Insert(r) PROVE TurnInv'
  <2> DEFINE m == [turn |-> turn[r], keys |-> semKey[r]]
             id == Len(memories) + 1
  <2>1. /\ UNCHANGED <<up, turnSeq, turn>> /\ pc[r] = "insert"
        /\ memories' = Append(memories, m)
        /\ m \in [turn : Nat, keys : SUBSET Key]
        /\ \A s \in Request : pc'[s] = "insert" => s # r /\ pc[s] = "insert"
    BY <1>5 DEF Insert, Goto, volatile, TypeOK
  <2>2. /\ MemoryIDs' = MemoryIDs \cup {id} /\ id \notin MemoryIDs
        /\ memories'[id].turn = turn[r]
        /\ \A i \in MemoryIDs : memories'[i] = memories[i]
    BY <2>1, AppendKeeps DEF TypeOK, MemoryIDs
  <2>3. \A i \in MemoryIDs : memories[i].turn # turn[r]
    BY <2>1 DEF DrawnTurnsFresh
  <2>4. TurnsBelowCounter'
    BY <2>1, <2>2 DEF TurnsBelowCounter
  <2>5. DrawnTurnsFresh'
    <3> SUFFICES ASSUME NEW s \in Request, s # r, pc[s] = "insert"
                 PROVE  /\ \A i \in MemoryIDs' : memories'[i].turn # turn[s]
                        /\ \A q \in Request : pc'[q] = "insert" /\ turn[q] = turn[s] => q = s
      BY <2>1 DEF DrawnTurnsFresh
    <3>1. turn[s] # turn[r]
      BY <2>1 DEF DrawnTurnsFresh
    <3>2. \A i \in MemoryIDs' : memories'[i].turn # turn[s]
      BY <2>2, <3>1 DEF DrawnTurnsFresh
    <3> QED BY <2>1, <3>2 DEF DrawnTurnsFresh
  <2>6. TurnsDistinct'
    BY <2>2, <2>3 DEF TurnsDistinct
  <2> QED BY <2>4, <2>5, <2>6
<1>6. ASSUME NEW r \in Request,
             Receive(r) \/ LinkMemory(r) \/ AddLink(r) \/ Refresh(r) \/ Fail(r)
      PROVE  TurnInv'
  <2>1. /\ UNCHANGED <<memories, up, turnSeq, turn>> /\ MemoryIDs' = MemoryIDs
        /\ \A s \in Request : pc'[s] = "insert" => pc[s] = "insert"
    BY <1>6 DEF Receive, LinkMemory, AddLink, Refresh, Fail, Goto, durable, volatile,
       MemoryIDs, TypeOK
  <2> QED BY <2>1 DEF TurnsBelowCounter, DrawnTurnsFresh, TurnsDistinct
<1> QED BY <1>1, <1>2, <1>3, <1>4, <1>5, <1>6 DEF Next, Step

\* orchestrator.go and main.go: the counter seeded by MaxTurnID never hands out a
\* turn id that is stored or drawn, over every restart and failed insert, as long
\* as no two processes are up at once.
THEOREM OnlyTwoProcessesRepeatTurns == Spec /\ []Sole => []TurnsDistinct
<1>1. IInv /\ TurnInv /\ Sole /\ Sole' /\ [Next]_vars => (IInv /\ TurnInv)'
  BY NextIInv, NextTurnInv
<1>2. Init => IInv /\ TurnInv
  BY InitIInv, InitTurnInv
<1>3. TurnInv => TurnsDistinct
  BY DEF TurnInv
<1> QED BY <1>1, <1>2, <1>3, PTL DEF Spec

\* A command line that waits for the service to end never runs beside it.
THEOREM TurnsStayDistinct ==
    ASSUME ~Overlap
    PROVE  Spec => []TurnsDistinct
<1>1. Init => IInv /\ Sole
  BY InitIInv DEF Init, Sole
<1>2. IInv /\ Sole /\ [Next]_vars => (IInv /\ Sole)'
  <2> SUFFICES ASSUME IInv, Sole, [Next]_vars PROVE Sole'
    BY NextIInv
  <2>1. CASE \E p \in Process : Start(p) \/ Stop(p)
    BY <2>1 DEF Start, Stop, Sole, IInv, TypeOK
  <2>2. CASE UNCHANGED up
    BY <2>2 DEF Sole
  <2> QED
    BY <2>1, <2>2
       DEF Next, Step, DrawTurn, Insert, Receive, LinkMemory, AddLink, Refresh, Fail,
           vars, volatile
<1> QED BY <1>1, <1>2, OnlyTwoProcessesRepeatTurns, PTL DEF Spec

-----------------------------------------------------------------------------
(* Refinement of MemoryLog *)

\* A step that keeps the rows and replaces one process's index by all of them,
\* or by nothing, does the same to what the process finds.
LEMMA FoundNext ==
    ASSUME TypeOK, memories' = memories, NEW p \in Process,
           NEW S, index' = [index EXCEPT ![p] = S]
    PROVE  /\ S = AllSemKeys => Found' = [Found EXCEPT ![p] = Log!Searchable]
           /\ S = {} => Found' = [Found EXCEPT ![p] = {}]
<1>1. MemoryIDs' = MemoryIDs
  BY DEF MemoryIDs
<1>2. index'[p] = S /\ \A q \in Process \ {p} : index'[q] = index[q]
  BY DEF TypeOK
<1>3. \A q \in Process \ {p} : Found'[q] = Found[q]
  BY <1>1, <1>2 DEF Found
<1>4. \A i \in MemoryIDs : \A k \in memories[i].keys : <<k, i>> \in AllSemKeys
  <2>1. \A i \in MemoryIDs : memories[i].keys \subseteq Key
    BY RowTypes DEF TypeOK
  <2> QED BY <2>1, SemKeyRows DEF AllSemKeys, MemoryIDs
<1>5. S = AllSemKeys => Found'[p] = Log!Searchable
  BY <1>1, <1>2, <1>4 DEF Found, Log!Searchable, MemoryIDs
<1>6. S = {} => Found'[p] = {}
  BY <1>1, <1>2 DEF Found
<1> QED BY <1>3, <1>5, <1>6 DEF Found

\* The write path starts where the abstract log starts.
LEMMA LogInit == Init => Log!Init
BY DEF Init, Log!Init, Found, MemoryIDs

\* Every step of the write path is a step of the abstract log, or none.
LEMMA LogNext == IInv /\ [Next]_vars => [Log!Next]_(Log!vars)
<1> SUFFICES ASSUME IInv, [Next]_vars PROVE Log!Next \/ UNCHANGED Log!vars
  OBVIOUS
<1> USE DEF IInv
<1> DEFINE online == {p \in Process : up[p]}
<1>1. ASSUME UNCHANGED <<memories, up, index>> PROVE UNCHANGED Log!vars
  BY <1>1 DEF Log!vars, Found, MemoryIDs
<1>2. CASE UNCHANGED vars
  BY <1>1, <1>2 DEF vars, durable, volatile
<1>3. ASSUME NEW p \in Process, Start(p) PROVE Log!GoOnline(p)
  <2>1. /\ memories' = memories /\ MemoryIDs' = MemoryIDs
        /\ up' = [up EXCEPT ![p] = TRUE] /\ ~up[p]
        /\ index' = [index EXCEPT ![p] = AllSemKeys]
    BY <1>3 DEF Start, durable, MemoryIDs
  <2>2. online' = online \cup {p} /\ p \notin online
    BY <2>1 DEF TypeOK
  <2>3. Found' = [Found EXCEPT ![p] = Log!Searchable]
    BY <2>1, FoundNext
  <2> QED BY <2>1, <2>2, <2>3 DEF Log!GoOnline
<1>4. ASSUME NEW p \in Process, Stop(p) PROVE Log!GoOffline(p)
  <2>1. /\ memories' = memories /\ MemoryIDs' = MemoryIDs
        /\ up' = [up EXCEPT ![p] = FALSE] /\ up[p]
        /\ index' = [index EXCEPT ![p] = {}]
    BY <1>4 DEF Stop, durable, MemoryIDs
  <2>2. online' = online \ {p} /\ p \in online
    BY <2>1 DEF TypeOK
  <2>3. Found' = [Found EXCEPT ![p] = {}]
    BY <2>1, FoundNext
  <2> QED BY <2>1, <2>2, <2>3 DEF Log!GoOffline
<1>5. ASSUME NEW r \in Request, Insert(r) PROVE Log!AppendMemory
  <2> DEFINE m == [turn |-> turn[r], keys |-> semKey[r]]
  <2>1. /\ UNCHANGED <<up, index>> /\ up[Host[r]] /\ Host[r] \in Process
        /\ memories' = Append(memories, m)
        /\ m \in [turn : Nat, keys : SUBSET Key]
    BY <1>5, HostAssumption DEF Insert, volatile, TypeOK, InFlightServed, InFlight
  <2>2. /\ memories' \in Seq([turn : Nat, keys : SUBSET Key])
        /\ Len(memories') = Len(memories) + 1
        /\ MemoryIDs' = MemoryIDs \cup {Len(memories) + 1}
        /\ Len(memories) + 1 \notin MemoryIDs
        /\ \A i \in MemoryIDs : memories'[i] = memories[i]
    BY <2>1, AppendKeeps DEF TypeOK, MemoryIDs
  <2>3. \A p \in Process, i \in MemoryIDs' :
            memories'[i].keys # {} /\ (\A k \in memories'[i].keys : <<k, i>> \in index[p])
                => i \in MemoryIDs
    <3>1. \A p \in Process : index[p] \subseteq Key \X MemoryIDs
      BY DEF TypeOK
    <3>2. \A p \in Process : \A k, i : <<k, i>> \in index[p] => i \in MemoryIDs
      BY <3>1
    <3> QED BY <3>2
  <2>4. ASSUME NEW p \in Process PROVE Found'[p] = Found[p]
    BY <2>1, <2>2, <2>3 DEF Found
  <2>5. Found' = Found
    BY <2>4 DEF Found
  <2> QED BY <2>1, <2>2, <2>5 DEF Log!AppendMemory, Log!Memory, MemoryIDs
<1>6. ASSUME NEW r \in Request, Refresh(r) PROVE Log!Publish(Host[r])
  <2> DEFINE p == Host[r]
  <2>1. /\ UNCHANGED <<memories, up>> /\ MemoryIDs' = MemoryIDs
        /\ p \in Process /\ up[p]
        /\ index' = [index EXCEPT ![p] = @ \cup SemKeysSince(lastID[p])]
    BY <1>6, HostAssumption DEF Refresh, durable, MemoryIDs, InFlightServed, InFlight
  <2>2. index[p] \cup SemKeysSince(lastID[p]) = AllSemKeys
    BY <2>1, SemKeyPairs DEF IndexIsPrefix, AllSemKeys, SemKeysSince, MemoryIDs, TypeOK
  <2>3. index' = [index EXCEPT ![p] = AllSemKeys]
    BY <2>1, <2>2 DEF TypeOK
  <2>4. Found' = [Found EXCEPT ![p] = Log!Searchable]
    BY <2>1, <2>3, FoundNext
  <2> QED BY <2>1, <2>4 DEF Log!Publish
<1>7. ASSUME NEW r \in Request,
             Receive(r) \/ DrawTurn(r) \/ LinkMemory(r) \/ AddLink(r) \/ Fail(r)
      PROVE  UNCHANGED Log!vars
  BY <1>1, <1>7 DEF Receive, DrawTurn, LinkMemory, AddLink, Fail, durable, volatile
<1> QED BY <1>2, <1>3, <1>4, <1>5, <1>6, <1>7, HostAssumption DEF Next, Step, Log!Next

\* The write path of the orchestrator implements the abstract log.
THEOREM Implementation == Spec => ImplementsLog
BY Invariance, LogInit, LogNext, PTL DEF Spec, ImplementsLog, Log!Spec
==============================================================================
