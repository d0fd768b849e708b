------------------------ MODULE OpenClawImportProofs ------------------------
(***************************************************************************)
(* The safety of ingest-openclaw for any number of files of any content,   *)
(* whatever fails, however often it is run, interrupted and killed.        *)
(***************************************************************************)
EXTENDS OpenClawImport, FiniteSetTheorems, TLAPS

-----------------------------------------------------------------------------
(* The inductive invariant *)

\* The scan has read lines the file has, and nothing is left of it afterwards.
PosInv ==
    /\ TypeOK
    /\ pc \notin {"scan", "setMark"} => count = 0

\* What the scan has counted is stored, and no more is written into a mark.
CountInv ==
    /\ pc \in {"scan", "setMark"} => count <= Cardinality(Kept(cur, pos))
    /\ MarkTellsLoss

\* A file that is about to be read has used up its first copy or an excuse; a scan
\* adds to the lines it has passed only.
CopyInv ==
    /\ CopiesExplained
    /\ pc = "open" => \A i \in DOMAIN Lines[cur] : stored[cur][i] <= excuses[cur]
    /\ pc \in {"scan", "setMark"} =>
           \A i \in DOMAIN Lines[cur] : i > pos => stored[cur][i] <= excuses[cur]

\* The file at work, which the rest of the pass says nothing about yet.
Worked == IF pc \in {"next", "done"} THEN {} ELSE {cur}
Settled(f) == f \in marked /\ f \notin fresh

\* Sound files the pass has left behind are settled.
PassInv ==
    /\ pc = "done" => todo = {}
    /\ pc = "distil" => (Sound(cur) => cur \in marked)
    /\ pc \notin {"idle", "killed"} /\ ~cancelled =>
           \A f \in File \ (todo \cup Worked) : Sound(f) => Settled(f)

\* Until a signal comes every turn of a sound file that is passed is stored.
WholeInv ==
    /\ ~interrupted => ~cancelled
    /\ ~interrupted /\ pc \in {"scan", "setMark"} /\ Sound(cur) => Kept(cur, pos) = Turns(cur, pos)
    /\ ImportedWhole

ImportInv == PosInv /\ CountInv /\ CopyInv /\ PassInv /\ WholeInv

-----------------------------------------------------------------------------
(* What a file's lines and copies are *)

\* A line read of a file is one of its lines.
LEMMA LineRead ==
    ASSUME TypeOK, pc = "scan", pos < size[cur]
    PROVE  /\ cur \in File
           /\ pos \in Nat /\ pos + 1 \in DOMAIN Lines[cur]
           /\ pos + 1 <= size[cur]
  <1>1. cur \in File /\ pos \in Nat
    BY DEF TypeOK, Ended
  <1>2. size[cur] \in Nat /\ size[cur] <= Len(Lines[cur])
    BY <1>1 DEF TypeOK
  <1>3. Lines[cur] \in Seq(Kinds)
    BY <1>1, LineAssumption
  <1>4. Len(Lines[cur]) \in Nat /\ DOMAIN Lines[cur] = 1..Len(Lines[cur])
    BY <1>3
  <1>5. pos + 1 \in 1..Len(Lines[cur]) /\ pos + 1 <= size[cur]
    BY <1>1, <1>2, <1>4
  <1> QED
    BY <1>1, <1>4, <1>5

\* One copy more of one line changes nothing else.
LEMMA CopyAdded ==
    ASSUME NEW old, old = [f \in File |-> old[f]],
           \A f \in File : old[f] \in [DOMAIN Lines[f] -> Nat],
           NEW g \in File, NEW k \in DOMAIN Lines[g],
           NEW new, new = [old EXCEPT ![g][k] = @ + 1]
    PROVE  /\ new = [f \in File |-> new[f]]
           /\ \A f \in File : new[f] \in [DOMAIN Lines[f] -> Nat]
           /\ \A f \in File : \A i \in DOMAIN Lines[f] :
                  new[f][i] = IF f = g /\ i = k THEN old[f][i] + 1 ELSE old[f][i]
  <1>1. DOMAIN old = File
    OBVIOUS
  <1>2. new = [old EXCEPT ![g] = [old[g] EXCEPT ![k] = old[g][k] + 1]]
    OBVIOUS
  <1>3. \A f \in File : f # g => new[f] = old[f]
    BY <1>1, <1>2
  <1>4. new[g] = [old[g] EXCEPT ![k] = old[g][k] + 1]
    BY <1>1, <1>2
  <1>5. old[g] \in [DOMAIN Lines[g] -> Nat] /\ old[g][k] + 1 \in Nat
    OBVIOUS
  <1>6. new[g] \in [DOMAIN Lines[g] -> Nat]
    BY <1>4, <1>5
  <1>7. \A i \in DOMAIN Lines[g] : new[g][i] = IF i = k THEN old[g][i] + 1 ELSE old[g][i]
    BY <1>4, <1>5
  <1>8. new = [f \in File |-> new[f]]
    BY <1>1, <1>2
  <1> QED
    BY <1>3, <1>6, <1>7, <1>8

\* The first lines of a file that is as long are its lines.
LEMMA Prefix ==
    ASSUME TypeOK, NEW f \in File, NEW n \in Nat, n <= size[f]
    PROVE  1..n \subseteq DOMAIN Lines[f]
  <1>1. size[f] \in Nat /\ size[f] <= Len(Lines[f])
    BY DEF TypeOK
  <1>2. Lines[f] \in Seq(Kinds)
    BY LineAssumption
  <1>3. Len(Lines[f]) \in Nat /\ DOMAIN Lines[f] = 1..Len(Lines[f])
    BY <1>2
  <1> QED
    BY <1>1, <1>3

\* What a table of copies keeps of the first lines of a file.
KeptBy(s, f, n) == {i \in Turns(f, n) : s[f][i] > 0}

\* It is a finite set.
LEMMA KeptFinite ==
    ASSUME NEW s, NEW f, NEW n \in Nat
    PROVE  /\ IsFiniteSet(KeptBy(s, f, n)) /\ Cardinality(KeptBy(s, f, n)) \in Nat
           /\ KeptBy(s, f, n) \subseteq 1..n
  <1>1. IsFiniteSet(1..n)
    BY FS_Interval
  <1>2. KeptBy(s, f, n) \in SUBSET (1..n)
    BY DEF KeptBy, Turns
  <1> QED
    BY <1>1, <1>2, FS_Subset, FS_CardinalityType

\* It grows with the copies and with the lines.
LEMMA KeptGrows ==
    ASSUME NEW s, NEW r, NEW f, NEW n \in Nat, NEW m \in Nat, n <= m,
           \A i \in 1..n : s[f][i] \in Nat /\ r[f][i] \in Nat /\ s[f][i] <= r[f][i]
    PROVE  /\ KeptBy(s, f, n) \subseteq KeptBy(r, f, m)
           /\ Cardinality(KeptBy(s, f, n)) <= Cardinality(KeptBy(r, f, m))
  <1>1. KeptBy(s, f, n) \in SUBSET KeptBy(r, f, m)
    BY DEF KeptBy, Turns
  <1> QED
    BY <1>1, KeptFinite, FS_Subset

\* A turn stored at the next line is one more.
LEMMA KeptOneMore ==
    ASSUME NEW s, NEW r, NEW f, NEW n \in Nat,
           \A i \in 1..n : s[f][i] \in Nat /\ r[f][i] \in Nat /\ s[f][i] <= r[f][i],
           Lines[f][n + 1] = "turn", r[f][n + 1] > 0
    PROVE  Cardinality(KeptBy(s, f, n)) + 1 <= Cardinality(KeptBy(r, f, n + 1))
  <1> DEFINE S == KeptBy(s, f, n)
             R == KeptBy(r, f, n + 1)
  <1>1. IsFiniteSet(S) /\ Cardinality(S) \in Nat /\ IsFiniteSet(R) /\ Cardinality(R) \in Nat
        /\ S \subseteq 1..n
    BY KeptFinite
  <1>2. S \subseteq R
    BY KeptGrows
  <1>3. n + 1 \in R /\ n + 1 \notin S
    BY <1>1 DEF KeptBy, Turns
  <1> HIDE DEF S, R
  <1>4. S \in SUBSET (R \ {n + 1})
    BY <1>2, <1>3
  <1>5. IsFiniteSet(R \ {n + 1}) /\ Cardinality(R \ {n + 1}) = Cardinality(R) - 1
    BY <1>1, <1>3, FS_RemoveElement
  <1>6. Cardinality(S) <= Cardinality(R \ {n + 1})
    BY <1>4, <1>5, FS_Subset
  <1>7. Cardinality(S) + 1 <= Cardinality(R)
    BY <1>1, <1>5, <1>6
  <1> QED
    BY <1>7 DEF S, R

-----------------------------------------------------------------------------
(* Types *)

\* Counting one more keeps a function into the naturals.
LEMMA OneMore ==
    ASSUME NEW f \in [File -> Nat], NEW x \in File, NEW n \in Nat
    PROVE  [f EXCEPT ![x] = n] \in [File -> Nat] /\ f[x] + 1 \in Nat
  OBVIOUS

\* Nothing is known of the files when it all begins.
LEMMA InitPosInv == Init => PosInv
  <1> SUFFICES ASSUME Init PROVE PosInv
    OBVIOUS
  <1>1. \A f \in File : Lines[f] \in Seq(Kinds) /\ Len(Lines[f]) \in Nat
    BY LineAssumption
  <1>2. /\ stored = [f \in File |-> stored[f]]
        /\ \A f \in File : stored[f] \in [DOMAIN Lines[f] -> Nat]
    BY DEF Init
  <1>3. /\ size \in [File -> Nat] /\ \A f \in File : size[f] <= Len(Lines[f])
        /\ upto \in [File -> Nat] /\ \A f \in File : upto[f] <= size[f]
        /\ mark \in [File -> Nat] /\ excuses \in [File -> Nat]
    BY <1>1 DEF Init
  <1>4. passes \in 0..MaxPasses
    BY PassAssumption DEF Init
  <1>5. /\ pc = "idle" /\ pos = 0 /\ count = 0 /\ cur = NoFile
        /\ marked = {} /\ fresh = {} /\ todo = {}
        /\ force = FALSE /\ cancelled = FALSE /\ interrupted = FALSE
    BY DEF Init
  <1> QED
    BY <1>2, <1>3, <1>4, <1>5 DEF PosInv, TypeOK, Steps, Ended

\* Every step keeps the types.
LEMMA NextPosInv == PosInv /\ [Next]_vars => PosInv'
  <1> SUFFICES ASSUME PosInv, [Next]_vars PROVE PosInv'
    OBVIOUS
  <1>0. TypeOK
    BY DEF PosInv
  <1> USE DEF PosInv, TypeOK, Steps, Ended, db, run, history
  <1>1. CASE StartPass
    <2>1. passes' \in 0..MaxPasses
      BY <1>1, PassAssumption DEF StartPass
    <2>2. pc \notin {"scan", "setMark"} /\ pc' = "next"
      BY <1>1 DEF StartPass, InPass
    <2>3. force' \in BOOLEAN /\ cancelled' = FALSE /\ todo' = File
      BY <1>1 DEF StartPass
    <2> QED
      BY <1>1, <2>1, <2>2, <2>3 DEF StartPass
  <1>2. CASE NextFile
    BY <1>2 DEF NextFile
  <1>3. CASE EndPass
    BY <1>3 DEF EndPass
  <1>4. CASE ReadMark
    <2>1. cur \in File
      BY <1>4 DEF ReadMark
    <2>2. excuses' \in [File -> Nat]
      BY <1>4, <2>1, OneMore DEF ReadMark, Excuse
    <2> QED
      BY <1>4, <2>1, <2>2 DEF ReadMark, PassOver
  <1>5. CASE Open
    <2>1. cur \in File /\ size[cur] \in Nat
      BY <1>5 DEF Open
    <2> QED
      BY <1>5, <2>1 DEF Open, OnError
  <1>6. CASE SkipLine
    <2>1. pos + 1 <= size[cur] /\ pos + 1 \in Nat
      BY <1>0, <1>6, LineRead DEF SkipLine, AtLine
    <2> QED
      BY <1>6, <2>1 DEF SkipLine, AtLine
  <1>7. CASE ScanError
    <2>1. cur \in File
      BY <1>7 DEF ScanError, AtLine
    <2>2. excuses' \in [File -> Nat]
      BY <1>7, <2>1, OneMore DEF ScanError, Excuse
    <2> QED
      BY <1>7, <2>1, <2>2 DEF ScanError, AtLine, OnError, Leave
  <1>8. CASE IngestTurn
    <2>1. /\ cur \in File /\ pos + 1 \in DOMAIN Lines[cur]
          /\ pos + 1 <= size[cur] /\ pos + 1 \in Nat
      BY <1>0, <1>8, LineRead DEF IngestTurn, AtLine
    <2>2. /\ stored' = [f \in File |-> stored'[f]]
          /\ \A f \in File : stored'[f] \in [DOMAIN Lines[f] -> Nat]
      <3>1. CASE Store
        <4>1. stored' = [stored EXCEPT ![cur][pos + 1] = @ + 1]
          BY <3>1 DEF Store
        <4> QED
          BY <2>1, <4>1, CopyAdded
      <3>2. CASE UNCHANGED stored
        BY <3>2
      <3> QED
        BY <1>8, <3>1, <3>2 DEF IngestTurn
    <2>3. /\ fresh' \subseteq File /\ count' \in Nat
          /\ cancelled' \in BOOLEAN /\ interrupted' \in BOOLEAN
          /\ UNCHANGED <<marked, mark>>
      <3>1. CASE Store /\ count' = count + 1 /\ UNCHANGED <<cancelled, interrupted>>
        BY <2>1, <3>1 DEF Store
      <3>2. CASE Store /\ Uncounted /\ UNCHANGED <<cancelled, interrupted>>
        BY <2>1, <3>2 DEF Store, Uncounted
      <3>3. CASE Store /\ Uncounted /\ Signal
        BY <2>1, <3>3 DEF Store, Uncounted, Signal
      <3>4. CASE Uncounted /\ UNCHANGED <<db, cancelled, interrupted>>
        BY <3>4 DEF Uncounted
      <3> QED
        BY <1>8, <3>1, <3>2, <3>3, <3>4, Zenon DEF IngestTurn
    <2>4. pos' = pos + 1 /\ pc = "scan" /\ UNCHANGED <<size, pc, run, todo, cur, upto, excuses>>
      BY <1>8 DEF IngestTurn, AtLine
    <2> QED
      BY <2>1, <2>2, <2>3, <2>4
  <1>9. CASE EndOfFile
    BY <1>9 DEF EndOfFile
  <1>10. CASE SetMark
    <2>1. cur \in File /\ pos <= size[cur]
      BY <1>10 DEF SetMark
    <2>2. excuses' \in [File -> Nat] /\ mark' \in [File -> Nat] /\ marked' \subseteq File
      <3>1. CASE /\ marked' = marked \cup {cur}
                 /\ mark' = [mark EXCEPT ![cur] = count] /\ UNCHANGED excuses
        BY <2>1, <3>1, OneMore
      <3>2. CASE Excuse /\ UNCHANGED <<marked, mark, upto>>
        BY <2>1, <3>2, OneMore DEF Excuse
      <3> QED
        BY <1>10, <3>1, <3>2 DEF SetMark
    <2>3. upto' \in [File -> Nat] /\ \A f \in File : upto'[f] <= size[f]
      BY <1>10, <2>1 DEF SetMark
    <2> QED
      BY <1>10, <2>1, <2>2, <2>3 DEF SetMark, Leave
  <1>11. CASE Distil
    BY <1>11 DEF Distil
  <1>12. CASE Interrupt
    BY <1>12 DEF Interrupt, Signal, InPass
  <1>13. CASE Kill
    <2>1. excuses' \in [File -> Nat]
      <3>1. CASE pc \in {"scan", "setMark"}
        <4>1. cur \in File
          BY <3>1
        <4>2. excuses' = [excuses EXCEPT ![cur] = excuses[cur] + 1]
          BY <1>13, <3>1 DEF Kill, Excuse
        <4> QED
          BY <4>1, <4>2, OneMore
      <3>2. CASE pc \notin {"scan", "setMark"}
        BY <1>13, <3>2 DEF Kill
      <3> QED
        BY <3>1, <3>2
    <2> QED
      BY <1>13, <2>1 DEF Kill, Leave
  <1>14. ASSUME NEW f \in File, Grow(f) PROVE PosInv'
    <2>1. size[f] \in Nat /\ Len(Lines[f]) \in Nat
      BY LineAssumption
    <2>2. size' \in [File -> Nat] /\ \A g \in File : size'[g] <= Len(Lines[g]) /\ size[g] <= size'[g]
      BY <1>14, <2>1 DEF Grow
    <2>3. \A g \in File : upto[g] <= size'[g]
      BY <2>2
    <2>4. pc \in {"scan", "setMark"} => pos <= size'[cur]
      BY <2>2
    <2> QED
      BY <1>14, <2>2, <2>3, <2>4 DEF Grow
  <1>15. CASE UNCHANGED vars
    BY <1>15 DEF vars
  <1> QED
    BY <1>1, <1>2, <1>3, <1>4, <1>5, <1>6, <1>7, <1>8, <1>9, <1>10, <1>11, <1>12, <1>13,
       <1>14, <1>15 DEF Next, PassStep

-----------------------------------------------------------------------------
(* What is stored stays stored, and the mark counts it *)

\* The two ways IngestTurn ends: with one copy more of the line or without.
LEMMA IngestEffect ==
    ASSUME TypeOK, IngestTurn
    PROVE  /\ pc = "scan" /\ cur \in File /\ pos \in Nat /\ pos + 1 \in DOMAIN Lines[cur]
           /\ Lines[cur][pos + 1] = "turn"
           /\ pos' = pos + 1
           /\ UNCHANGED <<marked, mark, size, pc, run, todo, cur, upto, excuses>>
           /\ \/ /\ \A f \in File : \A i \in DOMAIN Lines[f] :
                        stored'[f][i] = IF f = cur /\ i = pos + 1 THEN stored[f][i] + 1
                                        ELSE stored[f][i]
                 /\ fresh' = fresh \cup {cur}
                 /\ count' = count + 1 \/ count' = count
              \/ UNCHANGED <<stored, fresh, count>>
  <1>1. /\ pc = "scan" /\ cur \in File /\ pos \in Nat /\ pos + 1 \in DOMAIN Lines[cur]
        /\ Lines[cur][pos + 1] = "turn"
    BY LineRead DEF IngestTurn, AtLine
  <1>2. /\ pos' = pos + 1
        /\ UNCHANGED <<size, pc, run, todo, cur, upto, excuses>>
    BY DEF IngestTurn
  <1>3. CASE Store /\ (count' = count + 1 \/ Uncounted)
    <2>1. stored' = [stored EXCEPT ![cur][pos + 1] = @ + 1]
      BY <1>3 DEF Store
    <2>2. \A f \in File : \A i \in DOMAIN Lines[f] :
              stored'[f][i] = IF f = cur /\ i = pos + 1 THEN stored[f][i] + 1 ELSE stored[f][i]
      BY <1>1, <2>1, CopyAdded DEF TypeOK
    <2>3. count' = count + 1 \/ count' = count
      BY <1>3 DEF Uncounted
    <2> QED
      BY <1>1, <1>2, <1>3, <2>2, <2>3 DEF Store
  <1>4. CASE Uncounted /\ UNCHANGED db
    BY <1>1, <1>2, <1>4 DEF Uncounted, db
  <1>5. \/ Store /\ (count' = count + 1 \/ Uncounted)
        \/ Uncounted /\ UNCHANGED db
    BY Zenon DEF IngestTurn
  <1> QED
    BY <1>3, <1>4, <1>5

\* No step takes a copy away.
LEMMA CopiesGrow ==
    ASSUME TypeOK, TypeOK', [Next]_vars
    PROVE  \A f \in File : \A i \in DOMAIN Lines[f] :
               stored[f][i] \in Nat /\ stored'[f][i] \in Nat /\ stored[f][i] <= stored'[f][i]
  <1>1. \A f \in File : \A i \in DOMAIN Lines[f] : stored[f][i] \in Nat /\ stored'[f][i] \in Nat
    BY DEF TypeOK
  <1>2. CASE IngestTurn
    BY <1>1, <1>2, IngestEffect
  <1>3. CASE UNCHANGED stored
    BY <1>1, <1>3
  <1>4. IngestTurn \/ UNCHANGED stored
    BY DEF Next, PassStep, vars, db, StartPass, NextFile, EndPass, ReadMark, Open, SkipLine,
           ScanError, EndOfFile, SetMark, Distil, Interrupt, Kill, Grow
  <1> QED
    BY <1>2, <1>3, <1>4

\* What is kept of the lines a file has only grows.
LEMMA StepKeeps ==
    ASSUME TypeOK, TypeOK', [Next]_vars, NEW f \in File, NEW n \in Nat, n <= size[f],
           NEW m \in Nat, n <= m
    PROVE  /\ KeptBy(stored, f, n) \subseteq KeptBy(stored', f, m)
           /\ Cardinality(KeptBy(stored, f, n)) <= Cardinality(KeptBy(stored', f, m))
           /\ Cardinality(KeptBy(stored, f, n)) \in Nat
           /\ Cardinality(KeptBy(stored', f, m)) \in Nat
  <1>1. 1..n \subseteq DOMAIN Lines[f]
    BY Prefix
  <1>2. \A i \in 1..n : stored[f][i] \in Nat /\ stored'[f][i] \in Nat /\ stored[f][i] <= stored'[f][i]
    BY <1>1, CopiesGrow
  <1> QED
    BY <1>2, KeptGrows, KeptFinite

\* Either the marks stay, or the file at work gets its own.
LEMMA MarkEffect ==
    ASSUME [Next]_vars
    PROVE  \/ UNCHANGED <<marked, mark, upto>>
           \/ /\ pc = "setMark"
              /\ marked' = marked \cup {cur}
              /\ mark' = [mark EXCEPT ![cur] = count]
              /\ upto' = [upto EXCEPT ![cur] = pos]
  <1>1. CASE SetMark
    BY <1>1 DEF SetMark
  <1>2. CASE UNCHANGED vars
    BY <1>2 DEF vars, db, history
  <1>3. CASE StartPass \/ NextFile \/ EndPass \/ ReadMark \/ Open \/ SkipLine \/ ScanError
    BY <1>3 DEF StartPass, NextFile, EndPass, ReadMark, Open, SkipLine, ScanError, db, history
  <1>4. CASE IngestTurn
    <2>1. UNCHANGED <<marked, mark>>
      BY <1>4 DEF IngestTurn, Store, db
    <2>2. UNCHANGED upto
      BY <1>4 DEF IngestTurn
    <2> QED
      BY <2>1, <2>2
  <1>5. CASE EndOfFile \/ Distil \/ Interrupt \/ Kill \/ \E f \in File : Grow(f)
    BY <1>5 DEF EndOfFile, Distil, Interrupt, Kill, Grow, db, history
  <1> QED
    BY <1>1, <1>2, <1>3, <1>4, <1>5 DEF Next, PassStep

\* How a scan is in progress after a step: it has just begun, or read a line, or
\* stands where it stood.
LEMMA ScanEffect ==
    ASSUME PosInv, [Next]_vars, pc' \in {"scan", "setMark"}
    PROVE  \/ /\ pc = "open" /\ pc' = "scan" /\ UNCHANGED <<cur, pos, count, excuses, marked, stored>>
           \/ IngestTurn
           \/ SkipLine
           \/ /\ pc \in {"scan", "setMark"}
              /\ UNCHANGED <<cur, pos, count, stored, excuses, marked>>
  <1>1. CASE StartPass \/ NextFile \/ EndPass \/ ReadMark \/ SetMark \/ Distil \/ Kill \/ ScanError
    BY <1>1 DEF StartPass, NextFile, EndPass, ReadMark, SetMark, Distil, Kill, ScanError,
                PassOver, OnError
  <1>2. CASE Open
    BY <1>2 DEF Open, OnError, db, history
  <1>3. CASE EndOfFile \/ Interrupt \/ \E f \in File : Grow(f)
    BY <1>3 DEF EndOfFile, Interrupt, Grow, db, history
  <1>4. CASE UNCHANGED vars
    BY <1>4 DEF vars, db, history
  <1> QED
    BY <1>1, <1>2, <1>3, <1>4 DEF Next, PassStep

\* Nothing is counted when it all begins.
LEMMA InitCountInv == Init => CountInv
  BY DEF Init, CountInv, MarkTellsLoss

\* Every step keeps the counts.
LEMMA NextCountInv == PosInv /\ PosInv' /\ CountInv /\ [Next]_vars => CountInv'
  <1> SUFFICES ASSUME PosInv, PosInv', CountInv, [Next]_vars PROVE CountInv'
    OBVIOUS
  <1>0. TypeOK /\ TypeOK'
    BY DEF PosInv
  <1>1. ASSUME pc' \in {"scan", "setMark"}
        PROVE  count' <= Cardinality(KeptBy(stored', cur', pos'))
    <2>1. CASE pc = "open" /\ UNCHANGED <<cur, pos, count>>
      <3>1. count' = 0 /\ pos' \in Nat
        BY <1>0, <2>1 DEF PosInv, TypeOK
      <3> QED
        BY <3>1, KeptFinite
    <2>2. CASE IngestTurn \/ SkipLine
      <3>1. /\ pc = "scan" /\ cur \in File /\ pos \in Nat /\ pos <= size[cur] /\ count \in Nat
            /\ pos' = pos + 1 /\ cur' = cur
        BY <1>0, <2>2 DEF TypeOK, Ended, IngestTurn, SkipLine, AtLine
      <3>2. count <= Cardinality(KeptBy(stored, cur, pos))
        BY <3>1 DEF CountInv, Kept, KeptBy
      <3>3. /\ Cardinality(KeptBy(stored, cur, pos)) <= Cardinality(KeptBy(stored', cur, pos + 1))
            /\ Cardinality(KeptBy(stored, cur, pos)) \in Nat
            /\ Cardinality(KeptBy(stored', cur, pos + 1)) \in Nat
        BY <1>0, <3>1, StepKeeps
      <3>4. CASE count' = count
        BY <3>1, <3>2, <3>3, <3>4
      <3>5. CASE /\ IngestTurn /\ count' = count + 1
                 /\ \A f \in File : \A i \in DOMAIN Lines[f] :
                        stored'[f][i] = IF f = cur /\ i = pos + 1 THEN stored[f][i] + 1
                                        ELSE stored[f][i]
        <4>1. pos + 1 \in DOMAIN Lines[cur] /\ Lines[cur][pos + 1] = "turn"
          BY <1>0, <3>5, IngestEffect
        <4>2. stored'[cur][pos + 1] = stored[cur][pos + 1] + 1 /\ stored[cur][pos + 1] \in Nat
          BY <1>0, <3>1, <3>5, <4>1, CopiesGrow
        <4>3. \A i \in 1..pos : /\ stored[cur][i] \in Nat /\ stored'[cur][i] \in Nat
                               /\ stored[cur][i] <= stored'[cur][i]
          BY <1>0, <3>1, Prefix, CopiesGrow
        <4>4. stored'[cur][pos + 1] > 0
          BY <4>2
        <4>5. Cardinality(KeptBy(stored, cur, pos)) + 1 <= Cardinality(KeptBy(stored', cur, pos + 1))
          BY <3>1, <4>1, <4>3, <4>4, KeptOneMore
        <4> QED
          BY <3>1, <3>2, <3>3, <3>5, <4>5
      <3>6. CASE SkipLine
        BY <3>4, <3>6 DEF SkipLine
      <3> QED
        BY <1>0, <2>2, <3>4, <3>5, <3>6, IngestEffect
    <2>3. CASE pc \in {"scan", "setMark"} /\ UNCHANGED <<cur, pos, count, stored>>
      BY <2>3 DEF CountInv, Kept, KeptBy
    <2> QED
      BY <1>1, <2>1, <2>2, <2>3, ScanEffect
  <1>2. ASSUME NEW f \in marked' PROVE mark'[f] <= Cardinality(KeptBy(stored', f, upto'[f]))
    <2>1. f \in File /\ upto[f] \in Nat /\ upto[f] <= size[f] /\ mark \in [File -> Nat]
      BY <1>0, <1>2 DEF TypeOK
    <2>2. CASE f \in marked /\ mark'[f] = mark[f] /\ upto'[f] = upto[f]
      <3>1. mark[f] <= Cardinality(KeptBy(stored, f, upto[f]))
        BY <2>2 DEF CountInv, MarkTellsLoss, Kept, KeptBy
      <3>2. /\ Cardinality(KeptBy(stored, f, upto[f])) <= Cardinality(KeptBy(stored', f, upto[f]))
            /\ Cardinality(KeptBy(stored, f, upto[f])) \in Nat
            /\ Cardinality(KeptBy(stored', f, upto[f])) \in Nat
        BY <1>0, <2>1, StepKeeps
      <3> QED
        BY <2>1, <2>2, <3>1, <3>2
    <2>3. CASE pc = "setMark" /\ f = cur /\ mark'[f] = count /\ upto'[f] = pos
      <3>1. count <= Cardinality(KeptBy(stored, cur, pos))
        BY <2>3 DEF CountInv, Kept, KeptBy
      <3>2. pos \in Nat /\ pos <= size[cur] /\ count \in Nat
        BY <1>0, <2>3 DEF TypeOK
      <3>3. /\ Cardinality(KeptBy(stored, cur, pos)) <= Cardinality(KeptBy(stored', cur, pos))
            /\ Cardinality(KeptBy(stored, cur, pos)) \in Nat
            /\ Cardinality(KeptBy(stored', cur, pos)) \in Nat
        BY <1>0, <2>1, <2>3, <3>2, StepKeeps
      <3> QED
        BY <2>3, <3>1, <3>2, <3>3
    <2> QED
      BY <1>0, <1>2, <2>1, <2>2, <2>3, MarkEffect DEF TypeOK
  <1> QED
    BY <1>1, <1>2 DEF CountInv, MarkTellsLoss, Kept, KeptBy

-----------------------------------------------------------------------------
(* Copies and their reasons *)

\* With one more excuse all copies of the file at work are excused, and those of a
\* file that is neither marked nor at work always are.
LEMMA Excused ==
    ASSUME TypeOK, CopiesExplained, cur \in File, Excuse
    PROVE  /\ excuses' \in [File -> Nat]
           /\ \A i \in DOMAIN Lines[cur] : stored[cur][i] <= excuses'[cur]
           /\ \A f \in File : \A i \in DOMAIN Lines[f] :
                  stored[f][i] <= excuses'[f] + (IF f \in marked THEN 1 ELSE 0)
  <1>1. /\ excuses' \in [File -> Nat]
        /\ excuses'[cur] = excuses[cur] + 1
        /\ \A f \in File : f # cur => excuses'[f] = excuses[f]
    BY DEF TypeOK, Excuse
  <1>2. \A f \in File : \A i \in DOMAIN Lines[f] : stored[f][i] \in Nat /\ excuses[f] \in Nat
    BY DEF TypeOK
  <1>3. \A i \in DOMAIN Lines[cur] : stored[cur][i] <= excuses'[cur]
    BY <1>1, <1>2 DEF CopiesExplained
  <1>4. ASSUME NEW f \in File, NEW i \in DOMAIN Lines[f]
        PROVE  stored[f][i] <= excuses'[f] + (IF f \in marked THEN 1 ELSE 0)
    <2>1. CASE f = cur
      BY <1>1, <1>2, <1>3, <2>1
    <2>2. CASE f # cur
      <3>1. ~Scanning(f)
        BY <2>2 DEF Scanning
      <3> QED
        BY <1>1, <2>2, <3>1 DEF CopiesExplained
    <2> QED
      BY <2>1, <2>2
  <1> QED
    BY <1>1, <1>3, <1>4

\* A step that stores nothing, excuses nothing, forgets no mark and stops no scan.
LEMMA CopyFrame ==
    ASSUME CopyInv, UNCHANGED <<stored, excuses, marked>>,
           \A f \in File : Scanning(f) => Scanning(f)',
           pc' = "open" => pc = "open" /\ cur' = cur,
           pc' \in {"scan", "setMark"} =>
               (pc = "open" \/ (pc \in {"scan", "setMark"} /\ pos' >= pos)) /\ cur' = cur,
           TypeOK, TypeOK'
    PROVE  CopyInv'
  <1>1. \A f \in File : \A i \in DOMAIN Lines[f] : stored[f][i] \in Nat /\ excuses[f] \in Nat
    BY DEF TypeOK
  <1>2. CopiesExplained'
    BY <1>1 DEF CopyInv, CopiesExplained
  <1>3. ASSUME pc' = "open" PROVE \A i \in DOMAIN Lines[cur'] : stored'[cur'][i] <= excuses'[cur']
    BY <1>3 DEF CopyInv
  <1>4. ASSUME pc' \in {"scan", "setMark"}
        PROVE  \A i \in DOMAIN Lines[cur'] : i > pos' => stored'[cur'][i] <= excuses'[cur']
    <2>1. CASE pc = "open"
      BY <1>4, <2>1 DEF CopyInv
    <2>2. CASE pc \in {"scan", "setMark"} /\ pos' >= pos
      <3>1. cur \in File /\ pos \in Nat /\ pos' \in Nat
        BY <2>2 DEF TypeOK, Ended
      <3>2. \A i \in DOMAIN Lines[cur] : i \in Nat
        BY <3>1, LineAssumption
      <3>3. \A i \in DOMAIN Lines[cur] : i > pos' => i > pos
        BY <2>2, <3>1, <3>2
      <3> QED
        BY <1>4, <2>2, <3>3 DEF CopyInv
    <2> QED
      BY <1>4, <2>1, <2>2
  <1> QED
    BY <1>2, <1>3, <1>4 DEF CopyInv

\* There are no copies when it all begins.
LEMMA InitCopyInv == Init => CopyInv
  BY DEF Init, CopyInv, CopiesExplained

\* Every step keeps the copies explained.
LEMMA NextCopyInv == PosInv /\ PosInv' /\ CopyInv /\ [Next]_vars => CopyInv'
  <1> SUFFICES ASSUME PosInv, PosInv', CopyInv, [Next]_vars PROVE CopyInv'
    OBVIOUS
  <1>0. TypeOK /\ TypeOK' /\ CopiesExplained
    BY DEF PosInv, CopyInv
  <1>1. pc \in {"check", "open", "scan", "setMark"} => cur \in File
    BY <1>0 DEF TypeOK, Ended
  <1>2. CASE StartPass \/ NextFile \/ EndPass
    BY <1>0, <1>2, CopyFrame DEF StartPass, NextFile, EndPass, InPass, Ended, Scanning, db, history
  <1>3. CASE Open \/ SkipLine \/ EndOfFile
    <2>1. pc \in {"open", "scan"} /\ pc' \in {"scan", "setMark", "next"} /\ cur' = cur
      BY <1>3 DEF Open, SkipLine, EndOfFile, AtLine, OnError
    <2>2. UNCHANGED <<stored, excuses, marked>> /\ (pc = "open" \/ pc' \in {"scan", "setMark"})
      BY <1>3 DEF Open, SkipLine, EndOfFile, AtLine, OnError, db, history
    <2>3. pos' >= pos
      BY <1>0, <1>3 DEF Open, SkipLine, EndOfFile, TypeOK
    <2> QED
      BY <1>0, <2>1, <2>2, <2>3, CopyFrame DEF Scanning
  <1>4. CASE ReadMark
    <2>1. pc = "check" /\ cur \in File /\ cur' = cur /\ UNCHANGED <<stored, marked>>
          /\ pc' \in {"open", "distil"}
      BY <1>1, <1>4 DEF ReadMark, PassOver, db
    <2>2. CASE Excuse
      <3>1. /\ \A i \in DOMAIN Lines[cur] : stored'[cur][i] <= excuses'[cur]
            /\ \A f \in File : \A i \in DOMAIN Lines[f] :
                   stored'[f][i] <= excuses'[f] + (IF f \in marked THEN 1 ELSE 0)
        BY <1>0, <2>1, <2>2, Excused
      <3>2. CopiesExplained'
        BY <1>0, <2>1, <3>1 DEF CopiesExplained, Scanning
      <3> QED
        BY <2>1, <3>1, <3>2 DEF CopyInv
    <2>3. CASE UNCHANGED excuses
      <3>1. CopiesExplained'
        BY <1>0, <2>1, <2>3 DEF CopiesExplained, Scanning
      <3>2. ASSUME pc' = "open" PROVE \A i \in DOMAIN Lines[cur] : stored[cur][i] <= excuses[cur]
        <4>1. cur \notin marked /\ ~Scanning(cur)
          BY <1>4, <2>1, <2>3, <3>2, <1>0 DEF ReadMark, Done, PassOver, Excuse, TypeOK, Scanning
        <4>2. \A i \in DOMAIN Lines[cur] : stored[cur][i] <= excuses[cur] + 0
          BY <1>0, <2>1, <4>1 DEF CopiesExplained
        <4> QED
          BY <1>0, <2>1, <4>2 DEF TypeOK
      <3> QED
        BY <2>1, <2>3, <3>1, <3>2 DEF CopyInv
    <2> QED
      BY <1>4, <2>2, <2>3 DEF ReadMark
  <1>5. CASE ScanError \/ (Kill /\ pc \in {"scan", "setMark"})
    <2>1. Excuse /\ cur \in File /\ pc' \in {"next", "killed"} /\ UNCHANGED <<stored, marked>>
      BY <1>1, <1>5 DEF ScanError, Kill, AtLine, OnError, db
    <2>2. \A f \in File : \A i \in DOMAIN Lines[f] :
              stored'[f][i] <= excuses'[f] + (IF f \in marked THEN 1 ELSE 0)
      BY <1>0, <2>1, Excused
    <2> QED
      BY <2>1, <2>2 DEF CopyInv, CopiesExplained, Scanning
  <1>6. CASE Kill /\ pc \notin {"scan", "setMark"}
    BY <1>0, <1>6, CopyFrame DEF Kill, Scanning, db
  <1>7. CASE IngestTurn
    <2>1. /\ pc = "scan" /\ pc' = "scan" /\ cur \in File /\ cur' = cur
          /\ pos \in Nat /\ pos' = pos + 1 /\ UNCHANGED <<excuses, marked>>
      BY <1>0, <1>7, IngestEffect DEF run
    <2>2. \A f \in File : \A i \in DOMAIN Lines[f] :
              /\ stored[f][i] \in Nat /\ excuses[f] \in Nat /\ i \in Nat
              /\ \/ stored'[f][i] = stored[f][i]
                 \/ stored'[f][i] = stored[f][i] + 1 /\ f = cur /\ i = pos + 1
      <3>1. \A f \in File : \A i \in DOMAIN Lines[f] :
                stored[f][i] \in Nat /\ excuses[f] \in Nat /\ i \in Nat
        <4>1. \A f \in File : \A i \in DOMAIN Lines[f] : stored[f][i] \in Nat /\ excuses[f] \in Nat
          BY <1>0 DEF TypeOK
        <4>2. \A f \in File : Lines[f] \in Seq(Kinds)
          BY LineAssumption
        <4>3. \A f \in File : \A i \in DOMAIN Lines[f] : i \in Nat
          BY <4>2
        <4> QED
          BY <4>1, <4>3
      <3>2. \/ \A f \in File : \A i \in DOMAIN Lines[f] :
                   stored'[f][i] = IF f = cur /\ i = pos + 1 THEN stored[f][i] + 1
                                   ELSE stored[f][i]
            \/ stored' = stored
        BY <1>0, <1>7, IngestEffect
      <3> QED
        BY <3>1, <3>2
    <2>3. \A i \in DOMAIN Lines[cur] : i > pos => stored[cur][i] <= excuses[cur]
      BY <2>1 DEF CopyInv
    <2>4. ASSUME NEW f \in File, NEW i \in DOMAIN Lines[f]
          PROVE  stored'[f][i] <= excuses[f] + (IF f \in marked \/ Scanning(f) THEN 1 ELSE 0)
      <3>1. CASE stored'[f][i] = stored[f][i]
        BY <1>0, <3>1 DEF CopiesExplained
      <3>2. CASE stored'[f][i] = stored[f][i] + 1 /\ f = cur /\ i = pos + 1
        <4>1. stored[f][i] <= excuses[f] /\ Scanning(f)
          BY <2>1, <2>3, <3>2 DEF Scanning
        <4> QED
          BY <2>2, <3>2, <4>1
      <3> QED
        BY <2>2, <3>1, <3>2
    <2>5. \A i \in DOMAIN Lines[cur] : i > pos + 1 => stored'[cur][i] <= excuses[cur]
      BY <2>1, <2>2, <2>3
    <2> QED
      BY <2>1, <2>4, <2>5 DEF CopyInv, CopiesExplained, Scanning
  <1>8. CASE SetMark
    <2>1. /\ pc = "setMark" /\ pc' = "distil" /\ cur \in File /\ UNCHANGED <<stored>>
      BY <1>1, <1>8 DEF SetMark
    <2>2. CASE Excuse /\ UNCHANGED marked
      <3>1. \A f \in File : \A i \in DOMAIN Lines[f] :
                stored'[f][i] <= excuses'[f] + (IF f \in marked THEN 1 ELSE 0)
        BY <1>0, <2>1, <2>2, Excused
      <3> QED
        BY <2>1, <2>2, <3>1 DEF CopyInv, CopiesExplained, Scanning
    <2>3. CASE marked' = marked \cup {cur} /\ UNCHANGED excuses
      <3>1. \A f \in File : f \in marked \/ Scanning(f) => f \in marked'
        BY <2>3 DEF Scanning
      <3>2. \A f \in File : \A i \in DOMAIN Lines[f] : stored[f][i] \in Nat /\ excuses[f] \in Nat
        BY <1>0 DEF TypeOK
      <3> QED
        BY <1>0, <2>1, <2>3, <3>1, <3>2 DEF CopyInv, CopiesExplained
    <2> QED
      BY <1>8, <2>2, <2>3 DEF SetMark
  <1>9. CASE Distil
    BY <1>0, <1>9, CopyFrame DEF Distil, Scanning, history
  <1>10. CASE Interrupt \/ \E f \in File : Grow(f)
    <2>1. UNCHANGED <<stored, excuses, marked, pc, cur, pos>>
      BY <1>10 DEF Interrupt, Grow, db, history
    <2> QED
      BY <2>1 DEF CopyInv, CopiesExplained, Scanning
  <1>11. CASE UNCHANGED vars
    BY <1>11 DEF vars, db, history, CopyInv, CopiesExplained, Scanning
  <1> QED
    BY <1>2, <1>3, <1>4, <1>5, <1>6, <1>7, <1>8, <1>9, <1>10, <1>11 DEF Next, PassStep

-----------------------------------------------------------------------------
(* What a pass leaves behind *)

\* A step between two files or within one that unsettles none.
LEMMA PassFrame ==
    ASSUME PassInv, UNCHANGED <<marked, fresh, todo>>,
           pc \notin {"idle", "killed"}, pc' \notin {"idle", "killed", "done", "distil"},
           cancelled' = FALSE => cancelled = FALSE,
           Worked' = Worked
    PROVE  PassInv'
  BY DEF PassInv, Settled

\* Nothing is claimed before the first pass.
LEMMA InitPassInv == Init => PassInv
  BY DEF Init, PassInv

\* Every step keeps it.
LEMMA NextPassInv == PosInv /\ PosInv' /\ PassInv /\ [Next]_vars => PassInv'
  <1> SUFFICES ASSUME PosInv, PosInv', PassInv, [Next]_vars PROVE PassInv'
    OBVIOUS
  <1>0. TypeOK /\ TypeOK'
    BY DEF PosInv
  <1>1. CASE StartPass
    BY <1>1 DEF StartPass, PassInv
  <1>2. CASE NextFile
    BY <1>2 DEF NextFile, PassInv, Settled, Worked, db
  <1>3. CASE EndPass
    BY <1>3 DEF EndPass, PassInv, Settled, Worked, db
  <1>4. CASE ReadMark
    <2>1. /\ pc = "check" /\ pc' \in {"open", "distil"}
          /\ UNCHANGED <<marked, fresh, todo, cur, cancelled>>
      BY <1>4 DEF ReadMark, PassOver, db
    <2>2. pc' = "distil" => cur \in marked
      BY <1>4, <2>1 DEF ReadMark, Done
    <2> QED
      BY <2>1, <2>2 DEF PassInv, Settled, Worked
  <1>5. CASE Open
    <2>1. pc = "open" /\ cur \in File /\ UNCHANGED <<marked, fresh, todo, cur, cancelled>>
      BY <1>0, <1>5 DEF Open, db, TypeOK, Ended
    <2>2. CASE pc' = "scan"
      BY <2>1, <2>2, PassFrame DEF Worked
    <2>3. CASE pc' = "next" /\ MayFail("open")
      <3>1. ~Sound(cur)
        BY <2>3 DEF Sound, MayFail
      <3> QED
        BY <2>1, <2>3, <3>1 DEF PassInv, Settled, Worked
    <2> QED
      BY <1>5, <2>2, <2>3 DEF Open, OnError
  <1>6. CASE SkipLine \/ EndOfFile
    BY <1>6, PassFrame DEF SkipLine, EndOfFile, AtLine, Worked, db
  <1>7. CASE ScanError
    <2>1. /\ pc = "scan" /\ pc' = "next" /\ Lines[cur][pos + 1] = "long"
          /\ UNCHANGED <<marked, fresh, todo, cur, cancelled>>
      BY <1>7 DEF ScanError, AtLine, OnError, db
    <2>2. ~Sound(cur)
      <3>1. pos + 1 \in DOMAIN Lines[cur]
        BY <1>0, <1>7, LineRead DEF ScanError, AtLine
      <3> QED
        BY <2>1, <3>1 DEF Sound
    <2> QED
      BY <2>1, <2>2 DEF PassInv, Settled, Worked
  <1>8. CASE IngestTurn
    <2>1. /\ pc = "scan" /\ UNCHANGED <<marked, pc, todo, cur>>
          /\ fresh' \subseteq fresh \cup {cur}
      BY <1>0, <1>8, IngestEffect
    <2>2. cancelled' = FALSE => cancelled = FALSE
      BY <1>8 DEF IngestTurn, Signal
    <2> QED
      BY <2>1, <2>2 DEF PassInv, Settled, Worked
  <1>9. CASE SetMark
    <2>1. /\ pc = "setMark" /\ pc' = "distil" /\ cur \in File
          /\ UNCHANGED <<fresh, todo, cur, cancelled>> /\ marked \subseteq marked'
      BY <1>0, <1>9 DEF SetMark, TypeOK, Ended
    <2>2. Sound(cur) => cur \in marked'
      BY <1>9 DEF SetMark, Sound, MayFail
    <2> QED
      BY <2>1, <2>2 DEF PassInv, Settled, Worked
  <1>10. CASE Distil
    <2>1. /\ pc = "distil" /\ pc' = "next" /\ cur \in File
          /\ UNCHANGED <<marked, todo, cur, cancelled>> /\ fresh' \subseteq fresh
      BY <1>0, <1>10 DEF Distil, TypeOK, Ended
    <2>2. Sound(cur) /\ ~cancelled => cur \notin fresh'
      BY <1>10 DEF Distil, Sound, MayFail
    <2> QED
      BY <2>1, <2>2 DEF PassInv, Settled, Worked
  <1>11. CASE Interrupt
    BY <1>11 DEF Interrupt, Signal, InPass, Ended, PassInv, Settled, Worked, db
  <1>12. CASE Kill
    BY <1>12 DEF Kill, PassInv
  <1>13. CASE (\E f \in File : Grow(f)) \/ UNCHANGED vars
    BY <1>13 DEF Grow, vars, db, PassInv, Settled, Worked
  <1> QED
    BY <1>1, <1>2, <1>3, <1>4, <1>5, <1>6, <1>7, <1>8, <1>9, <1>10, <1>11, <1>12, <1>13
    DEF Next, PassStep

-----------------------------------------------------------------------------
(* Nothing is missing while there was no signal *)

\* Of a sound file without a signal every turn read is stored.
LEMMA SoundIngest ==
    ASSUME TypeOK, IngestTurn, Sound(cur), ~cancelled, ~interrupted'
    PROVE  stored'[cur][pos + 1] > 0
  <1>1. Store
    BY DEF IngestTurn, Sound, MayFail, Signal
  <1>2. cur \in File /\ pos + 1 \in DOMAIN Lines[cur]
    BY IngestEffect
  <1>3. stored' = [stored EXCEPT ![cur][pos + 1] = @ + 1]
    BY <1>1 DEF Store
  <1>4. stored'[cur][pos + 1] = stored[cur][pos + 1] + 1
    BY <1>2, <1>3, CopyAdded DEF TypeOK
  <1>5. stored[cur][pos + 1] \in Nat
    BY <1>2 DEF TypeOK
  <1> QED
    BY <1>4, <1>5

\* A signal is never forgotten, and ends ctx.
LEMMA SignalKept ==
    ASSUME [Next]_vars, ~interrupted => ~cancelled, TypeOK, TypeOK'
    PROVE  /\ interrupted => interrupted'
           /\ ~interrupted' => ~cancelled'
  <1>1. CASE IngestTurn
    BY <1>1 DEF IngestTurn, Signal, TypeOK
  <1>2. CASE Interrupt
    BY <1>2 DEF Interrupt, Signal
  <1>3. CASE UNCHANGED <<cancelled, interrupted>>
    BY <1>3
  <1>4. CASE cancelled' = FALSE /\ UNCHANGED interrupted
    BY <1>4
  <1>5. \/ IngestTurn \/ Interrupt \/ UNCHANGED <<cancelled, interrupted>>
        \/ cancelled' = FALSE /\ UNCHANGED interrupted
    BY DEF Next, PassStep, vars, history, StartPass, NextFile, EndPass, ReadMark, Open, SkipLine,
           ScanError, EndOfFile, SetMark, Distil, Kill, Grow
  <1> QED
    BY <1>1, <1>2, <1>3, <1>4, <1>5

\* Nothing is read or marked when it all begins.
LEMMA InitWholeInv == Init => WholeInv
  BY DEF Init, WholeInv, ImportedWhole

\* Every step keeps it.
LEMMA NextWholeInv == PosInv /\ PosInv' /\ WholeInv /\ [Next]_vars => WholeInv'
  <1> SUFFICES ASSUME PosInv, PosInv', WholeInv, [Next]_vars PROVE WholeInv'
    OBVIOUS
  <1>0. TypeOK /\ TypeOK'
    BY DEF PosInv
  <1>1. (~interrupted' => ~cancelled') /\ (interrupted => interrupted')
    BY <1>0, SignalKept DEF WholeInv
  <1>2. ASSUME ~interrupted', pc' \in {"scan", "setMark"}, Sound(cur')
        PROVE  KeptBy(stored', cur', pos') = Turns(cur', pos')
    <2>0. ~interrupted /\ ~cancelled
      BY <1>1, <1>2 DEF WholeInv
    <2>1. CASE pc = "open" /\ UNCHANGED <<cur, pos>>
      <3>1. pos' = 0
        BY <1>0, <2>1 DEF TypeOK
      <3>2. Turns(cur', 0) = {}
        BY DEF Turns
      <3> QED
        BY <3>1, <3>2 DEF KeptBy
    <2>2. CASE IngestTurn \/ SkipLine
      <3>1. /\ pc = "scan" /\ cur \in File /\ pos \in Nat /\ pos <= size[cur]
            /\ pos' = pos + 1 /\ cur' = cur
        BY <1>0, <2>2 DEF TypeOK, Ended, IngestTurn, SkipLine, AtLine
      <3>2. KeptBy(stored, cur, pos) = Turns(cur, pos)
        BY <1>2, <2>0, <3>1 DEF WholeInv, Kept, KeptBy
      <3>3. KeptBy(stored, cur, pos) \subseteq KeptBy(stored', cur, pos + 1)
        BY <1>0, <3>1, StepKeeps
      <3>4. \/ Lines[cur][pos + 1] = "other"
            \/ stored'[cur][pos + 1] > 0
        BY <1>0, <1>2, <2>0, <2>2, <3>1, SoundIngest DEF SkipLine, AtLine
      <3>5. Turns(cur, pos + 1) \subseteq Turns(cur, pos) \cup {pos + 1}
        BY <3>1 DEF Turns
      <3>6. pos + 1 \in Turns(cur, pos + 1) => pos + 1 \in KeptBy(stored', cur, pos + 1)
        BY <3>4 DEF Turns, KeptBy
      <3> QED
        BY <3>1, <3>2, <3>3, <3>5, <3>6 DEF KeptBy
    <2>3. CASE pc \in {"scan", "setMark"} /\ UNCHANGED <<cur, pos, stored>>
      BY <1>2, <2>0, <2>3 DEF WholeInv, Kept, KeptBy
    <2> QED
      BY <1>2, <2>1, <2>2, <2>3, ScanEffect
  <1>3. ASSUME ~interrupted', NEW f \in marked', Sound(f)
        PROVE  KeptBy(stored', f, upto'[f]) = Turns(f, upto'[f])
    <2>1. f \in File /\ upto[f] \in Nat /\ upto[f] <= size[f]
      BY <1>0, <1>3 DEF TypeOK
    <2>2. CASE f \in marked /\ upto'[f] = upto[f]
      <3>1. KeptBy(stored, f, upto[f]) = Turns(f, upto[f])
        BY <1>1, <1>3, <2>2 DEF WholeInv, ImportedWhole, Kept, KeptBy
      <3>2. KeptBy(stored, f, upto[f]) \subseteq KeptBy(stored', f, upto[f])
        BY <1>0, <2>1, StepKeeps
      <3> QED
        BY <2>2, <3>1, <3>2 DEF KeptBy
    <2>3. CASE pc = "setMark" /\ f = cur /\ upto'[f] = pos
      <3>1. pos \in Nat /\ pos <= size[cur]
        BY <1>0, <2>3 DEF TypeOK
      <3>2. KeptBy(stored, cur, pos) = Turns(cur, pos)
        BY <1>1, <1>3, <2>3 DEF WholeInv, Kept, KeptBy
      <3>3. KeptBy(stored, cur, pos) \subseteq KeptBy(stored', cur, pos)
        BY <1>0, <2>1, <2>3, <3>1, StepKeeps
      <3> QED
        BY <2>3, <3>2, <3>3 DEF KeptBy
    <2> QED
      BY <1>0, <1>3, <2>1, <2>2, <2>3, MarkEffect DEF TypeOK
  <1> QED
    BY <1>1, <1>2, <1>3 DEF WholeInv, ImportedWhole, Kept, KeptBy

-----------------------------------------------------------------------------
(* The theorems *)

\* The invariant holds.
LEMMA ImportInvariant == Spec => []ImportInv
  <1>1. Init => ImportInv
    BY InitPosInv, InitCountInv, InitCopyInv, InitPassInv, InitWholeInv DEF ImportInv
  <1>2. ImportInv /\ [Next]_vars => ImportInv'
    BY NextPosInv, NextCountInv, NextCopyInv, NextPassInv, NextWholeInv DEF ImportInv
  <1> QED
    BY <1>1, <1>2, PTL DEF Spec

\* Type correctness: a scan never reads, nor a mark stands for, more than the file has.
THEOREM ImportTypeCorrect == Spec => []TypeOK
  <1>1. ImportInv => TypeOK
    BY DEF ImportInv, PosInv
  <1> QED
    BY <1>1, ImportInvariant, PTL

\* However calls fail and passes end, a mark counts no more than is stored.
THEOREM MarkTellsLossHolds == Spec => []MarkTellsLoss
  <1>1. ImportInv => MarkTellsLoss
    BY DEF ImportInv, CountInv
  <1> QED
    BY <1>1, ImportInvariant, PTL

\* However often the command is run, every further copy of a turn has a reason.
THEOREM CopiesExplainedHolds == Spec => []CopiesExplained
  <1>1. ImportInv => CopiesExplained
    BY DEF ImportInv, CopyInv
  <1> QED
    BY <1>1, ImportInvariant, PTL

\* A pass that ends has marked and distilled every sound file.
THEOREM SoundFilesFinishedHolds == Spec => []SoundFilesFinished
  <1>1. ImportInv => SoundFilesFinished
    BY DEF ImportInv, PassInv, SoundFilesFinished, Worked, Settled
  <1> QED
    BY <1>1, ImportInvariant, PTL

\* Without a signal nothing of a sound file that is marked is missing.
THEOREM ImportedWholeHolds == Spec => []ImportedWhole
  <1>1. ImportInv => ImportedWhole
    BY DEF ImportInv, WholeInv
  <1> QED
    BY <1>1, ImportInvariant, PTL
=============================================================================
