---------------------------- MODULE EmbeddingProofs ----------------------------
(***************************************************************************)
(* The drill-down of Index.Query for any clustering, any thresholds above  *)
(* zero and any number of clusters looked into, and what a text is read    *)
(* as, for any vocabulary and any names.                                   *)
(***************************************************************************)
EXTENDS Embedding, PhraseScanProofs, FiniteSetTheorems, TLAPS

-----------------------------------------------------------------------------
(* One level of the drill-down *)

\* What the parents of a level are known to be: each carries what its bitmap has
\* of the query q, and its bitmap is made of those of its members.
Narrowed(parents, members, bits, q) ==
    /\ DOMAIN parents \subseteq DOMAIN members
    /\ \A p \in DOMAIN parents : parents[p] = q \cap UpperBitmaps(members, bits)[p]

\* The bitmap of a member is part of its parent's.
LEMMA MemberWithinParent ==
    ASSUME NEW members, NEW bits, NEW p \in DOMAIN members,
           NEW c \in members[p] \cap DOMAIN bits
    PROVE  bits[c] \subseteq UpperBitmaps(members, bits)[p]
  BY DEF UpperBitmaps

\* So each parent's query, and all of them pooled, have what the query has of it.
LEMMA PooledIsWhole ==
    ASSUME NEW parents, NEW members, NEW bits, NEW q, Narrowed(parents, members, bits, q),
           NEW c \in Reached(parents, members) \cap DOMAIN bits
    PROVE  /\ Pooled(c, parents, members) \subseteq q
           /\ Pooled(c, parents, members) \cap bits[c] = q \cap bits[c]
           /\ \A p \in ParentsOf(c, parents, members) :
                  /\ parents[p] \subseteq Pooled(c, parents, members)
                  /\ parents[p] \cap bits[c] = q \cap bits[c]
  <1>1. \A p \in ParentsOf(c, parents, members) :
            p \in DOMAIN parents /\ p \in DOMAIN members /\ c \in members[p]
    BY DEF ParentsOf
  <1>2. \A p \in ParentsOf(c, parents, members) :
            parents[p] \subseteq q /\ parents[p] \cap bits[c] = q \cap bits[c]
    BY <1>1, MemberWithinParent DEF Narrowed
  <1>3. \A p \in ParentsOf(c, parents, members) : parents[p] \subseteq Pooled(c, parents, members)
    BY DEF Pooled
  <1>4. PICK p \in ParentsOf(c, parents, members) : TRUE
    BY DEF Reached, ParentsOf
  <1>5. Pooled(c, parents, members) \subseteq q
    BY <1>2 DEF Pooled
  <1>6. q \cap bits[c] \subseteq Pooled(c, parents, members) \cap bits[c]
    BY <1>2, <1>3, <1>4
  <1> QED
    BY <1>2, <1>3, <1>5, <1>6

\* Counting: a threshold above zero is not reached by sharing nothing.
LEMMA SharesSomething ==
    ASSUME NEW n \in Nat, NEW m \in Nat, NEW t \in 1..100, n # 0, t * n <= 100 * m
    PROVE  m # 0
  <1>1. t * n >= 1
    BY SMT
  <1> QED
    BY <1>1

\* Counting: what is enough of many is enough of fewer.
LEMMA EnoughOfFewer ==
    ASSUME NEW n \in Nat, NEW k \in Nat, NEW m \in Nat, NEW t \in 1..100,
           k <= n, t * n <= 100 * m
    PROVE  t * k <= 100 * m
  <1>1. t * k <= t * n
    BY SMT
  <1> QED
    BY <1>1

\* A candidate carries what its bitmap has of the query, and that is something;
\* and every parent would have let it pass.
LEMMA DrillDownNarrows ==
    ASSUME NEW parents, NEW members, NEW bits, NEW q, NEW t \in 1..100,
           IsFiniteSet(q), Narrowed(parents, members, bits, q),
           NEW c \in DOMAIN DrillDown(parents, members, bits, t)
    PROVE  /\ c \in DOMAIN bits
           /\ DrillDown(parents, members, bits, t)[c] = q \cap bits[c]
           /\ q \cap bits[c] # {}
           /\ \A p \in ParentsOf(c, parents, members) : Enough(parents[p], bits[c], t)
  <1> DEFINE P == Pooled(c, parents, members)
  <1>1. /\ c \in Reached(parents, members) \cap DOMAIN bits
        /\ Enough(P, bits[c], t)
        /\ DrillDown(parents, members, bits, t)[c] = P \cap bits[c]
    BY DEF DrillDown
  <1>2. /\ P \subseteq q
        /\ P \cap bits[c] = q \cap bits[c]
        /\ \A p \in ParentsOf(c, parents, members) :
               parents[p] \subseteq P /\ parents[p] \cap bits[c] = q \cap bits[c]
    BY <1>1, PooledIsWhole
  <1>3. /\ P # {}
        /\ t * Cardinality(P) <= 100 * Cardinality(P \cap bits[c])
    BY <1>1 DEF Enough, Overlap
  <1> HIDE DEF P
  <1>4. IsFiniteSet(P) /\ IsFiniteSet(P \cap bits[c])
    <2>1. IsFiniteSet(P)
      BY <1>2, FS_Subset
    <2> QED
      BY <2>1, FS_Subset
  <1>5. /\ Cardinality(P) \in Nat /\ Cardinality(P) # 0
        /\ Cardinality(P \cap bits[c]) \in Nat
    BY <1>3, <1>4, FS_CardinalityType, FS_EmptySet
  <1>6. P \cap bits[c] # {}
    <2>1. Cardinality(P \cap bits[c]) # 0
      BY <1>3, <1>5, SharesSomething
    <2> QED
      BY <2>1, FS_EmptySet
  <1>7. ASSUME NEW p \in ParentsOf(c, parents, members)
        PROVE  Enough(parents[p], bits[c], t)
    <2>1. parents[p] \subseteq P /\ parents[p] \cap bits[c] = P \cap bits[c]
      BY <1>2
    <2>2. Cardinality(parents[p]) \in Nat /\ Cardinality(parents[p]) <= Cardinality(P)
      BY <1>4, <2>1, FS_Subset, FS_CardinalityType
    <2>3. t * Cardinality(parents[p]) <= 100 * Cardinality(P \cap bits[c])
      BY <1>3, <1>5, <2>2, EnoughOfFewer
    <2>4. parents[p] # {}
      BY <1>6, <2>1
    <2> QED
      BY <2>1, <2>3, <2>4 DEF Enough, Overlap
  <1> QED
    BY <1>1, <1>2, <1>6, <1>7 DEF P

\* A member that has the whole query passes below a parent that has it.
LEMMA DrillDownKeepsWhole ==
    ASSUME NEW parents, NEW members, NEW bits, NEW q, NEW t \in 1..100,
           IsFiniteSet(q), q # {}, Narrowed(parents, members, bits, q),
           NEW p \in DOMAIN parents, NEW c \in members[p] \cap DOMAIN bits,
           q \subseteq bits[c]
    PROVE  c \in DOMAIN DrillDown(parents, members, bits, t)
  <1>1. c \in Reached(parents, members) \cap DOMAIN bits
    BY DEF Reached, Narrowed
  <1>2. Pooled(c, parents, members) = q
    <2>1. PICK r \in ParentsOf(c, parents, members) : TRUE
      BY <1>1 DEF Reached, ParentsOf
    <2> QED
      BY <1>1, <2>1, PooledIsWhole
  <1>3. Enough(q, bits[c], t)
    <2>1. q \cap bits[c] = q
      OBVIOUS
    <2>2. Cardinality(q) \in Nat
      BY FS_CardinalityType
    <2>3. \A n \in Nat : t * n <= 100 * n
      BY SMT
    <2> QED
      BY <2>1, <2>2, <2>3 DEF Enough, Overlap
  <1> QED
    BY <1>1, <1>2, <1>3 DEF DrillDown

-----------------------------------------------------------------------------
(* The four levels *)

\* An index Build may have written: tables of the right shape, however they were
\* mixed, and every bitmap made from what stands beside it.
IsIndex(i) ==
    /\ IsRows(i.words, Texts, Token)
    /\ IsRows(i.l0, Cluster, SUBSET Token)
    /\ IsMembers(i.l1) /\ IsMembers(i.l2) /\ IsMembers(i.l3)
    /\ i.b0 = i.l0
    /\ i.b1 = UpperBitmaps(i.l1, i.b0)
    /\ i.b2 = UpperBitmaps(i.l2, i.b1)
    /\ i.b3 = UpperBitmaps(i.l3, i.b2)

\* A level whose candidates carry what the query has of their bitmaps is one whose
\* candidates may be drilled down from.
LEMMA LevelBelow ==
    ASSUME NEW parents, NEW members, NEW bits, NEW q,
           \A p \in DOMAIN parents :
               /\ p \in DOMAIN UpperBitmaps(members, bits)
               /\ parents[p] = q \cap UpperBitmaps(members, bits)[p]
    PROVE  Narrowed(parents, members, bits, q)
  <1>1. DOMAIN UpperBitmaps(members, bits) = DOMAIN members
    BY DEF UpperBitmaps
  <1> QED
    BY <1>1 DEF Narrowed

\* The top clusters carry what the query has of them, and that is something.
LEMMA TopNarrows ==
    ASSUME NEW q, NEW bits, NEW top \in TopOverlaps(q, bits),
           NEW c \in DOMAIN Narrow(q, top, bits)
    PROVE  /\ c \in DOMAIN bits
           /\ Narrow(q, top, bits)[c] = q \cap bits[c]
           /\ q \cap bits[c] # {}
  BY DEF TopOverlaps, Narrow

\* On every level the parents are narrowed to the query.
LEMMA LevelsNarrowed ==
    ASSUME NEW i, IsIndex(i), NEW q, IsFiniteSet(q), NEW top \in TopOverlaps(q, i.b3)
    PROVE  LET levels == Levels(i, q, top)
           IN /\ Narrowed(levels.c3, i.l3, i.b2, q)
              /\ Narrowed(levels.c2, i.l2, i.b1, q)
              /\ Narrowed(levels.c1, i.l1, i.b0, q)
  <1> DEFINE c3 == Narrow(q, top, i.b3)
             c2 == DrillDown(c3, i.l3, i.b2, T2)
             c1 == DrillDown(c2, i.l2, i.b1, T1)
  <1>1. Levels(i, q, top).c3 = c3 /\ Levels(i, q, top).c2 = c2 /\ Levels(i, q, top).c1 = c1
    BY DEF Levels
  <1>2. T2 \in 1..100 /\ T1 \in 1..100
    BY ThresholdAssumption
  <1>3. i.b3 = UpperBitmaps(i.l3, i.b2) /\ i.b2 = UpperBitmaps(i.l2, i.b1)
        /\ i.b1 = UpperBitmaps(i.l1, i.b0)
    BY DEF IsIndex
  <1>4. \A p \in DOMAIN c3 : p \in DOMAIN i.b3 /\ c3[p] = q \cap i.b3[p]
    BY TopNarrows
  <1> HIDE DEF c3
  <1>5. Narrowed(c3, i.l3, i.b2, q)
    BY <1>3, <1>4, LevelBelow
  <1>6. \A p \in DOMAIN c2 : p \in DOMAIN i.b2 /\ c2[p] = q \cap i.b2[p]
    BY <1>2, <1>5, DrillDownNarrows
  <1> HIDE DEF c2
  <1>7. Narrowed(c2, i.l2, i.b1, q)
    BY <1>3, <1>6, LevelBelow
  <1>8. \A p \in DOMAIN c1 : p \in DOMAIN i.b1 /\ c1[p] = q \cap i.b1[p]
    BY <1>2, <1>7, DrillDownNarrows
  <1> HIDE DEF c1
  <1>9. Narrowed(c1, i.l1, i.b0, q)
    BY <1>3, <1>8, LevelBelow
  <1> QED
    BY <1>1, <1>5, <1>7, <1>9

\* If no more clusters have the whole query than are looked into, all are.
LEMMA WholeAreTop ==
    ASSUME NEW q, NEW bits, IsFiniteSet(q), q # {}, IsFiniteSet(DOMAIN bits),
           NEW top \in TopOverlaps(q, bits),
           Cardinality({c \in DOMAIN bits : q \subseteq bits[c]}) <= TopClusters,
           NEW c3 \in DOMAIN bits, q \subseteq bits[c3]
    PROVE  c3 \in top
  <1> DEFINE whole == {c \in DOMAIN bits : q \subseteq bits[c]}
             scored == {c \in DOMAIN bits : q \cap bits[c] # {}}
  <1>1. /\ top \subseteq scored
        /\ top = scored \/ Cardinality(top) = TopClusters
        /\ \A c \in top, d \in scored \ top : Overlap(q, bits[d]) <= Overlap(q, bits[c])
    BY DEF TopOverlaps
  <1>2. c3 \in whole /\ c3 \in scored
    OBVIOUS
  <1>3. SUFFICES ASSUME c3 \notin top PROVE FALSE
    OBVIOUS
  <1>4. Cardinality(top) = TopClusters
    BY <1>1, <1>2, <1>3
  <1>5. top \subseteq whole
    <2> SUFFICES ASSUME NEW c \in top PROVE q \subseteq bits[c]
      BY <1>1
    <2>1. Overlap(q, bits[c3]) <= Overlap(q, bits[c])
      BY <1>1, <1>2, <1>3
    <2>2. q \cap bits[c3] = q
      OBVIOUS
    <2>3. Cardinality(q) <= Cardinality(q \cap bits[c])
      BY <2>1, <2>2 DEF Overlap
    <2>4. q \cap bits[c] \in SUBSET q
      OBVIOUS
    <2>5. /\ Cardinality(q) \in Nat /\ Cardinality(q \cap bits[c]) \in Nat
          /\ Cardinality(q \cap bits[c]) <= Cardinality(q)
          /\ Cardinality(q) = Cardinality(q \cap bits[c]) => q = q \cap bits[c]
      BY <2>4, FS_Subset, FS_CardinalityType
    <2>6. Cardinality(q) = Cardinality(q \cap bits[c])
      BY <2>3, <2>5
    <2> QED
      BY <2>5, <2>6
  <1>6. IsFiniteSet(whole)
    <2>1. whole \in SUBSET DOMAIN bits
      OBVIOUS
    <2> QED
      BY <2>1, FS_Subset
  <1>7. Cardinality(whole) <= TopClusters
    OBVIOUS
  <1> HIDE DEF whole, scored
  <1>8. top \in SUBSET (whole \ {c3})
    BY <1>3, <1>5
  <1>9. /\ IsFiniteSet(whole \ {c3})
        /\ Cardinality(whole \ {c3}) = Cardinality(whole) - 1
    BY <1>2, <1>6, FS_RemoveElement
  <1>10. Cardinality(top) <= Cardinality(whole \ {c3})
    BY <1>8, <1>9, FS_Subset
  <1>11. Cardinality(whole) \in Nat /\ TopClusters \in Nat
    BY <1>6, FS_CardinalityType, ThresholdAssumption
  <1> QED
    BY <1>4, <1>7, <1>9, <1>10, <1>11

-----------------------------------------------------------------------------
(* The invariant: what is loaded is an index, and a reply is made with it *)

\* What was last said was said by the index in use.
Answered ==
    Replied =>
        /\ idx # NoIndex
        /\ reply.q \subseteq Token
        /\ \E top \in TopOverlaps(reply.q, idx.b3) : reply.levels = Levels(idx, reply.q, top)

\* Build has tables, mixed or not, and everything it finished is an index.
IndexInv ==
    /\ db \in Snapshots
    /\ reclusters \in 0..MaxReclusters /\ builds \in 0..MaxBuilds
    /\ step \in BuildSteps
    /\ IsTables(read)
    /\ file \notin {NoIndex, Torn} => IsIndex(file)
    /\ idx # NoIndex => IsIndex(idx)
    /\ registry \subseteq Names
    /\ Answered

\* One table more read leaves tables, whatever the others were read from.
LEMMA TablesMixed ==
    ASSUME NEW r, IsTables(r), NEW t, IsTables(t), NEW k \in DOMAIN After
    PROVE  IsTables([r EXCEPT ![k] = t[k]])
  <1> DEFINE n == [r EXCEPT ![k] = t[k]]
  <1>1. DOMAIN After = {"words", "l0", "l1", "l2", "l3"}
    BY DEF After
  <1>2. DOMAIN n = DOMAIN After
    BY DEF IsTables
  <1>3. \A j \in DOMAIN After : n[j] = r[j] \/ n[j] = t[j]
    BY DEF IsTables
  <1>4. /\ n.words = r.words \/ n.words = t.words
        /\ n.l0 = r.l0 \/ n.l0 = t.l0
        /\ n.l1 = r.l1 \/ n.l1 = t.l1
        /\ n.l2 = r.l2 \/ n.l2 = t.l2
        /\ n.l3 = r.l3 \/ n.l3 = t.l3
    BY <1>1, <1>3
  <1> HIDE DEF n
  <1>5. IsRows(n.words, Texts, Token) /\ IsRows(n.l0, Cluster, SUBSET Token)
    BY <1>4 DEF IsTables
  <1>6. IsMembers(n.l1) /\ IsMembers(n.l2) /\ IsMembers(n.l3)
    BY <1>4 DEF IsTables
  <1>7. IsTables(n)
    BY <1>2, <1>5, <1>6 DEF IsTables
  <1> QED
    BY <1>7 DEF n

\* What Build writes is an index.
LEMMA CompiledIsIndex ==
    ASSUME NEW t, IsTables(t)
    PROVE  IsIndex(Compile(t))
  BY DEF IsTables, IsIndex, Compile

\* The tokens of a text are tokens.
LEMMA QueryTokens ==
    ASSUME NEW i, IsIndex(i), NEW text
    PROVE  {i.words[p] : p \in Hits(text, DOMAIN i.words)} \subseteq Token
  BY DEF IsIndex, IsRows, Hits

\* Nothing is built, loaded or said when it all begins.
LEMMA InitIndexInv == Init => IndexInv
  <1> SUFFICES ASSUME Init PROVE IndexInv
    OBVIOUS
  <1>1. IsTables(read) /\ db \in Snapshots
    BY SnapshotAssumption DEF Init
  <1>2. ~Replied
    BY DEF Init, Replied
  <1> QED
    BY <1>1, <1>2, BoundAssumption DEF Init, IndexInv, Answered, BuildSteps

\* Every step keeps the invariant.
LEMMA NextIndexInv == IndexInv /\ [Next]_vars => IndexInv'
  <1> SUFFICES ASSUME IndexInv, [Next]_vars PROVE IndexInv'
    OBVIOUS
  <1> USE DEF IndexInv
  <1>1. CASE Recluster
    BY <1>1, BoundAssumption DEF Recluster, buildVars, Answered, Replied
  <1>2. CASE StartBuild
    <2>1. step' \in BuildSteps /\ builds' \in 0..MaxBuilds
      BY <1>2, BoundAssumption DEF StartBuild, BuildSteps, After
    <2> QED
      BY <1>2, <2>1 DEF StartBuild, Answered, Replied
  <1>3. CASE ReadTable
    <2>1. IsTables(read')
      BY <1>3, TablesMixed, SnapshotAssumption DEF ReadTable
    <2>2. step' \in BuildSteps
      BY <1>3 DEF ReadTable, BuildSteps, After
    <2> QED
      BY <1>3, <2>1, <2>2 DEF ReadTable, Answered, Replied
  <1>4. CASE CreateFile
    BY <1>4 DEF CreateFile, BuildSteps, Answered, Replied
  <1>5. CASE EncodeFile
    <2>1. IsIndex(file')
      BY <1>5, CompiledIsIndex DEF EncodeFile
    <2> QED
      BY <1>5, <2>1 DEF EncodeFile, BuildSteps, Answered, Replied
  <1>6. CASE AbortBuild
    BY <1>6 DEF AbortBuild, BuildSteps, Answered, Replied
  <1>7. CASE Load
    <2>1. ~Replied
      BY <1>7 DEF Load, Answered
    <2> QED
      BY <1>7, <2>1 DEF Load, buildVars, Answered, Replied
  <1>8. CASE Exit
    BY <1>8 DEF Exit, buildVars, Answered, Replied
  <1>9. ASSUME NEW name \in Names, AddToken(name) PROVE IndexInv'
    BY <1>9 DEF AddToken, buildVars, Answered, Replied
  <1>10. ASSUME NEW text \in Texts, Query(text) PROVE IndexInv'
    <2> DEFINE q == {idx.words[p] : p \in Hits(text, DOMAIN idx.words)}
    <2>1. /\ idx # NoIndex
          /\ UNCHANGED <<db, reclusters, buildVars, file, idx, registry>>
      BY <1>10 DEF Query
    <2>2. q \subseteq Token
      BY <2>1, QueryTokens
    <2>3. \E top \in TopOverlaps(q, idx.b3) :
              reply'.q = q /\ reply'.levels = Levels(idx, q, top)
      <3>1. PICK top \in TopOverlaps(q, idx.b3) :
                reply' = [text |-> text, q |-> q, oov |-> Unknown(text, DOMAIN idx.words),
                          levels |-> Levels(idx, q, top),
                          tokens |-> TokensOf(idx, DOMAIN Levels(idx, q, top).c0),
                          names |-> Hits(text, Phrases(registry))]
        BY <1>10, Zenon DEF Query
      <3>2. reply'.q = q /\ reply'.levels = Levels(idx, q, top)
        <4> HIDE DEF q
        <4> QED
          BY <3>1
      <3> QED
        BY <3>2
    <2>4. Answered'
      <3> HIDE DEF q
      <3> QED
        BY <2>1, <2>2, <2>3 DEF Answered
    <2> QED
      BY <2>1, <2>4 DEF buildVars
  <1>11. CASE UNCHANGED vars
    BY <1>11 DEF vars, buildVars, Answered, Replied
  <1> QED
    BY <1>1, <1>2, <1>3, <1>4, <1>5, <1>6, <1>7, <1>8, <1>9, <1>10, <1>11 DEF Next

\* The invariant holds.
LEMMA IndexInvariant == Spec => []IndexInv
  BY InitIndexInv, NextIndexInv, PTL DEF Spec

-----------------------------------------------------------------------------
(* What replies are *)

\* A reply's text has finitely many tokens, its first level are top clusters, and
\* each level below is the drill-down from narrowed parents.
LEMMA ReplyIsDrilled ==
    ASSUME IndexInv, Replied
    PROVE  /\ IsIndex(idx)
           /\ IsFiniteSet(reply.q)
           /\ \E top \in TopOverlaps(reply.q, idx.b3) :
                  reply.levels.c3 = Narrow(reply.q, top, idx.b3)
           /\ reply.levels.c2 = DrillDown(reply.levels.c3, idx.l3, idx.b2, T2)
           /\ reply.levels.c1 = DrillDown(reply.levels.c2, idx.l2, idx.b1, T1)
           /\ reply.levels.c0 = DrillDown(reply.levels.c1, idx.l1, idx.b0, T0)
           /\ Narrowed(reply.levels.c3, idx.l3, idx.b2, reply.q)
           /\ Narrowed(reply.levels.c2, idx.l2, idx.b1, reply.q)
           /\ Narrowed(reply.levels.c1, idx.l1, idx.b0, reply.q)
  <1>1. PICK top \in TopOverlaps(reply.q, idx.b3) : reply.levels = Levels(idx, reply.q, top)
    BY DEF IndexInv, Answered
  <1>2. IsIndex(idx)
    BY DEF IndexInv, Answered
  <1>3. IsFiniteSet(reply.q)
    <2>1. reply.q \in SUBSET Token
      BY DEF IndexInv, Answered
    <2> QED
      BY <2>1, FiniteAssumption, FS_Subset
  <1>4. /\ reply.levels.c3 = Narrow(reply.q, top, idx.b3)
        /\ reply.levels.c2 = DrillDown(reply.levels.c3, idx.l3, idx.b2, T2)
        /\ reply.levels.c1 = DrillDown(reply.levels.c2, idx.l2, idx.b1, T1)
        /\ reply.levels.c0 = DrillDown(reply.levels.c1, idx.l1, idx.b0, T0)
    BY <1>1 DEF Levels
  <1>5. /\ Narrowed(reply.levels.c3, idx.l3, idx.b2, reply.q)
        /\ Narrowed(reply.levels.c2, idx.l2, idx.b1, reply.q)
        /\ Narrowed(reply.levels.c1, idx.l1, idx.b0, reply.q)
    BY <1>1, <1>2, <1>3, LevelsNarrowed
  <1> QED
    BY <1>2, <1>3, <1>4, <1>5

\* The same of each of the three steps down.
LEMMA EveryDrill ==
    ASSUME IndexInv, Replied, NEW d \in Drills
    PROVE  /\ d[5] \in 1..100
           /\ d[3] = DrillDown(d[1], d[2], d[4], d[5])
           /\ Narrowed(d[1], d[2], d[4], reply.q)
  <1>1. T2 \in 1..100 /\ T1 \in 1..100 /\ T0 \in 1..100
    BY ThresholdAssumption
  <1>2. CASE d = <<reply.levels.c3, idx.l3, reply.levels.c2, idx.b2, T2>>
    BY <1>1, <1>2, ReplyIsDrilled
  <1>3. CASE d = <<reply.levels.c2, idx.l2, reply.levels.c1, idx.b1, T1>>
    BY <1>1, <1>3, ReplyIsDrilled
  <1>4. CASE d = <<reply.levels.c1, idx.l1, reply.levels.c0, idx.b0, T0>>
    BY <1>1, <1>4, ReplyIsDrilled
  <1> QED
    BY <1>2, <1>3, <1>4 DEF Drills

\* A cluster with the whole query is reached through a parent whose bitmap is made
\* of its own.
LEMMA WholeAbove ==
    ASSUME NEW members, NEW bits, NEW q, NEW p \in DOMAIN members,
           NEW c \in members[p] \cap DOMAIN bits, q \subseteq bits[c]
    PROVE  /\ p \in DOMAIN UpperBitmaps(members, bits)
           /\ q \subseteq UpperBitmaps(members, bits)[p]
  BY MemberWithinParent DEF UpperBitmaps

\* Every candidate carries what the text and its cluster share, and that is not
\* nothing: for every clustering, however Build mixed its tables.
THEOREM CandidatesMatchHolds == Spec => []CandidatesMatch
  <1>1. IndexInv => CandidatesMatch
    <2> SUFFICES ASSUME IndexInv, Replied
                 PROVE  /\ \A c \in DOMAIN reply.levels.c3 :
                               reply.levels.c3[c] = reply.q \cap idx.b3[c] /\ reply.levels.c3[c] # {}
                        /\ \A d \in Drills : \A c \in DOMAIN d[3] :
                               d[3][c] = reply.q \cap d[4][c] /\ d[3][c] # {}
      BY DEF CandidatesMatch
    <2>1. \A c \in DOMAIN reply.levels.c3 :
              reply.levels.c3[c] = reply.q \cap idx.b3[c] /\ reply.levels.c3[c] # {}
      <3>1. PICK top \in TopOverlaps(reply.q, idx.b3) :
                reply.levels.c3 = Narrow(reply.q, top, idx.b3)
        BY ReplyIsDrilled
      <3> QED
        BY <3>1, TopNarrows
    <2>2. ASSUME NEW d \in Drills, NEW c \in DOMAIN d[3]
          PROVE  d[3][c] = reply.q \cap d[4][c] /\ d[3][c] # {}
      <3>1. IsFiniteSet(reply.q)
        BY ReplyIsDrilled
      <3> DEFINE parents == d[1]
                 members == d[2]
                 children == d[3]
                 bits == d[4]
                 t == d[5]
      <3>2. /\ t \in 1..100 /\ c \in DOMAIN children
            /\ children = DrillDown(parents, members, bits, t)
            /\ Narrowed(parents, members, bits, reply.q)
        BY <2>2, EveryDrill
      <3> HIDE DEF parents, members, children, bits, t
      <3>3. children[c] = reply.q \cap bits[c] /\ children[c] # {}
        BY <3>1, <3>2, DrillDownNarrows
      <3> QED
        BY <3>3 DEF children, bits
    <2> QED
      BY <2>1, <2>2
  <1> QED
    BY <1>1, IndexInvariant, PTL

\* No child passes that one of its parents alone would hold back.
THEOREM SharedChildGainsNothingHolds == Spec => []SharedChildGainsNothing
  <1>1. IndexInv => SharedChildGainsNothing
    <2> SUFFICES ASSUME IndexInv, Replied, NEW d \in Drills, NEW c \in DOMAIN d[3],
                        NEW p \in ParentsOf(c, d[1], d[2])
                 PROVE  Enough(d[1][p], d[4][c], d[5])
      BY DEF SharedChildGainsNothing
    <2>1. IsFiniteSet(reply.q)
      BY ReplyIsDrilled
    <2> QED
      BY <2>1, EveryDrill, DrillDownNarrows
  <1> QED
    BY <1>1, IndexInvariant, PTL

\* A cluster with all tokens of a text is found, whatever else the index holds.
THEOREM WholeMatchFoundHolds == Spec => []WholeMatchFound
  <1>1. IndexInv => WholeMatchFound
    <2> SUFFICES ASSUME IndexInv, Replied, reply.q # {},
                        Cardinality({c \in DOMAIN idx.b3 : reply.q \subseteq idx.b3[c]}) <= TopClusters,
                        NEW c3 \in DOMAIN idx.l3, NEW c2 \in idx.l3[c3] \cap DOMAIN idx.l2,
                        NEW c1 \in idx.l2[c2] \cap DOMAIN idx.l1,
                        NEW c0 \in idx.l1[c1] \cap DOMAIN idx.b0, reply.q \subseteq idx.b0[c0]
                 PROVE  c0 \in DOMAIN reply.levels.c0
      BY Zenon DEF WholeMatchFound
    <2> DEFINE q == reply.q
    <2>1. T2 \in 1..100 /\ T1 \in 1..100 /\ T0 \in 1..100
      BY ThresholdAssumption
    <2>2. /\ IsIndex(idx) /\ IsFiniteSet(q)
          /\ Narrowed(reply.levels.c3, idx.l3, idx.b2, q)
          /\ Narrowed(reply.levels.c2, idx.l2, idx.b1, q)
          /\ Narrowed(reply.levels.c1, idx.l1, idx.b0, q)
          /\ reply.levels.c2 = DrillDown(reply.levels.c3, idx.l3, idx.b2, T2)
          /\ reply.levels.c1 = DrillDown(reply.levels.c2, idx.l2, idx.b1, T1)
          /\ reply.levels.c0 = DrillDown(reply.levels.c1, idx.l1, idx.b0, T0)
      BY ReplyIsDrilled
    <2>3. c1 \in DOMAIN idx.b1 /\ q \subseteq idx.b1[c1]
      BY <2>2, WholeAbove DEF IsIndex
    <2>4. c2 \in DOMAIN idx.b2 /\ q \subseteq idx.b2[c2]
      BY <2>2, <2>3, WholeAbove DEF IsIndex
    <2>5. c3 \in DOMAIN idx.b3 /\ q \subseteq idx.b3[c3]
      BY <2>2, <2>4, WholeAbove DEF IsIndex
    <2>6. c3 \in DOMAIN reply.levels.c3
      <3>1. PICK top \in TopOverlaps(q, idx.b3) : reply.levels.c3 = Narrow(q, top, idx.b3)
        BY ReplyIsDrilled
      <3>2. IsFiniteSet(DOMAIN idx.b3)
        <4>1. DOMAIN idx.b3 \in SUBSET Cluster
          BY <2>2 DEF IsIndex, IsMembers, IsRows, UpperBitmaps
        <4> QED
          BY <4>1, FiniteAssumption, FS_Subset
      <3>3. c3 \in top
        <4>1. q # {} /\ Cardinality({c \in DOMAIN idx.b3 : q \subseteq idx.b3[c]}) <= TopClusters
          OBVIOUS
        <4> HIDE DEF q
        <4> QED
          BY <2>2, <2>5, <3>1, <3>2, <4>1, WholeAreTop
      <3> QED
        BY <3>1, <3>3 DEF Narrow
    <2>7. c2 \in DOMAIN reply.levels.c2
      BY <2>1, <2>2, <2>4, <2>6, DrillDownKeepsWhole
    <2>8. c1 \in DOMAIN reply.levels.c1
      BY <2>1, <2>2, <2>3, <2>7, DrillDownKeepsWhole
    <2> QED
      BY <2>1, <2>2, <2>8, DrillDownKeepsWhole
  <1> QED
    BY <1>1, IndexInvariant, PTL

\* The bitmaps of a level are sets of tokens if those below are.
LEMMA UpperBitmapsType ==
    ASSUME NEW members, IsMembers(members), NEW bits, IsRows(bits, Cluster, SUBSET Token)
    PROVE  IsRows(UpperBitmaps(members, bits), Cluster, SUBSET Token)
  BY DEF IsMembers, IsRows, UpperBitmaps

\* Type correctness: what Build mixes is still tables, what is loaded has bitmaps of
\* tokens, and the keys of a text are clusters of the index that gave them.
THEOREM EmbeddingTypeCorrect == Spec => []TypeOK
  <1>1. IndexInv => TypeOK
    <2> SUFFICES ASSUME IndexInv PROVE TypeOK
      OBVIOUS
    <2>1. ASSUME idx # NoIndex PROVE IsRows(idx.b3, Cluster, SUBSET Token)
      <3>1. IsIndex(idx)
        BY <2>1 DEF IndexInv
      <3> QED
        BY <3>1, UpperBitmapsType DEF IsIndex
    <2>2. ASSUME Replied
          PROVE  /\ idx # NoIndex /\ reply.q \subseteq Token
                 /\ DOMAIN reply.levels.c0 \subseteq DOMAIN idx.l0
      <3>1. /\ IsIndex(idx)
            /\ reply.levels.c0 = DrillDown(reply.levels.c1, idx.l1, idx.b0, T0)
        BY <2>2, ReplyIsDrilled
      <3>2. DOMAIN reply.levels.c0 \subseteq DOMAIN idx.b0
        BY <3>1 DEF DrillDown
      <3> QED
        BY <2>2, <3>1, <3>2 DEF IsIndex, IndexInv, Answered
    <2> QED
      BY <2>1, <2>2 DEF IndexInv, TypeOK
  <1> QED
    BY <1>1, IndexInvariant, PTL

-----------------------------------------------------------------------------
(* What texts are read as *)

\* A reply holds the two scans of its text, over the vocabulary of the index in use
\* and over the names known.
ScannedBoth ==
    Replied =>
        /\ reply.text \in Texts
        /\ reply.q = {idx.words[p] : p \in Hits(reply.text, DOMAIN idx.words)}
        /\ reply.oov = Unknown(reply.text, DOMAIN idx.words)
        /\ reply.names = Hits(reply.text, Phrases(registry))

\* Texts are not empty.
LEMMA TextsAreSequences ==
    ASSUME NEW text \in Texts
    PROVE  text \in Seq(Word) /\ text # << >>
  <1>1. PICK n \in 1..MaxText : text \in [1..n -> Word]
    BY DEF Texts
  <1>2. n \in Nat /\ n >= 1
    BY <1>1, TextAssumption
  <1>3. text \in Seq(Word) /\ Len(text) = n
    BY <1>1, <1>2
  <1> QED
    BY <1>2, <1>3, EmptySeq

\* What was read stays so until the process learns a name or ends, for only then
\* are the names or the index others.
LEMMA NextScannedBoth == IndexInv /\ ScannedBoth /\ [Next]_vars => ScannedBoth'
  <1> SUFFICES ASSUME IndexInv, ScannedBoth, [Next]_vars PROVE ScannedBoth'
    OBVIOUS
  <1>1. CASE Load
    <2>1. ~Replied
      BY <1>1 DEF Load, IndexInv, Answered
    <2> QED
      BY <1>1, <2>1 DEF Load, ScannedBoth, Replied
  <1>2. CASE Exit \/ \E name \in Names : AddToken(name)
    BY <1>2 DEF Exit, AddToken, ScannedBoth, Replied
  <1>3. ASSUME NEW text \in Texts, Query(text) PROVE ScannedBoth'
    <2> DEFINE q == {idx.words[p] : p \in Hits(text, DOMAIN idx.words)}
    <2>1. PICK top \in TopOverlaps(q, idx.b3) :
              reply' = [text |-> text, q |-> q, oov |-> Unknown(text, DOMAIN idx.words),
                        levels |-> Levels(idx, q, top),
                        tokens |-> TokensOf(idx, DOMAIN Levels(idx, q, top).c0),
                        names |-> Hits(text, Phrases(registry))]
      BY <1>3, Zenon DEF Query
    <2>2. idx' = idx /\ registry' = registry
      BY <1>3 DEF Query
    <2>3. /\ reply'.text = text /\ reply'.q = q /\ reply'.oov = Unknown(text, DOMAIN idx.words)
          /\ reply'.names = Hits(text, Phrases(registry))
      <3> HIDE DEF q
      <3> QED
        BY <2>1
    <2> QED
      BY <2>2, <2>3, Zenon DEF ScannedBoth
  <1>4. CASE Recluster \/ StartBuild \/ ReadTable \/ CreateFile \/ EncodeFile \/ AbortBuild
             \/ UNCHANGED vars
    <2>1. idx' = idx /\ registry' = registry /\ reply' = reply
      BY <1>4 DEF Recluster, StartBuild, ReadTable, CreateFile, EncodeFile, AbortBuild, vars
    <2> QED
      BY <2>1, Zenon DEF ScannedBoth, Replied
  <1> QED
    BY <1>1, <1>2, <1>3, <1>4 DEF Next

\* A reply always holds the two scans.
LEMMA ScannedBothInvariant == Spec => []ScannedBoth
  <1>1. Init => ScannedBoth
    BY DEF Init, ScannedBoth, Replied
  <1> QED
    BY <1>1, NextScannedBoth, IndexInvariant, PTL DEF Spec

\* Tokenize and Match read every text as a cut of it into known phrases none of which
\* could be longer and words at which none starts, for any vocabulary, any names and
\* texts of any length.
THEOREM LongestPhraseWinsHolds == Spec => []LongestPhraseWins
  <1>1. ScannedBoth => LongestPhraseWins
    <2> SUFFICES ASSUME ScannedBoth, Replied PROVE LongestPhraseWins
      BY DEF LongestPhraseWins
    <2>1. reply.text \in Seq(Word)
      BY TextsAreSequences DEF ScannedBoth
    <2>2. /\ Hits(reply.text, DOMAIN idx.words) \in SUBSET DOMAIN idx.words
          /\ ReadAs(reply.text, DOMAIN idx.words, Hits(reply.text, DOMAIN idx.words), reply.oov)
          /\ reply.q = {idx.words[p] : p \in Hits(reply.text, DOMAIN idx.words)}
      BY <2>1, ScanReads DEF ScannedBoth, Hits
    <2>3. /\ Unknown(reply.text, Phrases(registry)) \subseteq
                 {PieceOf(reply.text, p) : p \in Intervals(reply.text)}
          /\ ReadAs(reply.text, Phrases(registry), reply.names,
                     Unknown(reply.text, Phrases(registry)))
      BY <2>1, ScanReads DEF ScannedBoth
    <2> QED
      BY <2>2, <2>3 DEF LongestPhraseWins
  <1> QED
    BY <1>1, ScannedBothInvariant, PTL

\* A text that is a learned name is matched as that name and nothing else, whatever
\* other names are part of it or go beyond it, if the name was written with one space
\* between its words; written otherwise it is not matched, for no phrase is looked up
\* that is spelled like it.
THEOREM LearnedNameIsHitHolds == Spec => []LearnedNameIsHit
  <1>1. ScannedBoth => LearnedNameIsHit
    <2> SUFFICES ASSUME ScannedBoth, Replied, reply.text \in {n.words : n \in registry}
                 PROVE  IF WrittenAs(reply.text) \in registry
                        THEN reply.names = {reply.text}
                        ELSE reply.text \notin reply.names
      BY DEF LearnedNameIsHit
    <2>1. reply.text \in Seq(Word) /\ reply.text # << >>
      BY TextsAreSequences DEF ScannedBoth
    <2>2. reply.names = Hits(reply.text, Phrases(registry))
      BY DEF ScannedBoth
    <2>3. CASE WrittenAs(reply.text) \in registry
      <3>1. reply.text \in Phrases(registry)
        BY <2>3 DEF Phrases
      <3> QED
        BY <2>1, <2>2, <2>3, <3>1, KnownTextIsOnePiece
    <2>4. CASE WrittenAs(reply.text) \notin registry
      <3>1. reply.text \notin Phrases(registry)
        BY <2>4 DEF Phrases
      <3> QED
        BY <2>2, <2>4, <3>1 DEF Hits
    <2> QED
      BY <2>3, <2>4
  <1> QED
    BY <1>1, ScannedBothInvariant, PTL
===============================================================================
