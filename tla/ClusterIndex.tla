----------------------------- MODULE ClusterIndex -----------------------------
(***************************************************************************)
(* The cluster index of semcom_embed as functions: the bitmaps builder.go  *)
(* computes from the database tables, and the drill-down of Index.Query    *)
(* from the five best clusters of level 3 to the clusters of level 0 that  *)
(* become the keys of a text.  A bitmap is the set of its tokens.          *)
(***************************************************************************)
EXTENDS Naturals, FiniteSets

CONSTANTS
    TopClusters,    \* 5
    T2, T1, T0      \* Thresholds of the service, in percent: 25, 20, 15

\* The thresholds of the service; the command line may also give 0.
ASSUME ThresholdAssumption == TopClusters \in Nat \ {0} /\ {T2, T1, T0} \subseteq 1..100

-----------------------------------------------------------------------------
(* builder.go *)

\* Mutant of UpperBitmaps: the bitmap is that of one child, not of all.
LastChildBitmaps(members, child) ==
    [c \in DOMAIN members |->
        LET known == members[c] \cap DOMAIN child
        IN IF known = {} THEN {} ELSE child[CHOOSE d \in known : TRUE]]

\* Mutant of UpperBitmaps: the members are added, not their tokens.
MemberBitmaps(members, child) == [c \in DOMAIN members |-> members[c] \cap DOMAIN child]

\* buildUpperBitmaps: a member without a row is passed over.
UpperBitmaps(members, child) ==
    [c \in DOMAIN members |-> UNION {child[d] : d \in members[c] \cap DOMAIN child}]

\* Build, from what it has read: l0 maps clusters to tokens, l1, l2 and l3 map
\* them to their members one level below.
Compile(t) ==
    LET b1 == UpperBitmaps(t.l1, t.l0)
        b2 == UpperBitmaps(t.l2, b1)
    IN [words |-> t.words, l0 |-> t.l0, l1 |-> t.l1, l2 |-> t.l2, l3 |-> t.l3,
        b0 |-> t.l0, b1 |-> b1, b2 |-> b2, b3 |-> UpperBitmaps(t.l3, b2)]

-----------------------------------------------------------------------------
(* index.go.  The candidates of a level are a function from the clusters that *)
(* passed to the narrowed query each carries.                                 *)

Overlap(q, bits) == Cardinality(q \cap bits)

\* topNByOverlap: clusters with the same overlap come in the order of a map
\* iteration, so any choice among those at the cut-off may be made.
TopOverlaps(q, bits) ==
    LET scored == {c \in DOMAIN bits : q \cap bits[c] # {}}
    IN {S \in SUBSET scored :
            /\ S = scored \/ Cardinality(S) = TopClusters
            /\ Cardinality(S) <= TopClusters
            /\ \A c \in S, d \in scored \ S : Overlap(q, bits[d]) <= Overlap(q, bits[c])}

Narrow(q, S, bits) == [c \in S |-> q \cap bits[c]]

ParentsOf(c, parents, members) == {p \in DOMAIN parents \cap DOMAIN members : c \in members[p]}

\* The union of the queries of all parents that reach a cluster.
Pooled(c, parents, members) == UNION {parents[p] : p \in ParentsOf(c, parents, members)}

\* Mutant of Enough: the union of query and cluster is counted, not what they share.
EnoughByUnion(q, bits, threshold) ==
    /\ q # {}
    /\ threshold * Cardinality(q) <= 100 * Cardinality(q \cup bits)

Enough(q, bits, threshold) ==
    /\ q # {}
    /\ threshold * Cardinality(q) <= 100 * Overlap(q, bits)

Reached(parents, members) == UNION {members[p] : p \in DOMAIN parents \cap DOMAIN members}

\* Mutant of DrillDown: a child passes when it does for one of its parents.
DrillDownBestParent(parents, members, bits, threshold) ==
    [c \in {d \in Reached(parents, members) \cap DOMAIN bits :
                \E p \in ParentsOf(d, parents, members) : Enough(parents[p], bits[d], threshold)}
        |-> Pooled(c, parents, members) \cap bits[c]]

\* Mutant of DrillDown: the query is handed down as it came.
DrillDownUnnarrowed(parents, members, bits, threshold) ==
    [c \in {d \in Reached(parents, members) \cap DOMAIN bits :
                Enough(Pooled(d, parents, members), bits[d], threshold)}
        |-> Pooled(c, parents, members)]

\* A member without a bitmap is passed over.
DrillDown(parents, members, bits, threshold) ==
    [c \in {d \in Reached(parents, members) \cap DOMAIN bits :
                Enough(Pooled(d, parents, members), bits[d], threshold)}
        |-> Pooled(c, parents, members) \cap bits[c]]

\* The candidates of each level, l3 being the top ones chosen.
Levels(idx, q, top) ==
    LET c3 == Narrow(q, top, idx.b3)
        c2 == DrillDown(c3, idx.l3, idx.b2, T2)
        c1 == DrillDown(c2, idx.l2, idx.b1, T1)
        c0 == DrillDown(c1, idx.l1, idx.b0, T0)
    IN [c3 |-> c3, c2 |-> c2, c1 |-> c1, c0 |-> c0]

TokensOf(idx, ids) == UNION {idx.l0[c] : c \in ids}
==============================================================================
