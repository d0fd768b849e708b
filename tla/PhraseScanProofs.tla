--------------------------- MODULE PhraseScanProofs ---------------------------
(***************************************************************************)
(* What the scan of a text finds, for every text and every set of known    *)
(* phrases.  The induction over the words still to be read is on a set of  *)
(* positions that has its last member and, with all later ones, each       *)
(* earlier one.                                                            *)
(***************************************************************************)
EXTENDS PhraseScan, Integers, SequenceTheorems, WellFoundedInduction, NaturalsInduction, TLAPS

-----------------------------------------------------------------------------
(* Counting down *)

\* A set of natural numbers has a least one.
LEMMA LeastNumber ==
    ASSUME NEW T \in SUBSET Nat, T # {}
    PROVE  \E x \in T : \A y \in T : x <= y
  <1>1. PICK x \in T : \A y \in T : ~(<<y, x>> \in OpToRel(<, Nat))
    BY NatLessThanWellFounded, WFMin
  <1>2. \A y \in T : ~(y < x)
    BY <1>1 DEF OpToRel
  <1> QED
    BY <1>2

\* A set of positions that has each one with all later ones has all.
LEMMA CountDown ==
    ASSUME NEW n \in Nat, NEW T,
           \A k \in 1..n : (\A j \in k + 1..n : j \in T) => k \in T
    PROVE  \A k \in 1..n : k \in T
  <1> SUFFICES ASSUME NEW k0 \in 1..n, k0 \notin T PROVE FALSE
    OBVIOUS
  <1> DEFINE left == {d \in 0..n : \E k \in 1..n : k \notin T /\ d = n - k}
  <1>1. left \in SUBSET Nat /\ n - k0 \in left
    OBVIOUS
  <1> HIDE DEF left
  <1>2. PICK d \in left : \A y \in left : d <= y
    BY <1>1, LeastNumber
  <1>3. PICK k \in 1..n : k \notin T /\ d = n - k
    BY <1>2 DEF left
  <1>4. ASSUME NEW j \in k + 1..n PROVE j \in T
    <2> SUFFICES ASSUME j \notin T PROVE FALSE
      OBVIOUS
    <2>1. n - j \in left
      BY <1>3 DEF left
    <2> QED
      BY <1>2, <1>3, <2>1
  <1> QED
    BY <1>3, <1>4

\* Some positions of a text have a last one.
LEMMA LastOfSome ==
    ASSUME NEW n \in Nat, NEW i \in 1..n, NEW E \in SUBSET (i..n), E # {}
    PROVE  Longest(E) \in E /\ \A f \in E : f <= Longest(E)
  <1> DEFINE left == {d \in 0..n : \E e \in E : d = n - e}
  <1>1. left \in SUBSET Nat /\ left # {}
    <2>1. PICK e \in E : TRUE
      OBVIOUS
    <2>2. e \in i..n /\ n - e \in 0..n
      OBVIOUS
    <2>3. n - e \in left
      BY <2>2
    <2>4. left \in SUBSET Nat
      OBVIOUS
    <2> HIDE DEF left
    <2> QED
      BY <2>3, <2>4
  <1>2. PICK d \in left : \A y \in left : d <= y
    <2> HIDE DEF left
    <2> QED
      BY <1>1, LeastNumber
  <1>3. PICK e \in E : d = n - e
    OBVIOUS
  <1>4. \A f \in E : f <= e
    <2> TAKE f \in E
    <2>1. n - f \in left
      OBVIOUS
    <2> QED
      BY <1>2, <1>3, <2>1
  <1>5. \E l \in E : \A f \in E : f <= l
    BY <1>4
  <1> QED
    BY <1>5 DEF Longest

-----------------------------------------------------------------------------
(* The scan, word by word *)

\* Where the piece ends that starts at word i.
EndOf(text, phrases, i) ==
    LET E == Ends(text, phrases, i) IN IF E = {} THEN i ELSE Longest(E)

\* What follows from word i on, given what follows from each later word.
Onwards(text, phrases, from, i) ==
    IF i > Len(text) THEN << >>
    ELSE <<<<i, EndOf(text, phrases, i)>>>> \o from[EndOf(text, phrases, i) + 1]

\* A piece ends in the text, and not before it starts.
LEMMA PieceEndsInText ==
    ASSUME NEW W, NEW text \in Seq(W), NEW phrases, NEW i \in 1..Len(text)
    PROVE  /\ EndOf(text, phrases, i) \in i..Len(text)
           /\ LET E == Ends(text, phrases, i)
              IN IF E = {} THEN EndOf(text, phrases, i) = i
                 ELSE /\ EndOf(text, phrases, i) \in E
                      /\ \A e \in E : e <= EndOf(text, phrases, i)
  <1>1. Ends(text, phrases, i) \in SUBSET (i..Len(text)) /\ Len(text) \in Nat
    BY DEF Ends
  <1>2. CASE Ends(text, phrases, i) = {}
    BY <1>2 DEF EndOf
  <1>3. CASE Ends(text, phrases, i) # {}
    BY <1>1, <1>3, LastOfSome DEF EndOf
  <1> QED
    BY <1>2, <1>3

\* The recursion of the scan has a solution on the positions from k on.
LEMMA ScanFrom ==
    ASSUME NEW W, NEW text \in Seq(W), NEW phrases, NEW k \in 1..Len(text) + 1
    PROVE  \E from : from = [i \in k..Len(text) + 1 |-> Onwards(text, phrases, from, i)]
  <1> DEFINE n == Len(text) + 1
             T == {j \in 1..n : \E from : from = [i \in j..n |-> Onwards(text, phrases, from, i)]}
  <1>1. n \in Nat
    OBVIOUS
  <1>2. ASSUME NEW j \in 1..n, \A l \in j + 1..n : l \in T
        PROVE  j \in T
    <2>1. CASE j = n
      <3> DEFINE f == [i \in j..n |-> << >>]
      <3>1. f = [i \in j..n |-> Onwards(text, phrases, f, i)]
        BY <2>1 DEF Onwards
      <3> QED
        BY <3>1
    <2>2. CASE j # n
      <3>1. PICK from : from = [i \in j + 1..n |-> Onwards(text, phrases, from, i)]
        BY <1>2, <2>2
      <3> DEFINE f == [i \in j..n |-> IF i = j THEN Onwards(text, phrases, from, j) ELSE from[i]]
      <3>2. ASSUME NEW i \in j..n PROVE f[i] = Onwards(text, phrases, f, i)
        <4>1. CASE i = n
          BY <2>2, <3>1, <4>1 DEF Onwards
        <4>2. CASE i # n
          <5>1. EndOf(text, phrases, i) + 1 \in j + 1..n
            BY <4>2, PieceEndsInText
          <5>2. f[EndOf(text, phrases, i) + 1] = from[EndOf(text, phrases, i) + 1]
            BY <5>1
          <5>3. Onwards(text, phrases, f, i) = Onwards(text, phrases, from, i)
            <6> HIDE DEF f
            <6> QED
              BY <5>2 DEF Onwards
          <5> QED
            BY <3>1, <5>3
        <4> QED
          BY <4>1, <4>2
      <3>3. f = [i \in j..n |-> Onwards(text, phrases, f, i)]
        BY <3>2
      <3> HIDE DEF f
      <3> QED
        BY <3>3
    <2> QED
      BY <2>1, <2>2
  <1>3. \A j \in 1..n : j \in T
    <2> HIDE DEF T, n
    <2> QED
      BY <1>1, <1>2, CountDown
  <1> QED
    BY <1>3

\* A solution on all positions.
IsScan(text, phrases, from) ==
    from = [i \in 1..Len(text) + 1 |-> Onwards(text, phrases, from, i)]

\* Scan is such a solution, read from the first word.
LEMMA ScanUnfolds ==
    ASSUME NEW W, NEW text \in Seq(W), NEW phrases
    PROVE  \E from : /\ IsScan(text, phrases, from)
                     /\ Scan(text, phrases) = from[1]
  <1> DEFINE from == CHOOSE f : f = [i \in 1..Len(text) + 1 |-> Onwards(text, phrases, f, i)]
  <1>1. IsScan(text, phrases, from)
    <2>1. 1 \in 1..Len(text) + 1
      OBVIOUS
    <2>2. \E f : f = [i \in 1..Len(text) + 1 |-> Onwards(text, phrases, f, i)]
      BY <2>1, ScanFrom
    <2> QED
      BY <2>2 DEF IsScan
  <1>2. Scan(text, phrases) = from[1]
    BY DEF Scan, Onwards, EndOf
  <1> QED
    BY <1>1, <1>2

-----------------------------------------------------------------------------
(* What it finds *)

\* P cuts the text from word k on into the pieces a cut has (see Cut).
CutFrom(text, phrases, k, P) ==
    /\ P \subseteq Intervals(text)
    /\ \A p \in P : k <= p[1]
    /\ \A i \in k..Len(text) : \E p \in P : i \in p[1]..p[2]
    /\ \A p, r \in P : p # r => p[2] < r[1] \/ r[2] < p[1]
    /\ \A p \in P :
        LET E == Ends(text, phrases, p[1])
        IN IF E = {} THEN p[1] = p[2] ELSE p[2] \in E /\ \A e \in E : e <= p[2]

\* A cut of what follows a piece, and the piece, are a cut from the piece on.
LEMMA CutGrows ==
    ASSUME NEW W, NEW text \in Seq(W), NEW phrases, NEW k \in 1..Len(text), NEW P,
           CutFrom(text, phrases, EndOf(text, phrases, k) + 1, P)
    PROVE  CutFrom(text, phrases, k, {<<k, EndOf(text, phrases, k)>>} \cup P)
  <1> DEFINE e == EndOf(text, phrases, k)
             Q == {<<k, e>>} \cup P
  <1>1. e \in k..Len(text) /\ Len(text) \in Nat
    BY PieceEndsInText
  <1>2. LET E == Ends(text, phrases, k)
        IN IF E = {} THEN k = e ELSE e \in E /\ \A f \in E : f <= e
    BY PieceEndsInText
  <1>3. CutFrom(text, phrases, e + 1, P)
    OBVIOUS
  <1> HIDE DEF e
  <1>4. Q \subseteq Intervals(text)
    BY <1>1, <1>3 DEF CutFrom, Intervals
  <1>5. \A p \in Q : p[1] \in Nat /\ p[2] \in Nat /\ k <= p[1]
    BY <1>1, <1>3 DEF CutFrom, Intervals
  <1>6. ASSUME NEW i \in k..Len(text) PROVE \E p \in Q : i \in p[1]..p[2]
    <2>1. CASE i <= e
      <3>1. <<k, e>> \in Q /\ i \in <<k, e>>[1]..<<k, e>>[2]
        BY <1>1, <2>1
      <3> QED
        BY <3>1
    <2>2. CASE i > e
      BY <1>1, <1>3, <2>2 DEF CutFrom
    <2> QED
      BY <1>1, <2>1, <2>2
  <1>7. ASSUME NEW p \in Q, NEW r \in Q, p # r PROVE p[2] < r[1] \/ r[2] < p[1]
    <2>1. \A s \in P : e < s[1]
      BY <1>1, <1>3, <1>5 DEF CutFrom
    <2>2. CASE p = <<k, e>> /\ r \in P
      BY <2>1, <2>2
    <2>3. CASE r = <<k, e>> /\ p \in P
      BY <2>1, <2>3
    <2>4. CASE p \in P /\ r \in P
      BY <1>3, <1>7, <2>4 DEF CutFrom
    <2> QED
      BY <1>7, <2>2, <2>3, <2>4
  <1>8. ASSUME NEW p \in Q
        PROVE  LET E == Ends(text, phrases, p[1])
               IN IF E = {} THEN p[1] = p[2] ELSE p[2] \in E /\ \A f \in E : f <= p[2]
    <2>1. CASE p = <<k, e>>
      BY <1>2, <2>1
    <2>2. CASE p \in P
      BY <1>3, <2>2 DEF CutFrom
    <2> QED
      BY <2>1, <2>2
  <1>9. CutFrom(text, phrases, k, Q)
    <2> HIDE DEF Q
    <2> QED
      BY <1>4, <1>5, <1>6, <1>7, <1>8 DEF CutFrom
  <1> QED
    BY <1>9 DEF e

\* The members of a sequence.
Members(s) == {s[i] : i \in DOMAIN s}

\* Something put before a sequence.
LEMMA PutBefore ==
    ASSUME NEW S, NEW x \in S, NEW s \in Seq(S)
    PROVE  <<x>> \o s \in Seq(S) /\ Members(<<x>> \o s) = {x} \cup Members(s)
  <1>1. /\ <<x>> \in Seq(S) /\ Len(<<x>>) = 1 /\ <<x>>[1] = x
    OBVIOUS
  <1> DEFINE t == <<x>> \o s
  <1>2. /\ t \in Seq(S)
        /\ Len(t) = 1 + Len(s)
        /\ \A i \in 1..1 + Len(s) : t[i] = IF i <= 1 THEN x ELSE s[i - 1]
    BY <1>1, ConcatProperties
  <1> HIDE DEF t
  <1>3. DOMAIN t = 1..1 + Len(s) /\ DOMAIN s = 1..Len(s) /\ Len(s) \in Nat
    BY <1>2
  <1>4. ASSUME NEW i \in DOMAIN t PROVE t[i] \in {x} \cup Members(s)
    <2>1. CASE i = 1
      BY <1>2, <1>3, <2>1
    <2>2. CASE i # 1
      <3>1. t[i] = s[i - 1] /\ i - 1 \in DOMAIN s
        BY <1>2, <1>3, <2>2
      <3> QED
        BY <3>1 DEF Members
    <2> QED
      BY <2>1, <2>2
  <1>5. x \in Members(t)
    <2>1. 1 \in DOMAIN t /\ t[1] = x
      BY <1>2, <1>3
    <2> QED
      BY <2>1 DEF Members
  <1>6. ASSUME NEW i \in DOMAIN s PROVE s[i] \in Members(t)
    <2>1. i + 1 \in DOMAIN t /\ t[i + 1] = s[i]
      BY <1>2, <1>3
    <2> QED
      BY <2>1 DEF Members
  <1>7. Members(t) = {x} \cup Members(s)
    BY <1>4, <1>5, <1>6 DEF Members
  <1> QED
    BY <1>2, <1>7 DEF t

\* After the last word there is nothing more, before it a piece and what follows it.
LEMMA ScanUnfoldsAt ==
    ASSUME NEW W, NEW text \in Seq(W), NEW phrases, NEW from,
           IsScan(text, phrases, from)
    PROVE  /\ from[Len(text) + 1] = << >>
           /\ \A k \in 1..Len(text) :
                  from[k] = <<<<k, EndOf(text, phrases, k)>>>> \o from[EndOf(text, phrases, k) + 1]
  <1>1. \A k \in 1..Len(text) + 1 : from[k] = Onwards(text, phrases, from, k)
    BY DEF IsScan
  <1>2. Len(text) \in Nat
    OBVIOUS
  <1>3. from[Len(text) + 1] = << >>
    <2>1. Len(text) + 1 \in 1..Len(text) + 1 /\ Len(text) + 1 > Len(text)
      BY <1>2
    <2> QED
      BY <1>1, <2>1, Zenon DEF Onwards
  <1>4. ASSUME NEW k \in 1..Len(text)
        PROVE  from[k] = <<<<k, EndOf(text, phrases, k)>>>> \o from[EndOf(text, phrases, k) + 1]
    <2>1. k \in 1..Len(text) + 1 /\ ~(k > Len(text))
      BY <1>2
    <2> QED
      BY <1>1, <2>1, Zenon DEF Onwards
  <1> QED
    BY <1>3, <1>4

\* What the scan has from a word on is a cut from there.
LEMMA ScanCutsFrom ==
    ASSUME NEW W, NEW text \in Seq(W), NEW phrases, NEW from,
           IsScan(text, phrases, from),
           NEW k \in 1..Len(text) + 1
    PROVE  /\ from[k] \in Seq(Intervals(text))
           /\ CutFrom(text, phrases, k, Members(from[k]))
  <1> DEFINE n == Len(text) + 1
             T == {j \in 1..n : /\ from[j] \in Seq(Intervals(text))
                                /\ CutFrom(text, phrases, j, Members(from[j]))}
  <1>1. n \in Nat /\ Len(text) \in Nat
    OBVIOUS
  <1>2. ASSUME NEW j \in 1..n, \A l \in j + 1..n : l \in T
        PROVE  j \in T
    <2>2. CASE j = n
      <3>1. from[j] = << >>
        BY <2>2, ScanUnfoldsAt
      <3>2. Members(<< >>) = {}
        BY DEF Members
      <3>3. CutFrom(text, phrases, j, {})
        BY <2>2 DEF CutFrom
      <3>4. << >> \in Seq(Intervals(text))
        BY EmptySeq
      <3> QED
        BY <3>1, <3>2, <3>3, <3>4
    <2>3. CASE j # n
      <3> DEFINE e == EndOf(text, phrases, j)
      <3>1. j \in 1..Len(text) /\ e \in j..Len(text)
        BY <2>3, PieceEndsInText
      <3>2. from[j] = <<<<j, e>>>> \o from[e + 1]
        BY <3>1, ScanUnfoldsAt
      <3>3. e + 1 \in T
        <4>1. e + 1 \in j + 1..n
          BY <3>1
        <4> HIDE DEF T
        <4> QED
          BY <1>2, <4>1
      <3>4. CutFrom(text, phrases, j, {<<j, e>>} \cup Members(from[e + 1]))
        BY <3>1, <3>3, CutGrows
      <3>5. <<j, e>> \in Intervals(text)
        BY <3>1 DEF Intervals
      <3>6. /\ from[j] \in Seq(Intervals(text))
            /\ Members(from[j]) = {<<j, e>>} \cup Members(from[e + 1])
        <4>1. from[e + 1] \in Seq(Intervals(text))
          BY <3>3
        <4> HIDE DEF e
        <4> QED
          BY <3>2, <3>5, <4>1, PutBefore
      <3> QED
        BY <3>4, <3>6
    <2> QED
      BY <2>2, <2>3
  <1>3. \A j \in 1..n : j \in T
    <2> HIDE DEF T, n
    <2> QED
      BY <1>1, <1>2, CountDown
  <1> QED
    BY <1>3

\* The scan finds the pieces of a cut.
LEMMA ScanCuts ==
    ASSUME NEW W, NEW text \in Seq(W), NEW phrases
    PROVE  /\ Members(Scan(text, phrases)) \subseteq Intervals(text)
           /\ Cut(text, phrases, Members(Scan(text, phrases)))
           /\ Pieces(text, phrases) = {PieceOf(text, p) : p \in Members(Scan(text, phrases))}
  <1>1. 1 \in 1..Len(text) + 1
    OBVIOUS
  <1>2. CutFrom(text, phrases, 1, Members(Scan(text, phrases)))
    <2>1. PICK from : /\ IsScan(text, phrases, from)
                      /\ Scan(text, phrases) = from[1]
      BY ScanUnfolds
    <2>2. CutFrom(text, phrases, 1, Members(from[1]))
      BY <1>1, <2>1, ScanCutsFrom
    <2> QED
      BY <2>1, <2>2
  <1>3. Pieces(text, phrases) = {PieceOf(text, p) : p \in Members(Scan(text, phrases))}
    BY DEF Pieces, Members
  <1> QED
    BY <1>2, <1>3 DEF CutFrom, Cut

\* So the known phrases and the unknown words it finds are a reading of the text.
LEMMA ScanReads ==
    ASSUME NEW W, NEW text \in Seq(W), NEW phrases
    PROVE  /\ ReadAs(text, phrases, Hits(text, phrases), Unknown(text, phrases))
           /\ Unknown(text, phrases) \subseteq {PieceOf(text, p) : p \in Intervals(text)}
  BY ScanCuts DEF ReadAs, Hits, Unknown

\* A text that is a known phrase is one piece.
LEMMA KnownTextIsOnePiece ==
    ASSUME NEW W, NEW text \in Seq(W), NEW phrases, text # << >>, text \in phrases
    PROVE  Hits(text, phrases) = {text}
  <1>1. Len(text) \in Nat /\ Len(text) >= 1
    <2>1. Len(text) # 0
      BY EmptySeq
    <2> QED
      BY <2>1
  <1>2. PieceOf(text, <<1, Len(text)>>) = text
    BY SubSeqFull DEF PieceOf
  <1>3. Len(text) \in Ends(text, phrases, 1)
    <2>1. SubSeq(text, 1, Len(text)) \in phrases
      BY SubSeqFull
    <2>2. Len(text) \in 1..Len(text)
      BY <1>1
    <2> QED
      BY <2>1, <2>2, Zenon DEF Ends
  <1>4. EndOf(text, phrases, 1) = Len(text)
    <2>1. 1 \in 1..Len(text)
      BY <1>1
    <2>2. /\ EndOf(text, phrases, 1) \in 1..Len(text)
          /\ Len(text) <= EndOf(text, phrases, 1)
      BY <1>3, <2>1, PieceEndsInText
    <2> QED
      BY <1>1, <2>2
  <1>5. PICK from : /\ IsScan(text, phrases, from)
                    /\ Scan(text, phrases) = from[1]
    BY ScanUnfolds
  <1>6. from[1] = <<<<1, Len(text)>>>>
    <2>1. 1 \in 1..Len(text) /\ from[Len(text) + 1] = << >>
      BY <1>1, <1>5, ScanUnfoldsAt
    <2>2. from[1] = <<<<1, Len(text)>>>> \o << >>
      <3>1. \A k \in 1..Len(text) :
                from[k] = <<<<k, EndOf(text, phrases, k)>>>> \o from[EndOf(text, phrases, k) + 1]
        BY <1>5, ScanUnfoldsAt
      <3>2. from[1] = <<<<1, EndOf(text, phrases, 1)>>>> \o from[EndOf(text, phrases, 1) + 1]
        BY <2>1, <3>1
      <3> QED
        BY <1>4, <2>1, <3>2
    <2>3. <<<<1, Len(text)>>>> \in Seq(Nat \X Nat)
      BY <1>1
    <2> QED
      BY <2>2, <2>3, ConcatEmptySeq
  <1>7. Members(<<<<1, Len(text)>>>>) = {<<1, Len(text)>>}
    <2>1. DOMAIN <<<<1, Len(text)>>>> = {1} /\ <<<<1, Len(text)>>>>[1] = <<1, Len(text)>>
      OBVIOUS
    <2> QED
      BY <2>1, Zenon DEF Members
  <1>8. Members(Scan(text, phrases)) = {<<1, Len(text)>>}
    BY <1>5, <1>6, <1>7
  <1>9. Pieces(text, phrases) = {text}
    BY <1>2, <1>8, ScanCuts
  <1> QED
    BY <1>9 DEF Hits
===============================================================================
