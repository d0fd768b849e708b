------------------------------ MODULE PhraseScan ------------------------------
(***************************************************************************)
(* The scan both readers of a text share, tokenize of semcom_embed over    *)
(* the vocabulary and Matcher.Match of semcom_personal over the registry:  *)
(* from left to right, at each word the longest known phrase that starts   *)
(* there, else the word by itself as unknown.                              *)
(*                                                                         *)
(* A text is the sequence of its words, letter case folded and separators  *)
(* dropped, as SplitWords and ToLower leave it.                            *)
(***************************************************************************)
EXTENDS Naturals, Sequences

\* Where the known phrases end that start at word i.
Ends(text, phrases, i) == {e \in i..Len(text) : SubSeq(text, i, e) \in phrases}

\* Mutant of Longest: the window grows instead of shrinking.
Shortest(E) == CHOOSE e \in E : \A f \in E : e <= f

Longest(E) == CHOOSE e \in E : \A f \in E : f <= e

\* Mutant of Scan: the scan goes on inside the phrase it has matched.
ScanEveryWord(text, phrases) ==
    [i \in 1..Len(text) |->
        LET E == Ends(text, phrases, i) IN <<i, IF E = {} THEN i ELSE Longest(E)>>]

\* The pieces, as <<first word, last word>>.
Scan(text, phrases) ==
    LET from[i \in 1..Len(text) + 1] ==
            IF i > Len(text) THEN << >>
            ELSE LET E == Ends(text, phrases, i)
                     end == IF E = {} THEN i ELSE Longest(E)
                 IN <<<<i, end>>>> \o from[end + 1]
    IN from[1]

PieceOf(text, p) == SubSeq(text, p[1], p[2])

Pieces(text, phrases) ==
    LET scan == Scan(text, phrases) IN {PieceOf(text, scan[i]) : i \in DOMAIN scan}

\* The known phrases among the pieces, and the unknown words.
Hits(text, phrases) == Pieces(text, phrases) \cap phrases
Unknown(text, phrases) == Pieces(text, phrases) \ phrases

-----------------------------------------------------------------------------
(* What the scan has to find, without saying how *)

Intervals(text) == {p \in (1..Len(text)) \X (1..Len(text)) : p[1] <= p[2]}

\* P cuts the text into pieces, every one a known phrase that no known phrase
\* from the same word outgrows, or a word at which no known phrase starts.
Cut(text, phrases, P) ==
    /\ \A i \in 1..Len(text) : \E p \in P : i \in p[1]..p[2]
    /\ \A p, r \in P : p # r => p[2] < r[1] \/ r[2] < p[1]
    /\ \A p \in P :
        LET E == Ends(text, phrases, p[1])
        IN IF E = {} THEN p[1] = p[2] ELSE p[2] \in E /\ \A e \in E : e <= p[2]

\* A reading of the text: the known phrases and the unknown words of some cut.
ReadAs(text, phrases, known, unknown) ==
    \E P \in SUBSET Intervals(text) :
        /\ Cut(text, phrases, P)
        /\ LET pieces == {PieceOf(text, p) : p \in P}
           IN known = pieces \cap phrases /\ unknown = pieces \ phrases
==============================================================================
