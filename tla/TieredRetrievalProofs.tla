------------------------- MODULE TieredRetrievalProofs -------------------------
(***************************************************************************)
(* What tieredRetrieve promises, for any number of chats, sessions, rows,  *)
(* keys, tokens and limits.                                                *)
(***************************************************************************)
EXTENDS TieredRetrieval, SequenceTheorems, FiniteSetTheorems, TLAPS

-----------------------------------------------------------------------------
(* Sequences *)

Distinct(q) == \A i, j \in DOMAIN q : q[i] = q[j] => i = j

\* A sequence over S is one over any larger set, and its elements are in S.
LEMMA ElementsInSet ==
    ASSUME NEW S, NEW q \in Seq(S)
    PROVE  /\ Elements(q) \subseteq S
           /\ DOMAIN q = 1..Len(q)
           /\ \A T : S \subseteq T => q \in Seq(T)
  <1>1. \A i \in 1..Len(q) : q[i] \in S
    BY ElementOfSeq
  <1>2. DOMAIN q = 1..Len(q)
    BY LenProperties
  <1>3. \A T : S \subseteq T => q \in Seq(T)
    BY SeqMonotonic
  <1> QED
    BY <1>1, <1>2, <1>3 DEF Elements

\* A sort of a finite set cut after n elements is a sequence of at most n of them,
\* each once.
LEMMA LeadingProperties ==
    ASSUME NEW S, IsFiniteSet(S), NEW n \in Nat, NEW rank, NEW q \in Leading(S, n, rank)
    PROVE  q \in Seq(S) /\ Len(q) <= n /\ Distinct(q)
  <1> DEFINE size == IF Cardinality(S) < n THEN Cardinality(S) ELSE n
  <1>1. size \in Nat /\ size <= n
    BY FS_CardinalityType
  <1>2. q \in [1..size -> S] /\ \A i, j \in 1..size : i < j => q[i] # q[j]
    BY DEF Leading
  <1> HIDE DEF size
  <1>3. q \in Seq(S) /\ Len(q) = size /\ DOMAIN q = 1..size
    BY <1>1, <1>2
  <1>4. Distinct(q)
    <2> SUFFICES ASSUME NEW i \in 1..size, NEW j \in 1..size, q[i] = q[j]
                 PROVE  i = j
      BY <1>3 DEF Distinct
    <2>1. ~(i < j) /\ ~(j < i)
      BY <1>2
    <2> QED
      BY <1>1, <2>1
  <1> QED
    BY <1>1, <1>3, <1>4

\* The positions Fetch keeps are met in order, each once.
LEMMA RisingProperties ==
    ASSUME NEW S \in SUBSET Nat, IsFiniteSet(S), NEW at \in Rising(S)
    PROVE  /\ Cardinality(S) \in Nat
           /\ DOMAIN at = 1..Cardinality(S)
           /\ \A i \in DOMAIN at : at[i] \in S
           /\ Distinct(at)
  <1>1. Cardinality(S) \in Nat
    BY FS_CardinalityType
  <1>2. /\ DOMAIN at = 1..Cardinality(S)
        /\ \A i \in DOMAIN at : at[i] \in S
        /\ \A i, j \in DOMAIN at : i < j => at[i] < at[j]
    BY DEF Rising
  <1>3. Distinct(at)
    <2> SUFFICES ASSUME NEW i \in DOMAIN at, NEW j \in DOMAIN at, at[i] = at[j]
                 PROVE  i = j
      BY DEF Distinct
    <2>4. i \in Nat /\ j \in Nat
      BY <1>1, <1>2
    <2>5. at[i] \in S /\ at[j] \in S
      BY <1>2
    <2>1. at[i] \in Nat /\ at[j] \in Nat /\ i \in Nat /\ j \in Nat
      BY <2>4, <2>5
    <2>2. i < j => at[i] < at[j]
      BY <1>2
    <2>3. j < i => at[j] < at[i]
      BY <1>2
    <2> QED
      BY <2>1, <2>2, <2>3
  <1> QED
    BY <1>1, <1>2, <1>3

\* Two sequences without repetition and without a common element make one.
LEMMA ConcatDistinct ==
    ASSUME NEW S, NEW s \in Seq(S), NEW t \in Seq(S)
    PROVE  /\ s \o t \in Seq(S)
           /\ Elements(s \o t) = Elements(s) \cup Elements(t)
           /\ Distinct(s) /\ Distinct(t) /\ Elements(s) \cap Elements(t) = {}
                => Distinct(s \o t)
  <1>1. /\ s \o t \in Seq(S) /\ Len(s) \in Nat /\ Len(t) \in Nat
        /\ Len(s \o t) = Len(s) + Len(t)
        /\ \A i \in 1..Len(s) + Len(t) :
                (s \o t)[i] = IF i <= Len(s) THEN s[i] ELSE t[i - Len(s)]
    BY ConcatProperties, LenProperties
  <1>2. /\ DOMAIN s = 1..Len(s) /\ DOMAIN t = 1..Len(t)
        /\ DOMAIN (s \o t) = 1..Len(s) + Len(t)
    BY <1>1, LenProperties
  <1>3. ASSUME NEW i \in DOMAIN (s \o t)
        PROVE  \/ i \in DOMAIN s /\ (s \o t)[i] = s[i]
               \/ /\ i - Len(s) \in DOMAIN t /\ i > Len(s)
                  /\ (s \o t)[i] = t[i - Len(s)]
    BY <1>1, <1>2
  <1>4. Elements(s \o t) = Elements(s) \cup Elements(t)
    <2>1. Elements(s \o t) \subseteq Elements(s) \cup Elements(t)
      BY <1>3 DEF Elements
    <2>2. ASSUME NEW i \in DOMAIN s PROVE s[i] \in Elements(s \o t)
      BY <1>1, <1>2 DEF Elements
    <2>3. ASSUME NEW i \in DOMAIN t PROVE t[i] \in Elements(s \o t)
      <3>1. i + Len(s) \in DOMAIN (s \o t) /\ (s \o t)[i + Len(s)] = t[i]
        BY <1>1, <1>2
      <3> QED
        BY <3>1 DEF Elements
    <2> QED
      BY <2>1, <2>2, <2>3 DEF Elements
  <1>5. ASSUME Distinct(s), Distinct(t), Elements(s) \cap Elements(t) = {}
        PROVE  Distinct(s \o t)
    <2> SUFFICES ASSUME NEW i \in DOMAIN (s \o t), NEW j \in DOMAIN (s \o t),
                        (s \o t)[i] = (s \o t)[j]
                 PROVE  i = j
      BY DEF Distinct
    <2>1. ASSUME NEW k \in DOMAIN s, NEW l \in DOMAIN t PROVE s[k] # t[l]
      BY <1>5 DEF Elements
    <2>2. CASE i \in DOMAIN s /\ (s \o t)[i] = s[i]
      BY <1>3, <1>5, <2>1, <2>2 DEF Distinct
    <2>3. CASE /\ i - Len(s) \in DOMAIN t /\ i > Len(s)
               /\ (s \o t)[i] = t[i - Len(s)]
      <3>1. /\ j - Len(s) \in DOMAIN t
            /\ (s \o t)[j] = t[j - Len(s)]
        BY <1>3, <2>1, <2>3
      <3>2. i - Len(s) = j - Len(s)
        BY <1>5, <2>3, <3>1 DEF Distinct
      <3> QED
        BY <1>1, <1>2, <3>2
    <2> QED
      BY <1>3, <2>2, <2>3
  <1> QED
    BY <1>1, <1>4, <1>5

\* Only of the last element a tail leaves nothing.
LEMMA TailShorter ==
    ASSUME NEW S, NEW q \in Seq(S), q # << >>
    PROVE  Tail(q) \in Seq(S) /\ (Len(q) # 1 => Tail(q) # << >>)
  <1>1. Tail(q) \in Seq(S) /\ Len(Tail(q)) = Len(q) - 1
    BY HeadTailProperties
  <1>2. Len(q) \in Nat \ {0}
    BY EmptySeq
  <1>3. \A t : t = << >> => Len(t) = 0
    BY EmptySeq
  <1>4. Tail(q) = << >> => Len(Tail(q)) = 0
    BY <1>3, Zenon
  <1> QED
    BY <1>1, <1>2, <1>4

-----------------------------------------------------------------------------
(* Types *)

Ids == 1..nextID - 1

\* The ids given so far remain ids given so far.
LEMMA IdsGrow ==
    ASSUME NEW m \in Nat, NEW n \in Nat, m <= n
    PROVE  1..m - 1 \subseteq 1..n - 1
  OBVIOUS

\* No row has an id that is still to be given, and no two have the same.
FreshIDs ==
    \A d \in distillations :
        d.id < nextID /\ \A e \in distillations : d.id = e.id => d = e

RowsOK == StoreTypeOK /\ RetrieverTypeOK /\ RebuildTypeOK /\ FreshIDs

ChatsOK ==
    /\ shown \subseteq Session \X Ids
    /\ pc \in [Chat -> Ended \cup {"exclude", "score", "wiki", "fetch", "mark", "store"}]
    /\ sess \in [Chat -> Session \cup {NoSession}]
    /\ keys \in [Chat -> SUBSET Key]
    /\ matches \in [Chat -> Seq(Token)]
    /\ excluded \in [Chat -> SUBSET Ids]
    /\ scored \in [Chat -> Seq(Ids)]
    /\ wiki \in [Chat -> Seq(Ids)]
    /\ hits \in [Chat -> Seq(Distillation)]
    /\ \A c \in Chat : Len(scored[c]) <= TopK

\* A wiki round has a token to work on, before the first none has added any, and only
\* a chat that has a session is recorded.
RoundsOK ==
    \A c \in Chat :
        /\ pc[c] = "wiki" => matches[c] # << >>
        /\ pc[c] \in {"idle", "exclude", "score"} => wiki[c] = << >>
        /\ pc[c] = "mark" => sess[c] \in Session

\* A returned row was stored, and while its id is in the table it is that row.
Genuine ==
    \A c \in Chat : \A x \in Elements(hits[c]) :
        x.id \in Ids /\ \A d \in distillations : d.id = x.id => d = x

TypeInv == RowsOK /\ ChatsOK /\ RoundsOK /\ Genuine

\* The steps of the rest of the system.
EnvStep == StoreRow \/ DropRows \/ ScanKeys \/ ScanRows \/ SwapIndexes \/ Restart

\* What the rest of the system does to the rows: ids are only ever given anew.
LEMMA RowsStep ==
    ASSUME RowsOK,
           EnvStep \/ UNCHANGED <<storeVars, retrieverVars, rebuild>>
    PROVE  /\ RowsOK'
           /\ nextID' \in Nat /\ nextID <= nextID'
           /\ \A d \in distillations' : d \in distillations \/ d.id = nextID
  <1> USE DEF RowsOK, StoreTypeOK, RetrieverTypeOK, RebuildTypeOK, FreshIDs, storeVars,
              retrieverVars
  <1>0. semkeys \subseteq Key \X (1..nextID - 1) /\ TokenRows \subseteq Token \X (1..nextID - 1)
    <2>1. LiveIDs \subseteq 1..nextID - 1
      BY DEF LiveIDs, Distillation
    <2> QED
      BY <2>1 DEF TokenRows
  <1>1. CASE StoreRow
    <2>1. PICK s \in Session, text \in Snippet, ks \in SUBSET Key,
               ts \in {{}} \cup {{t} : t \in Token} : InsertDistillation(s, text, ts, ks)
      BY <1>1 DEF StoreRow
    <2> DEFINE row == [id |-> nextID, session |-> s, snippet |-> text, tokens |-> ts]
    <2>2. row \in Distillation /\ row.id = nextID
      BY DEF Distillation
    <2>3. /\ distillations' = distillations \cup {row}
          /\ semkeys' = semkeys \cup (ks \X {nextID})
          /\ nextID' = nextID + 1
          /\ UNCHANGED <<metadata, l0Index, personalIndex, rebuild>>
      BY <1>1, <2>1 DEF StoreRow, InsertDistillation
    <2> HIDE DEF row
    <2>4. RetrieverTypeOK' /\ RebuildTypeOK' /\ semkeys' \subseteq Key \X (1..nextID' - 1)
      BY <2>3
    <2>5. \A d \in distillations : d.id \in Nat
      BY DEF Distillation
    <2>6. FreshIDs'
      BY <2>2, <2>3, <2>5
    <2> QED
      BY <2>2, <2>3, <2>4, <2>6
  <1>2. CASE DropRows
    <2>1. /\ distillations' \subseteq distillations /\ semkeys' \subseteq semkeys
          /\ UNCHANGED <<nextID, metadata, l0Index, personalIndex, rebuild>>
      BY <1>2 DEF DropRows, DeleteDistillationsBySessionID
    <2> QED
      BY <2>1
  <1>3. CASE ScanKeys \/ ScanRows \/ SwapIndexes
    <2>1. UNCHANGED storeVars
      BY <1>3 DEF ScanKeys, ScanRows, SwapIndexes
    <2>2. /\ l0Index' \in {l0Index, rebuild.keys} /\ personalIndex' \in {personalIndex, rebuild.rows}
          /\ rebuild'.next \in {"keys", "rows", "swap"}
          /\ rebuild'.keys \in {{}, semkeys, rebuild.keys}
          /\ rebuild'.rows \in {{}, TokenRows}
      BY <1>3 DEF ScanKeys, ScanRows, SwapIndexes, Swap, NoRebuild
    <2> QED
      BY <1>0, <2>1, <2>2
  <1>4. CASE Restart
    <2>1. /\ UNCHANGED storeVars
          /\ l0Index' = semkeys /\ personalIndex' = TokenRows /\ rebuild' = NoRebuild
      BY <1>4 DEF Restart, NewDistillationRetriever
    <2> QED
      BY <1>0, <2>1 DEF NoRebuild
  <1>5. CASE UNCHANGED <<storeVars, retrieverVars, rebuild>>
    BY <1>5
  <1> QED
    BY <1>1, <1>2, <1>3, <1>4, <1>5 DEF EnvStep

\* A chat asks any session or none, with any keys and any sequence of tokens.
LEMMA AskEffect ==
    ASSUME NEW c \in Chat, Ask(c)
    PROVE  \E s \in Session \cup {NoSession}, ks \in SUBSET Key, q \in Seq(Token) :
                /\ OneAtATime => \A d \in Chat : Busy(d) => sess[d] # s
                /\ sess' = [sess EXCEPT ![c] = s]
                /\ keys' = [keys EXCEPT ![c] = ks]
                /\ matches' = [matches EXCEPT ![c] = q]
  <1>1. PICK s \in Session \cup {NoSession}, ks \in SUBSET Key, n \in 0..MaxMatches :
            /\ OneAtATime => \A d \in Chat : Busy(d) => sess[d] # s
            /\ sess' = [sess EXCEPT ![c] = s]
            /\ keys' = [keys EXCEPT ![c] = ks]
            /\ \E q \in [1..n -> Token] : matches' = [matches EXCEPT ![c] = q]
    BY DEF Ask
  <1>2. PICK q \in [1..n -> Token] : matches' = [matches EXCEPT ![c] = q]
    BY <1>1
  <1>3. q \in Seq(Token)
    <2>1. MaxMatches \in Nat
      BY LimitAssumption
    <2> QED
      BY <1>2, <2>1
  <1> QED
    BY <1>1, <1>2, <1>3

\* What is chosen by score: at most TopK ids, each once and none of them excluded.
LEMMA TakeScoredEffect ==
    ASSUME TypeInv, NEW c \in Chat, TakeScored(c)
    PROVE  \E q \in Seq(Ids) :
                /\ Len(q) <= TopK /\ Distinct(q) /\ Elements(q) \cap excluded[c] = {}
                /\ scored' = [scored EXCEPT ![c] = q]
  <1> DEFINE score == [id \in Candidates(keys[c], matches[c], excluded[c]) |->
                          Score(id, keys[c], matches[c], PersonalWeight)]
             relevant == {id \in DOMAIN score : score[id] >= MinScore}
  <1>1. PICK q \in Leading(relevant, TopK, score) : scored' = [scored EXCEPT ![c] = q]
    BY DEF TakeScored
  <1>2. Candidates(keys[c], matches[c], excluded[c]) \subseteq Ids \ excluded[c]
    BY DEF Candidates, TypeInv, RowsOK, RetrieverTypeOK, Ids
  <1>3. relevant \subseteq Ids /\ relevant \cap excluded[c] = {}
    BY <1>2
  <1>4. IsFiniteSet(relevant)
    <2>1. IsFiniteSet(Ids)
      BY FS_Interval DEF Ids, TypeInv, RowsOK, StoreTypeOK
    <2> QED
      BY <1>3, <2>1, FS_Subset
  <1> HIDE DEF relevant, score
  <1>5. q \in Seq(relevant) /\ Len(q) <= TopK /\ Distinct(q)
    BY <1>4, LeadingProperties, LimitAssumption
  <1>6. q \in Seq(Ids) /\ Elements(q) \subseteq relevant
    BY <1>3, <1>5, ElementsInSet
  <1> QED
    BY <1>1, <1>3, <1>5, <1>6

\* What a wiki round adds: ids, each once and none of them excluded or chosen already.
LEMMA AddWikiEffect ==
    ASSUME TypeInv, NEW c \in Chat, AddWiki(c)
    PROVE  \E q \in Seq(Ids) :
                /\ Distinct(q) /\ Elements(q) \cap (excluded[c] \cup Chosen(c)) = {}
                /\ wiki' = [wiki EXCEPT ![c] = @ \o q]
  <1> DEFINE fresh == GetByPersonalID(Head(matches[c])) \ (excluded[c] \cup Chosen(c))
  <1>1. PICK q \in Leading(fresh, WikiTopK, [id \in fresh |-> id]) :
                wiki' = [wiki EXCEPT ![c] = @ \o q]
    BY DEF AddWiki
  <1>2. fresh \subseteq Ids /\ fresh \cap (excluded[c] \cup Chosen(c)) = {}
    BY DEF GetByPersonalID, TypeInv, RowsOK, RetrieverTypeOK, Ids
  <1>3. IsFiniteSet(fresh)
    <2>1. IsFiniteSet(Ids)
      BY FS_Interval DEF Ids, TypeInv, RowsOK, StoreTypeOK
    <2> QED
      BY <1>2, <2>1, FS_Subset
  <1> HIDE DEF fresh
  <1>4. q \in Seq(fresh) /\ Distinct(q)
    BY <1>3, LeadingProperties, LimitAssumption
  <1>5. q \in Seq(Ids) /\ Elements(q) \subseteq fresh
    BY <1>2, <1>4, ElementsInSet
  <1> QED
    BY <1>1, <1>2, <1>4, <1>5

\* What Fetch returns: stored rows, found at different places of the chosen ids.
LEMMA FetchEffect ==
    ASSUME TypeInv, NEW c \in Chat, Fetch(c)
    PROVE  \E rows \in Seq(Distillation) : \E at :
                /\ hits' = [hits EXCEPT ![c] = rows]
                /\ Distinct(at)
                /\ DOMAIN at = DOMAIN rows
                /\ \A i \in DOMAIN rows :
                        /\ rows[i] \in distillations
                        /\ at[i] \in DOMAIN (scored[c] \o wiki[c])
                        /\ rows[i].id = (scored[c] \o wiki[c])[at[i]]
  <1> DEFINE ids == scored[c] \o wiki[c]
             found == {i \in DOMAIN ids : ids[i] \in LiveIDs}
  <1>1. PICK at \in Rising(found), rows \in [1..Cardinality(found) -> distillations] :
                /\ \A i \in DOMAIN rows : rows[i].id = ids[at[i]]
                /\ hits' = [hits EXCEPT ![c] = rows]
    BY DEF Fetch
  <1>2. ids \in Seq(Ids)
    BY ConcatProperties DEF TypeInv, ChatsOK
  <1>3. DOMAIN ids = 1..Len(ids) /\ Len(ids) \in Nat
    BY <1>2, LenProperties
  <1>4. found \in SUBSET Nat /\ found \subseteq DOMAIN ids /\ IsFiniteSet(found)
    <2>2. found \in SUBSET DOMAIN ids
      OBVIOUS
    <2> HIDE DEF found, ids
    <2>4. IsFiniteSet(1..Len(ids))
      BY <1>3, FS_Interval
    <2>1. IsFiniteSet(DOMAIN ids) /\ DOMAIN ids \subseteq Nat
      BY <1>3, <2>4
    <2>3. IsFiniteSet(found)
      BY <2>1, <2>2, FS_Subset
    <2> QED
      BY <2>1, <2>2, <2>3
  <1> HIDE DEF found, ids
  <1>5. /\ Cardinality(found) \in Nat /\ DOMAIN at = 1..Cardinality(found)
        /\ \A i \in DOMAIN at : at[i] \in found
        /\ Distinct(at)
    BY <1>4, RisingProperties
  <1>6. distillations \subseteq Distillation
    BY DEF TypeInv, RowsOK, StoreTypeOK
  <1>7. /\ rows \in Seq(Distillation) /\ DOMAIN rows = 1..Cardinality(found)
        /\ \A i \in DOMAIN rows : rows[i] \in distillations
    BY <1>5, <1>6
  <1> QED
    BY <1>1, <1>4, <1>5, <1>7 DEF ids

\* The steps of a chat.
ChatStep(c) ==
    \/ Ask(c) \/ LoadExclusions(c) \/ TakeScored(c) \/ AddWiki(c)
    \/ Fetch(c) \/ Mark(c) \/ Answer(c) \/ Fail(c)

\* All a step of the environment does to chats and tracker is to lose the busy ones.
LEMMA EnvEffect ==
    ASSUME EnvStep
    PROVE  /\ UNCHANGED <<shown, sess, keys, matches, excluded, scored, wiki, hits>>
           /\ pc' \in {pc, [c \in Chat |-> IF Busy(c) THEN "lost" ELSE pc[c]]}
  <1>1. CASE StoreRow \/ DropRows \/ ScanKeys \/ ScanRows \/ SwapIndexes
    BY <1>1 DEF StoreRow, DropRows, ScanKeys, ScanRows, SwapIndexes, chatVars
  <1>2. CASE Restart
    BY <1>2 DEF Restart
  <1> QED
    BY <1>1, <1>2 DEF EnvStep

\* A chat changes neither rows nor indexes, and tells the tracker in Mark only.
LEMMA ChatEffect ==
    ASSUME NEW c \in Chat, ChatStep(c)
    PROVE  /\ UNCHANGED <<storeVars, retrieverVars, rebuild, nextID, distillations>>
           /\ Ids' = Ids
           /\ Mark(c) \/ UNCHANGED shown
  <1>1. UNCHANGED <<storeVars, retrieverVars, rebuild>> /\ (Mark(c) \/ UNCHANGED shown)
    BY DEF ChatStep, Ask, LoadExclusions, TakeScored, AddWiki, Fetch, Mark, Answer, Fail
  <1> QED
    BY <1>1 DEF storeVars, Ids

\* Nothing is stored and nobody has asked when the process starts for the first time.
LEMMA InitTypeInv == Init => TypeInv
  <1> SUFFICES ASSUME Init PROVE TypeInv
    OBVIOUS
  <1>1. RowsOK
    BY DEF Init, InitStore, InitRetriever, RowsOK, StoreTypeOK, RetrieverTypeOK,
           RebuildTypeOK, NoRebuild, FreshIDs
  <1>2. ChatsOK
    <2>1. pc \in [Chat -> Ended \cup {"exclude", "score", "wiki", "fetch", "mark", "store"}]
      BY DEF Init, Ended
    <2>2. /\ matches \in [Chat -> Seq(Token)] /\ scored \in [Chat -> Seq(Ids)]
          /\ wiki \in [Chat -> Seq(Ids)] /\ hits \in [Chat -> Seq(Distillation)]
      BY EmptySeq DEF Init
    <2>3. \A c \in Chat : Len(scored[c]) <= TopK
      BY EmptySeq, LimitAssumption DEF Init
    <2>4. /\ shown = {} /\ sess \in [Chat -> Session \cup {NoSession}]
          /\ keys \in [Chat -> SUBSET Key] /\ excluded \in [Chat -> SUBSET Ids]
      BY DEF Init
    <2> QED
      BY <2>1, <2>2, <2>3, <2>4 DEF ChatsOK
  <1>3. RoundsOK
    BY DEF Init, RoundsOK
  <1>4. Genuine
    BY DEF Init, Genuine, Elements
  <1> QED
    BY <1>1, <1>2, <1>3, <1>4 DEF TypeInv

\* Rows may come and go, ids grow, chats may be lost.
LEMMA EnvTypeInv ==
    ASSUME TypeInv, EnvStep
    PROVE  TypeInv'
  <1>1. /\ RowsOK' /\ nextID \in Nat /\ nextID' \in Nat /\ nextID <= nextID'
        /\ \A d \in distillations' : d \in distillations \/ d.id = nextID
    BY RowsStep DEF TypeInv, RowsOK, StoreTypeOK
  <1>2. Ids \subseteq Ids'
    BY <1>1, IdsGrow DEF Ids
  <1>3. /\ UNCHANGED <<shown, sess, keys, matches, excluded, scored, wiki, hits>>
        /\ pc' \in {pc, [c \in Chat |-> IF Busy(c) THEN "lost" ELSE pc[c]]}
    BY EnvEffect
  <1>4. pc' \in [Chat -> Ended \cup {"exclude", "score", "wiki", "fetch", "mark", "store"}]
    BY <1>3 DEF TypeInv, ChatsOK, Ended
  <1>5. scored' \in [Chat -> Seq(Ids')] /\ wiki' \in [Chat -> Seq(Ids')]
    <2>1. scored \in [Chat -> Seq(Ids)] /\ wiki \in [Chat -> Seq(Ids)]
      BY DEF TypeInv, ChatsOK
    <2>2. \A c \in Chat : scored[c] \in Seq(Ids') /\ wiki[c] \in Seq(Ids')
      BY <1>2, <2>1, SeqMonotonic
    <2> QED
      BY <1>3, <2>1, <2>2
  <1>6. shown' \subseteq Session \X Ids' /\ excluded' \in [Chat -> SUBSET Ids']
    BY <1>2, <1>3 DEF TypeInv, ChatsOK
  <1>7. ChatsOK'
    BY <1>3, <1>4, <1>5, <1>6 DEF TypeInv, ChatsOK
  <1>8. RoundsOK'
    BY <1>3 DEF TypeInv, ChatsOK, RoundsOK
  <1>9. Genuine'
    <2> SUFFICES ASSUME NEW c \in Chat, NEW x \in Elements(hits[c])
                 PROVE  x.id \in Ids' /\ \A d \in distillations' : d.id = x.id => d = x
      BY <1>3 DEF Genuine, Elements
    <2>1. x.id \in Ids /\ \A d \in distillations : d.id = x.id => d = x
      BY DEF TypeInv, Genuine
    <2>2. x.id # nextID
      BY <1>1, <2>1 DEF Ids
    <2> QED
      BY <1>1, <1>2, <2>1, <2>2
  <1> QED
    BY <1>1, <1>7, <1>8, <1>9 DEF TypeInv

\* Every step of a chat keeps the types of all chats.
LEMMA ChatTypeInv ==
    ASSUME TypeInv, NEW c \in Chat, ChatStep(c)
    PROVE  TypeInv'
  <1>1. RowsOK' /\ Ids' = Ids
    BY ChatEffect, RowsStep DEF TypeInv
  <1>9. Genuine'
    <2>1. UNCHANGED distillations
      BY ChatEffect
    <2>2. CASE UNCHANGED hits
      BY <1>1, <2>1, <2>2 DEF TypeInv, Genuine, Elements
    <2>3. CASE Fetch(c)
      <3>1. PICK rows \in Seq(Distillation) :
                /\ hits' = [hits EXCEPT ![c] = rows]
                /\ \A i \in DOMAIN rows : rows[i] \in distillations
        BY <2>3, FetchEffect
      <3>2. \A d \in Chat : hits'[d] = IF d = c THEN rows ELSE hits[d]
        BY <3>1 DEF TypeInv, ChatsOK
      <3>3. ASSUME NEW x \in Elements(rows)
            PROVE  x.id \in Ids /\ \A d \in distillations : d.id = x.id => d = x
        <4>1. x \in distillations /\ x.id \in Nat \ {0} /\ nextID \in Nat /\ x.id < nextID
          BY <3>1 DEF Elements, TypeInv, RowsOK, StoreTypeOK, FreshIDs, Distillation
        <4> QED
          BY <4>1 DEF Ids, TypeInv, RowsOK, FreshIDs
      <3> SUFFICES ASSUME NEW d \in Chat, NEW x \in Elements(hits'[d])
                   PROVE  x.id \in Ids /\ \A e \in distillations : e.id = x.id => e = x
        BY <1>1, <2>1 DEF Genuine, Elements
      <3> QED
        BY <3>2, <3>3 DEF TypeInv, Genuine
    <2> QED
      BY <2>2, <2>3
         DEF ChatStep, Ask, LoadExclusions, TakeScored, AddWiki, Mark, Answer, Fail
  <1> USE DEF TypeInv, ChatsOK, RoundsOK, Goto, Ended
  <1>2. CASE Ask(c)
    <2>1. PICK s \in Session \cup {NoSession}, ks \in SUBSET Key, q \in Seq(Token) :
            /\ sess' = [sess EXCEPT ![c] = s]
            /\ keys' = [keys EXCEPT ![c] = ks]
            /\ matches' = [matches EXCEPT ![c] = q]
      BY <1>2, AskEffect
    <2>4. sess' \in [Chat -> Session \cup {NoSession}] /\ keys' \in [Chat -> SUBSET Key]
      BY <2>1
    <2>5. /\ pc' = [pc EXCEPT ![c] = "exclude"] /\ pc[c] = "idle"
          /\ UNCHANGED <<shown, excluded, scored, wiki, hits>>
      BY <1>2 DEF Ask
    <2>6. matches' \in [Chat -> Seq(Token)] /\ \A d \in Chat \ {c} : matches'[d] = matches[d]
      BY <2>1
    <2>7. ChatsOK'
      <3>1. pc' \in [Chat -> Ended \cup {"exclude", "score", "wiki", "fetch", "mark", "store"}]
        BY <2>5
      <3> QED
        BY <1>1, <2>4, <2>5, <2>6, <3>1
    <2>8. RoundsOK'
      BY <2>1, <2>5, <2>6
    <2> QED
      BY <1>1, <1>9, <2>7, <2>8
  <1>3. CASE LoadExclusions(c)
    <2>1. /\ excluded' = [excluded EXCEPT ![c] =
                              {row[2] : row \in {r \in shown : r[1] = sess[c]}}]
             \/ UNCHANGED excluded
          /\ pc' = [pc EXCEPT ![c] = "score"] /\ pc[c] = "exclude"
          /\ UNCHANGED <<shown, sess, keys, matches, scored, wiki, hits>>
      BY <1>3 DEF LoadExclusions
    <2>2. {row[2] : row \in {r \in shown : r[1] = sess[c]}} \in SUBSET Ids
      OBVIOUS
    <2>3. excluded' \in [Chat -> SUBSET Ids]
      BY <2>1, <2>2
    <2>4. ChatsOK' /\ RoundsOK'
      BY <1>1, <2>1, <2>3
    <2> QED
      BY <1>1, <1>9, <2>4
  <1>4. CASE TakeScored(c)
    <2>1. PICK q \in Seq(Ids) : Len(q) <= TopK /\ scored' = [scored EXCEPT ![c] = q]
      BY <1>4, TakeScoredEffect
    <2>2. /\ pc' = [pc EXCEPT ![c] = IF matches[c] = << >> THEN "fetch" ELSE "wiki"]
          /\ UNCHANGED <<shown, sess, keys, matches, excluded, wiki, hits>>
      BY <1>4 DEF TakeScored
    <2>3. scored' \in [Chat -> Seq(Ids)] /\ \A d \in Chat : Len(scored'[d]) <= TopK
      BY <2>1
    <2>4. ChatsOK' /\ RoundsOK'
      BY <1>1, <2>2, <2>3
    <2> QED
      BY <1>1, <1>9, <2>4
  <1>5. CASE AddWiki(c)
    <2>1. PICK q \in Seq(Ids) : wiki' = [wiki EXCEPT ![c] = @ \o q]
      BY <1>5, AddWikiEffect
    <2>2. /\ pc' = [pc EXCEPT ![c] = IF Len(matches[c]) = 1 THEN "fetch" ELSE "wiki"]
          /\ pc[c] = "wiki"
          /\ matches' = [matches EXCEPT ![c] = Tail(@)]
          /\ UNCHANGED <<shown, sess, keys, excluded, scored, hits>>
      BY <1>5 DEF AddWiki
    <2>3. wiki[c] \o q \in Seq(Ids)
      BY <2>1, ConcatProperties
    <2>4. matches[c] \in Seq(Token) /\ matches[c] # << >>
      BY <2>2
    <2>5. /\ Tail(matches[c]) \in Seq(Token)
          /\ Len(matches[c]) # 1 => Tail(matches[c]) # << >>
      BY <2>4, TailShorter
    <2>6. wiki' \in [Chat -> Seq(Ids)] /\ matches' \in [Chat -> Seq(Token)]
      BY <2>1, <2>2, <2>3, <2>5
    <2>7. ChatsOK'
      BY <1>1, <2>2, <2>6
    <2>8. RoundsOK'
      BY <2>1, <2>2, <2>5
    <2> QED
      BY <1>1, <1>9, <2>7, <2>8
  <1>6. CASE Fetch(c)
    <2>1. PICK rows \in Seq(Distillation) : hits' = [hits EXCEPT ![c] = rows]
      BY <1>6, FetchEffect
    <2>2. /\ \E to \in {"store", "mark"} :
                /\ pc' = [pc EXCEPT ![c] = to]
                /\ to = "mark" => sess[c] \in Session
          /\ UNCHANGED <<shown, sess, keys, matches, excluded, scored, wiki>>
      <3>1. CASE Chosen(c) = {} \/ sess[c] = NoSession
        BY <1>6, <3>1 DEF Fetch
      <3>2. CASE ~(Chosen(c) = {} \/ sess[c] = NoSession)
        BY <1>6, <3>2 DEF Fetch
      <3> QED
        BY <3>1, <3>2
    <2>3. hits' \in [Chat -> Seq(Distillation)]
      BY <2>1
    <2>4. ChatsOK' /\ RoundsOK'
      BY <1>1, <2>2, <2>3
    <2> QED
      BY <1>1, <1>9, <2>4
  <1>7. CASE Mark(c)
    <2>1. /\ shown' = shown \cup ({sess[c]} \X {d.id : d \in Elements(hits[c])})
             \/ UNCHANGED shown
          /\ pc' = [pc EXCEPT ![c] = "store"] /\ pc[c] = "mark"
          /\ UNCHANGED <<sess, keys, matches, excluded, scored, wiki, hits>>
      BY <1>7 DEF Mark
    <2>2. sess[c] \in Session /\ {d.id : d \in Elements(hits[c])} \subseteq Ids
      BY <2>1 DEF Genuine
    <2>3. shown' \subseteq Session \X Ids
      BY <2>1, <2>2
    <2>4. ChatsOK' /\ RoundsOK'
      BY <1>1, <2>1, <2>3
    <2> QED
      BY <1>1, <1>9, <2>4
  <1>8. CASE Answer(c) \/ Fail(c)
    <2>1. /\ \E to \in {"answered", "failed"} : pc' = [pc EXCEPT ![c] = to]
          /\ UNCHANGED <<shown, sess, keys, matches, excluded, scored, wiki, hits>>
      BY <1>8 DEF Answer, Fail
    <2>2. ChatsOK' /\ RoundsOK'
      BY <1>1, <2>1
    <2> QED
      BY <1>1, <1>9, <2>2
  <1> QED
    BY <1>2, <1>3, <1>4, <1>5, <1>6, <1>7, <1>8 DEF ChatStep

\* Every step, and a stuttering one, keeps the types.
LEMMA NextTypeInv ==
    ASSUME TypeInv, [Next]_vars
    PROVE  TypeInv'
  <1>1. CASE EnvStep
    BY <1>1, EnvTypeInv
  <1>2. CASE \E c \in Chat : ChatStep(c)
    BY <1>2, ChatTypeInv
  <1>3. CASE UNCHANGED vars
    BY <1>3
       DEF vars, storeVars, retrieverVars, chatVars, TypeInv, RowsOK, StoreTypeOK,
           RetrieverTypeOK, RebuildTypeOK, FreshIDs, ChatsOK, RoundsOK, Genuine, Ids, Elements
  <1> QED
    BY <1>1, <1>2, <1>3 DEF Next, EnvStep, ChatStep

-----------------------------------------------------------------------------
(* One answer *)

\* What is chosen holds nothing twice, and neither does what is fetched of it.
OnceEach ==
    \A c \in Chat :
        /\ Distinct(scored[c]) /\ Distinct(wiki[c])
        /\ Elements(scored[c]) \cap Elements(wiki[c]) = {}
        /\ \A i, j \in DOMAIN hits[c] : hits[c][i].id = hits[c][j].id => i = j

\* Nothing is chosen when the process starts.
LEMMA InitOnceEach == Init => OnceEach
  BY DEF Init, OnceEach, Distinct, Elements

\* The scored are distinct and come first, a wiki round adds what is new, the rows
\* fetched are those of different places.
LEMMA NextOnceEach ==
    ASSUME TypeInv, OnceEach, [Next]_vars
    PROVE  OnceEach'
  <1>1. CASE UNCHANGED <<scored, wiki, hits>>
    BY <1>1 DEF OnceEach, Distinct, Elements
  <1>2. ASSUME NEW c \in Chat, TakeScored(c) PROVE OnceEach'
    <2>1. PICK q \in Seq(Ids) : Distinct(q) /\ scored' = [scored EXCEPT ![c] = q]
      BY <1>2, TakeScoredEffect
    <2>2. wiki[c] = << >> /\ UNCHANGED <<wiki, hits>>
      BY <1>2 DEF TakeScored, TypeInv, RoundsOK
    <2>3. Elements(wiki[c]) = {}
      BY <2>2 DEF Elements
    <2>4. \A d \in Chat : scored'[d] = IF d = c THEN q ELSE scored[d]
      BY <2>1 DEF TypeInv, ChatsOK
    <2>5. ASSUME NEW d \in Chat
          PROVE  Distinct(scored'[d]) /\ Elements(scored'[d]) \cap Elements(wiki[d]) = {}
      BY <2>1, <2>3, <2>4 DEF OnceEach
    <2> QED
      BY <2>2, <2>5 DEF OnceEach, Distinct, Elements
  <1>3. ASSUME NEW c \in Chat, AddWiki(c) PROVE OnceEach'
    <2>1. PICK q \in Seq(Ids) :
            /\ Distinct(q) /\ Elements(q) \cap Chosen(c) = {}
            /\ wiki' = [wiki EXCEPT ![c] = @ \o q]
      BY <1>3, AddWikiEffect
    <2>2. UNCHANGED <<scored, hits>>
      BY <1>3 DEF AddWiki
    <2>3. wiki[c] \in Seq(Ids)
      BY DEF TypeInv, ChatsOK
    <2>4. /\ Elements(wiki[c] \o q) = Elements(wiki[c]) \cup Elements(q)
          /\ Distinct(wiki[c] \o q)
      BY <2>1, <2>3, ConcatDistinct DEF OnceEach, Chosen
    <2>5. \A d \in Chat : wiki'[d] = IF d = c THEN wiki[c] \o q ELSE wiki[d]
      BY <2>1 DEF TypeInv, ChatsOK
    <2>6. ASSUME NEW d \in Chat
          PROVE  Distinct(wiki'[d]) /\ Elements(scored[d]) \cap Elements(wiki'[d]) = {}
      BY <2>1, <2>4, <2>5 DEF OnceEach, Chosen
    <2> QED
      BY <2>2, <2>6 DEF OnceEach, Distinct, Elements
  <1>4. ASSUME NEW c \in Chat, Fetch(c) PROVE OnceEach'
    <2>7. PICK rows \in Seq(Distillation) : \E at :
            /\ hits' = [hits EXCEPT ![c] = rows]
            /\ Distinct(at)
            /\ DOMAIN at = DOMAIN rows
            /\ \A i \in DOMAIN rows :
                    /\ rows[i] \in distillations
                    /\ at[i] \in DOMAIN (scored[c] \o wiki[c])
                    /\ rows[i].id = (scored[c] \o wiki[c])[at[i]]
      BY <1>4, FetchEffect
    <2>1. PICK at :
            /\ hits' = [hits EXCEPT ![c] = rows]
            /\ Distinct(at) /\ DOMAIN at = DOMAIN rows
            /\ \A i \in DOMAIN rows :
                    /\ at[i] \in DOMAIN (scored[c] \o wiki[c])
                    /\ rows[i].id = (scored[c] \o wiki[c])[at[i]]
      BY <2>7
    <2>2. UNCHANGED <<scored, wiki>>
      BY <1>4 DEF Fetch
    <2>3. Distinct(scored[c] \o wiki[c])
      <3>1. scored[c] \in Seq(Ids) /\ wiki[c] \in Seq(Ids)
        BY DEF TypeInv, ChatsOK
      <3> QED
        BY <3>1, ConcatDistinct DEF OnceEach
    <2>4. \A i, j \in DOMAIN rows : rows[i].id = rows[j].id => i = j
      BY <2>1, <2>3 DEF Distinct
    <2>5. \A d \in Chat : hits'[d] = IF d = c THEN rows ELSE hits[d]
      BY <2>1 DEF TypeInv, ChatsOK
    <2>6. ASSUME NEW d \in Chat
          PROVE  \A i, j \in DOMAIN hits'[d] : hits'[d][i].id = hits'[d][j].id => i = j
      BY <2>4, <2>5 DEF OnceEach
    <2> QED
      BY <2>2, <2>6 DEF OnceEach, Distinct, Elements
  <1>5. \/ UNCHANGED <<scored, wiki, hits>>
        \/ \E c \in Chat : TakeScored(c) \/ AddWiki(c) \/ Fetch(c)
    BY DEF Next, vars, chatVars, StoreRow, DropRows, ScanKeys, ScanRows, SwapIndexes, Restart, Ask, LoadExclusions,
           Mark, Answer, Fail
  <1> QED
    BY <1>1, <1>2, <1>3, <1>4, <1>5

\* A chat's step leaves the other chats as they are.
LEMMA OthersKeep ==
    ASSUME TypeInv, NEW c \in Chat, ChatStep(c), NEW d \in Chat, d # c
    PROVE  /\ pc'[d] = pc[d] /\ sess'[d] = sess[d] /\ excluded'[d] = excluded[d]
           /\ scored'[d] = scored[d] /\ wiki'[d] = wiki[d] /\ hits'[d] = hits[d]
  <1> USE DEF TypeInv, ChatsOK, Goto
  <1>1. pc'[d] = pc[d]
    BY DEF ChatStep, Ask, LoadExclusions, TakeScored, AddWiki, Fetch, Mark, Answer, Fail
  <1>2. sess'[d] = sess[d]
    BY AskEffect DEF ChatStep, LoadExclusions, TakeScored, AddWiki, Fetch, Mark, Answer, Fail
  <1>3. excluded'[d] = excluded[d]
    BY DEF ChatStep, Ask, LoadExclusions, TakeScored, AddWiki, Fetch, Mark, Answer, Fail
  <1>4. scored'[d] = scored[d]
    BY TakeScoredEffect DEF ChatStep, Ask, LoadExclusions, AddWiki, Fetch, Mark, Answer, Fail
  <1>5. wiki'[d] = wiki[d]
    BY AddWikiEffect DEF ChatStep, Ask, LoadExclusions, TakeScored, Fetch, Mark, Answer, Fail
  <1>6. hits'[d] = hits[d]
    BY FetchEffect DEF ChatStep, Ask, LoadExclusions, TakeScored, AddWiki, Mark, Answer, Fail
  <1> QED
    BY <1>1, <1>2, <1>3, <1>4, <1>5, <1>6

-----------------------------------------------------------------------------
(* The tracker *)

\* Whatever the tracker holds was fetched by a chat of the session that changes its
\* hits no more.
MarkedWereFetched ==
    \A row \in shown : \E c \in Chat :
        /\ pc[c] \in {"store", "answered", "failed", "lost"} /\ sess[c] = row[1]
        /\ \E x \in Elements(hits[c]) : x.id = row[2]

\* A chat that has got so far keeps its session and its hits.
LEMMA FetchedStays ==
    ASSUME TypeInv, [Next]_vars, NEW c \in Chat,
           pc[c] \in {"store", "answered", "failed", "lost"}
    PROVE  /\ pc'[c] \in {"store", "answered", "failed", "lost"}
           /\ sess'[c] = sess[c] /\ hits'[c] = hits[c]
  <1> USE DEF TypeInv, ChatsOK, Goto
  <1>1. CASE UNCHANGED <<sess, hits>> /\ UNCHANGED pc
    BY <1>1
  <1>2. CASE EnvStep
    BY <1>2, EnvEffect
  <1>3. ASSUME NEW d \in Chat, ChatStep(d), pc[d] # "store" /\ d = c PROVE FALSE
    BY <1>3 DEF ChatStep, Ask, LoadExclusions, TakeScored, AddWiki, Fetch, Mark, Fail, Answer
  <1>4. ASSUME NEW d \in Chat, ChatStep(d), d # c
        PROVE  pc'[c] = pc[c] /\ sess'[c] = sess[c] /\ hits'[c] = hits[c]
    <2>1. pc'[c] = pc[c]
      BY <1>4 DEF ChatStep, Ask, LoadExclusions, TakeScored, AddWiki, Fetch, Mark, Fail, Answer
    <2>2. sess'[c] = sess[c]
      BY <1>4, AskEffect
         DEF ChatStep, LoadExclusions, TakeScored, AddWiki, Fetch, Mark, Fail, Answer
    <2>3. hits'[c] = hits[c]
      BY <1>4, FetchEffect
         DEF ChatStep, Ask, LoadExclusions, TakeScored, AddWiki, Mark, Fail, Answer
    <2> QED
      BY <2>1, <2>2, <2>3
  <1>5. ASSUME ChatStep(c), pc[c] = "store"
        PROVE  pc'[c] \in {"answered", "failed"} /\ UNCHANGED <<sess, hits>>
    BY <1>5 DEF ChatStep, Ask, LoadExclusions, TakeScored, AddWiki, Fetch, Mark, Fail, Answer
  <1>6. \/ UNCHANGED <<sess, hits>> /\ UNCHANGED pc
        \/ EnvStep \/ \E d \in Chat : ChatStep(d)
    BY DEF Next, vars, chatVars, EnvStep, ChatStep
  <1> QED
    BY <1>1, <1>2, <1>3, <1>4, <1>5, <1>6

\* Only Mark tells the tracker, and only of what was fetched.
LEMMA NextMarkedWereFetched ==
    ASSUME TypeInv, MarkedWereFetched, [Next]_vars
    PROVE  MarkedWereFetched'
  <1>1. ASSUME NEW row \in shown
        PROVE  \E c \in Chat :
                /\ pc'[c] \in {"store", "answered", "failed", "lost"} /\ sess'[c] = row[1]
                /\ \E x \in Elements(hits'[c]) : x.id = row[2]
    BY FetchedStays DEF MarkedWereFetched
  <1>2. CASE UNCHANGED shown
    BY <1>1, <1>2 DEF MarkedWereFetched, Elements
  <1>3. ASSUME NEW c \in Chat, Mark(c) PROVE MarkedWereFetched'
    <2>1. /\ shown' \subseteq shown \cup ({sess[c]} \X {d.id : d \in Elements(hits[c])})
          /\ pc' = [pc EXCEPT ![c] = "store"] /\ UNCHANGED <<sess, hits>>
      BY <1>3 DEF Mark, Goto
    <2>2. pc'[c] = "store"
      BY <2>1 DEF TypeInv, ChatsOK
    <2>3. ASSUME NEW row \in {sess[c]} \X {d.id : d \in Elements(hits[c])}
          PROVE  sess'[c] = row[1] /\ \E x \in Elements(hits'[c]) : x.id = row[2]
      BY <2>1 DEF Elements
    <2> QED
      BY <1>1, <2>1, <2>2, <2>3 DEF MarkedWereFetched, Elements
  <1>4. UNCHANGED shown \/ \E c \in Chat : Mark(c)
    BY EnvEffect, ChatEffect DEF Next, vars, EnvStep, ChatStep
  <1> QED
    BY <1>2, <1>3, <1>4

\* Where the prompt cannot fail to be stored, a chat that has told the tracker is
\* answered, or lost with its process.
LEMMA NextMarkedWereReturned ==
    ASSUME "store" \notin Failing, TypeInv, MarkedWereReturned, [Next]_vars
    PROVE  MarkedWereReturned'
  <1>1. ASSUME NEW c \in Chat, pc[c] \in {"store", "answered", "lost"}
        PROVE  /\ pc'[c] \in {"store", "answered", "lost"}
               /\ sess'[c] = sess[c] /\ hits'[c] = hits[c]
    <2>1. pc'[c] \in {"store", "answered", "failed", "lost"}
          /\ sess'[c] = sess[c] /\ hits'[c] = hits[c]
      BY <1>1, FetchedStays
    <2>2. pc'[c] # "failed"
      <3>1. CASE UNCHANGED vars
        BY <1>1, <3>1 DEF vars, chatVars
      <3>2. CASE EnvStep
        BY <1>1, <3>2, EnvEffect
      <3>3. ASSUME NEW d \in Chat, ChatStep(d), d # c PROVE pc'[c] # "failed"
        BY <1>1, <3>3, OthersKeep
      <3>4. CASE ChatStep(c)
        <4>1. ~Fail(c)
          BY <1>1 DEF Fail
        <4> QED
          BY <1>1, <3>4, <4>1
             DEF ChatStep, Ask, LoadExclusions, TakeScored, AddWiki, Fetch, Mark, Answer, Goto,
                 TypeInv, ChatsOK
      <3> QED
        BY <3>1, <3>2, <3>3, <3>4 DEF Next, EnvStep, ChatStep
    <2> QED
      BY <2>1, <2>2
  <1>2. ASSUME NEW row \in shown
        PROVE  \E c \in Chat :
                /\ sess'[c] = row[1] /\ pc'[c] \in {"store", "answered", "lost"}
                /\ \E x \in Elements(hits'[c]) : x.id = row[2]
    BY <1>1 DEF MarkedWereReturned
  <1>3. CASE UNCHANGED shown
    BY <1>2, <1>3 DEF MarkedWereReturned, Elements
  <1>4. ASSUME NEW c \in Chat, Mark(c) PROVE MarkedWereReturned'
    <2>1. /\ shown' \subseteq shown \cup ({sess[c]} \X {d.id : d \in Elements(hits[c])})
          /\ pc' = [pc EXCEPT ![c] = "store"] /\ UNCHANGED <<sess, hits>>
      BY <1>4 DEF Mark, Goto
    <2>2. pc'[c] = "store"
      BY <2>1 DEF TypeInv, ChatsOK
    <2>3. ASSUME NEW row \in {sess[c]} \X {d.id : d \in Elements(hits[c])}
          PROVE  sess'[c] = row[1] /\ \E x \in Elements(hits'[c]) : x.id = row[2]
      BY <2>1 DEF Elements
    <2> QED
      BY <1>2, <2>1, <2>2, <2>3 DEF MarkedWereReturned, Elements
  <1>5. UNCHANGED shown \/ \E c \in Chat : Mark(c)
    BY EnvEffect, ChatEffect DEF Next, vars, EnvStep, ChatStep
  <1> QED
    BY <1>3, <1>4, <1>5

-----------------------------------------------------------------------------
(* A session with one chat at a time *)

\* No two chats of a session are under way; any number may be that have none.
Apart ==
    \A c, d \in Chat : c # d /\ Busy(c) /\ Busy(d) /\ sess[c] = sess[d] => sess[c] = NoSession

\* What a chat has loaded is still all the tracker holds for its session.
Excludes ==
    \A c \in Chat : pc[c] \in {"score", "wiki", "fetch"} =>
        \A row \in shown : row[1] = sess[c] => row[2] \in excluded[c]

Avoids == \A c \in Chat : pc[c] \in {"wiki", "fetch"} => Chosen(c) \cap excluded[c] = {}

\* What is about to be recorded is not recorded yet, what was answered is.
Unrecorded ==
    \A c \in Chat : pc[c] = "mark" =>
        \A x \in Elements(hits[c]) : <<sess[c], x.id>> \notin shown

Recorded ==
    \A c \in Chat : pc[c] \in {"store", "answered"} /\ sess[c] # NoSession =>
        \A x \in Elements(hits[c]) : <<sess[c], x.id>> \in shown

\* NeverRepeated, from the moment hits are recorded.
NoRepeat ==
    \A c, d \in Chat :
        /\ c # d /\ pc[c] \in {"store", "answered"} /\ pc[d] \in {"store", "answered"}
        /\ sess[c] = sess[d] /\ sess[c] # NoSession
        => \A x \in Elements(hits[c]), y \in Elements(hits[d]) : x.id # y.id

TrackedInv == Excludes /\ Avoids /\ Unrecorded /\ Recorded /\ NoRepeat

\* The calls to the tracker succeed.
Tracked == {"mark", "exclude"} \cap Failing = {}

\* Nobody has asked.
LEMMA InitTrackedInv == Init => TrackedInv
  BY DEF Init, TrackedInv, Excludes, Avoids, Unrecorded, Recorded, NoRepeat, Ended

\* The rows Fetch returns are of ids the chat has chosen.
LEMMA FetchedChosen ==
    ASSUME TypeInv, NEW c \in Chat, Fetch(c)
    PROVE  \A x \in Elements(hits'[c]) : x.id \in Chosen(c)
  <1>1. PICK rows \in Seq(Distillation) : \E at :
            /\ hits' = [hits EXCEPT ![c] = rows]
            /\ Distinct(at)
            /\ DOMAIN at = DOMAIN rows
            /\ \A i \in DOMAIN rows :
                    /\ rows[i] \in distillations
                    /\ at[i] \in DOMAIN (scored[c] \o wiki[c])
                    /\ rows[i].id = (scored[c] \o wiki[c])[at[i]]
    BY FetchEffect
  <1>2. Elements(scored[c] \o wiki[c]) = Chosen(c)
    <2>1. scored[c] \in Seq(Ids) /\ wiki[c] \in Seq(Ids)
      BY DEF TypeInv, ChatsOK
    <2> QED
      BY <2>1, ConcatDistinct DEF Chosen
  <1>3. hits'[c] = rows
    BY <1>1 DEF TypeInv, ChatsOK
  <1>4. \A i \in DOMAIN rows : rows[i].id \in Elements(scored[c] \o wiki[c])
    BY <1>1 DEF Elements
  <1> QED
    BY <1>2, <1>3, <1>4 DEF Elements

\* What a chat's own step does to it, seen from its place in the code.
LEMMA OwnStep ==
    ASSUME TypeInv, Tracked, NEW c \in Chat, ChatStep(c)
    PROVE  \/ pc[c] = "idle" /\ pc'[c] = "exclude"
           \/ /\ pc[c] = "exclude" /\ pc'[c] = "score" /\ sess'[c] = sess[c]
              /\ excluded'[c] = {row[2] : row \in {r \in shown : r[1] = sess[c]}}
           \/ /\ pc[c] \in {"score", "wiki"} /\ pc'[c] \in {"wiki", "fetch"}
              /\ sess'[c] = sess[c] /\ excluded'[c] = excluded[c]
              /\ TakeScored(c) \/ AddWiki(c)
           \/ /\ pc[c] = "fetch" /\ sess'[c] = sess[c]
              /\ \/ pc'[c] = "store" /\ (Chosen(c) = {} \/ sess[c] = NoSession)
                 \/ pc'[c] = "mark"
              /\ \A x \in Elements(hits'[c]) : x.id \in Chosen(c)
           \/ /\ pc[c] = "mark" /\ pc'[c] = "store" /\ sess'[c] = sess[c] /\ hits'[c] = hits[c]
              /\ shown' = shown \cup ({sess[c]} \X {d.id : d \in Elements(hits[c])})
           \/ /\ pc[c] = "store" /\ pc'[c] = "answered"
              /\ sess'[c] = sess[c] /\ hits'[c] = hits[c]
           \/ pc[c] \in {"fetch", "store"} /\ pc'[c] = "failed" /\ sess'[c] = sess[c]
  <1> USE DEF TypeInv, ChatsOK, Goto
  <1>1. CASE Ask(c)
    BY <1>1 DEF Ask
  <1>2. CASE LoadExclusions(c)
    BY <1>2 DEF LoadExclusions, Tracked
  <1>3. CASE TakeScored(c) \/ AddWiki(c)
    BY <1>3 DEF TakeScored, AddWiki
  <1>4. CASE Fetch(c)
    <2>1. pc[c] = "fetch" /\ sess'[c] = sess[c]
      BY <1>4 DEF Fetch
    <2>2. \/ pc'[c] = "store" /\ (Chosen(c) = {} \/ sess[c] = NoSession)
          \/ pc'[c] = "mark"
      BY <1>4 DEF Fetch
    <2> QED
      BY <1>4, <2>1, <2>2, FetchedChosen
  <1>5. CASE Mark(c)
    BY <1>5 DEF Mark, Tracked
  <1>6. CASE Answer(c)
    BY <1>6 DEF Answer
  <1>7. CASE Fail(c)
    BY <1>7 DEF Fail
  <1> QED
    BY <1>1, <1>2, <1>3, <1>4, <1>5, <1>6, <1>7 DEF ChatStep

\* Scoring and wiki rounds choose nothing excluded.
LEMMA ChoosingAvoids ==
    ASSUME TypeInv, Avoids, NEW c \in Chat, TakeScored(c) \/ AddWiki(c)
    PROVE  (Elements(scored'[c]) \cup Elements(wiki'[c])) \cap excluded[c] = {}
  <1>1. CASE TakeScored(c)
    <2>1. PICK q \in Seq(Ids) :
            Elements(q) \cap excluded[c] = {} /\ scored' = [scored EXCEPT ![c] = q]
      BY <1>1, TakeScoredEffect
    <2>2. wiki'[c] = << >>
      BY <1>1 DEF TakeScored, TypeInv, RoundsOK
    <2>3. Elements(<< >>) = {}
      BY DEF Elements
    <2>4. scored'[c] = q
      BY <2>1 DEF TypeInv, ChatsOK
    <2> QED
      BY <2>1, <2>2, <2>3, <2>4
  <1>2. CASE AddWiki(c)
    <2>1. PICK q \in Seq(Ids) :
            Elements(q) \cap excluded[c] = {} /\ wiki' = [wiki EXCEPT ![c] = @ \o q]
      BY <1>2, AddWikiEffect
    <2>2. scored'[c] = scored[c] /\ Chosen(c) \cap excluded[c] = {}
      BY <1>2 DEF AddWiki, Avoids
    <2>3. wiki'[c] = wiki[c] \o q /\ wiki[c] \in Seq(Ids)
      BY <2>1 DEF TypeInv, ChatsOK
    <2>4. Elements(wiki'[c]) = Elements(wiki[c]) \cup Elements(q)
      BY <2>3, ConcatDistinct
    <2> QED
      BY <2>1, <2>2, <2>4 DEF Chosen
  <1> QED
    BY <1>1, <1>2

\* Rows and indexes are nothing to the tracker, and a lost chat returns nothing.
LEMMA EnvTrackedInv ==
    ASSUME TypeInv, TrackedInv, EnvStep
    PROVE  TrackedInv'
  <1>1. UNCHANGED <<shown, sess, excluded, scored, wiki, hits>>
    BY EnvEffect
  <1>2. \A c \in Chat : pc'[c] = pc[c] \/ pc'[c] = "lost"
    BY EnvEffect
  <1>4. Excludes' /\ Avoids'
    BY <1>1, <1>2 DEF TrackedInv, Excludes, Avoids, Chosen, Elements
  <1>5. Unrecorded' /\ Recorded'
    BY <1>1, <1>2 DEF TrackedInv, Unrecorded, Recorded, Elements
  <1>6. NoRepeat'
    BY <1>1, <1>2 DEF TrackedInv, NoRepeat, Elements
  <1> QED
    BY <1>4, <1>5, <1>6 DEF TrackedInv

\* One chat's step, with the others of its session not under way.
LEMMA ChatTrackedInv ==
    ASSUME TypeInv, TrackedInv, Apart, Tracked, NEW c \in Chat, ChatStep(c)
    PROVE  TrackedInv'
  <1> DEFINE others == \A d \in Chat : d # c =>
                /\ pc'[d] = pc[d] /\ sess'[d] = sess[d] /\ excluded'[d] = excluded[d]
                /\ scored'[d] = scored[d] /\ wiki'[d] = wiki[d] /\ hits'[d] = hits[d]
  <1>1. others
    BY OthersKeep
  <1>2. \/ UNCHANGED shown
        \/ /\ pc[c] = "mark" /\ pc'[c] = "store" /\ sess'[c] = sess[c]
           /\ hits'[c] = hits[c]
           /\ shown' = shown \cup ({sess[c]} \X {d.id : d \in Elements(hits[c])})
    BY ChatEffect DEF Mark, Tracked, Goto, TypeInv, ChatsOK
  <1>3. ASSUME NEW d \in Chat, d # c, Busy(d), NEW row \in shown', row[1] = sess[d]
        PROVE  row \in shown
    <2>1. ASSUME pc[c] = "mark" PROVE sess[c] # sess[d]
      BY <1>3, <2>1, NoSessionAssumption DEF Apart, Busy, Ended, TypeInv, RoundsOK
    <2> QED
      BY <1>2, <1>3, <2>1
  <1>5. Excludes'
    <2>1. ASSUME NEW d \in Chat, d # c, pc[d] \in {"score", "wiki", "fetch"},
                 NEW row \in shown', row[1] = sess[d]
          PROVE  row[2] \in excluded[d]
      <3>1. Busy(d)
        BY <2>1 DEF Busy, Ended
      <3> QED
        BY <1>3, <2>1, <3>1 DEF TrackedInv, Excludes
    <2>2. ASSUME pc'[c] \in {"score", "wiki", "fetch"}, NEW row \in shown', row[1] = sess'[c]
          PROVE  row[2] \in excluded'[c]
      <3>1. row \in shown
        BY <1>2, <2>2
      <3>2. CASE pc[c] = "exclude"
        <4>1. /\ sess'[c] = sess[c]
              /\ excluded'[c] = {r[2] : r \in {q \in shown : q[1] = sess[c]}}
          BY <3>2, OwnStep
        <4> QED
          BY <2>2, <3>1, <4>1
      <3>3. CASE pc[c] # "exclude"
        BY <2>2, <3>1, <3>3, OwnStep DEF TrackedInv, Excludes
      <3> QED
        BY <3>2, <3>3
    <2> QED
      BY <1>1, <2>1, <2>2 DEF Excludes
  <1>6. Avoids'
    <2>1. ASSUME pc'[c] \in {"wiki", "fetch"}
          PROVE  (Elements(scored'[c]) \cup Elements(wiki'[c])) \cap excluded'[c] = {}
      BY <2>1, OwnStep, ChoosingAvoids DEF TrackedInv
    <2>2. ASSUME NEW d \in Chat, d # c, pc[d] \in {"wiki", "fetch"}
          PROVE  (Elements(scored[d]) \cup Elements(wiki[d])) \cap excluded[d] = {}
      BY <2>2 DEF TrackedInv, Avoids, Chosen
    <2>3. \A d \in Chat : pc'[d] \in {"wiki", "fetch"} =>
            (Elements(scored'[d]) \cup Elements(wiki'[d])) \cap excluded'[d] = {}
      BY <1>1, <2>1, <2>2
    <2> QED
      BY <2>3 DEF Avoids, Chosen, Elements
  <1>7. Unrecorded'
    <2>1. ASSUME pc'[c] = "mark", NEW x \in Elements(hits'[c])
          PROVE  <<sess'[c], x.id>> \notin shown'
      <3>1. pc[c] = "fetch" /\ sess'[c] = sess[c] /\ x.id \in Chosen(c)
        BY <2>1, OwnStep
      <3>2. UNCHANGED shown
        BY <1>2, <2>1
      <3>3. x.id \notin excluded[c]
        BY <3>1 DEF TrackedInv, Avoids
      <3> QED
        BY <3>1, <3>2, <3>3 DEF TrackedInv, Excludes
    <2>2. ASSUME NEW d \in Chat, d # c, pc[d] = "mark", NEW x \in Elements(hits[d])
          PROVE  <<sess[d], x.id>> \notin shown'
      <3>1. Busy(d)
        BY <2>2 DEF Busy, Ended
      <3> QED
        BY <1>3, <2>2, <3>1 DEF TrackedInv, Unrecorded
    <2>3. \A d \in Chat : pc'[d] = "mark" =>
            \A x \in Elements(hits'[d]) : <<sess'[d], x.id>> \notin shown'
      BY <1>1, <2>1, <2>2
    <2> QED
      BY <2>3 DEF Unrecorded, Elements
  <1>8. Recorded'
    <2>1. shown \subseteq shown'
      BY <1>2
    <2>2. ASSUME pc'[c] \in {"store", "answered"}, sess'[c] # NoSession,
                 NEW x \in Elements(hits'[c])
          PROVE  <<sess'[c], x.id>> \in shown'
      <3>1. CASE pc[c] = "fetch"
        <4>1. x.id \in Chosen(c) /\ (Chosen(c) = {} \/ sess[c] = NoSession)
              /\ sess'[c] = sess[c]
          BY <2>2, <3>1, OwnStep
        <4> QED
          BY <2>2, <4>1
      <3>2. CASE pc[c] = "mark"
        BY <2>2, <3>2, OwnStep
      <3>3. CASE pc[c] = "store"
        BY <2>1, <2>2, <3>3, OwnStep DEF TrackedInv, Recorded
      <3> QED
        BY <2>2, <3>1, <3>2, <3>3, OwnStep
    <2>3. ASSUME NEW d \in Chat, d # c, pc[d] \in {"store", "answered"},
                 sess[d] # NoSession, NEW x \in Elements(hits[d])
          PROVE  <<sess[d], x.id>> \in shown'
      BY <2>1, <2>3 DEF TrackedInv, Recorded
    <2>4. \A d \in Chat : pc'[d] \in {"store", "answered"} /\ sess'[d] # NoSession =>
            \A x \in Elements(hits'[d]) : <<sess'[d], x.id>> \in shown'
      BY <1>1, <2>2, <2>3
    <2> QED
      BY <2>4 DEF Recorded, Elements
  <1>9. NoRepeat'
    <2>1. ASSUME pc'[c] \in {"store", "answered"}, sess'[c] # NoSession,
                 NEW d \in Chat, d # c, pc[d] \in {"store", "answered"}, sess[d] = sess'[c],
                 NEW x \in Elements(hits'[c]), NEW y \in Elements(hits[d])
          PROVE  x.id # y.id
      <3>1. CASE pc[c] = "fetch"
        BY <2>1, <3>1, OwnStep
      <3>2. CASE pc[c] = "mark"
        <4>1. sess'[c] = sess[c] /\ hits'[c] = hits[c]
          BY <3>2, OwnStep
        <4>2. <<sess[c], x.id>> \notin shown
          BY <3>2, <4>1 DEF TrackedInv, Unrecorded
        <4>3. <<sess[d], y.id>> \in shown
          BY <2>1 DEF TrackedInv, Recorded
        <4> QED
          BY <2>1, <4>1, <4>2, <4>3
      <3>3. CASE pc[c] = "store"
        BY <2>1, <3>3, OwnStep DEF TrackedInv, NoRepeat
      <3> QED
        BY <2>1, <3>1, <3>2, <3>3, OwnStep
    <2>2. ASSUME NEW d \in Chat, NEW e \in Chat, d # e,
                 pc'[d] \in {"store", "answered"}, pc'[e] \in {"store", "answered"},
                 sess'[d] = sess'[e], sess'[d] # NoSession,
                 NEW x \in Elements(hits'[d]), NEW y \in Elements(hits'[e])
          PROVE  x.id # y.id
      <3>1. CASE d = c
        BY <1>1, <2>1, <2>2, <3>1
      <3>2. CASE e = c
        BY <1>1, <2>1, <2>2, <3>2
      <3>3. CASE d # c /\ e # c
        BY <1>1, <2>2, <3>3 DEF TrackedInv, NoRepeat
      <3> QED
        BY <3>1, <3>2, <3>3
    <2> QED
      BY <2>2 DEF NoRepeat, Elements
  <1> QED
    BY <1>5, <1>6, <1>7, <1>8, <1>9 DEF TrackedInv

\* Every step, and a stuttering one, keeps the invariant.
LEMMA NextTrackedInv ==
    ASSUME TypeInv, TrackedInv, Apart, Tracked, [Next]_vars
    PROVE  TrackedInv'
  <1>1. CASE EnvStep
    BY <1>1, EnvTrackedInv
  <1>2. CASE \E c \in Chat : ChatStep(c)
    BY <1>2, ChatTrackedInv
  <1>3. CASE UNCHANGED vars
    BY <1>3
       DEF vars, chatVars, TrackedInv, Excludes, Avoids, Chosen, Unrecorded,
           Recorded, NoRepeat, Elements
  <1> QED
    BY <1>1, <1>2, <1>3 DEF Next, EnvStep, ChatStep

-----------------------------------------------------------------------------
(* The theorems *)

\* Every variable keeps its type, ids of the tracker and of the indexes are ids that
\* have been given, and at most topKDistilled distillations are chosen by score.
THEOREM TypeCorrect == Spec => []TypeOK
  <1>1. TypeInv => TypeOK
    BY DEF TypeInv, RowsOK, ChatsOK, TypeOK, Ids
  <1> QED
    BY <1>1, InitTypeInv, NextTypeInv, PTL DEF Spec

\* tieredRetrieve returns no distillation twice in one answer, whatever is inserted,
\* deleted and reindexed between its steps.
THEOREM NothingTwiceInAnAnswer == Spec => []AnswerWithoutDuplicates
  <1>1. OnceEach => AnswerWithoutDuplicates
    BY DEF OnceEach, AnswerWithoutDuplicates
  <1>2. TypeInv /\ OnceEach /\ [Next]_vars => TypeInv' /\ OnceEach'
    BY NextTypeInv, NextOnceEach
  <1> QED
    BY <1>1, <1>2, InitTypeInv, InitOnceEach, PTL DEF Spec

\* A stored distillation the tracker excludes is one that a chat of the session
\* fetched: AUTOINCREMENT gives no id of a deleted row again.
THEOREM ExcludedWasSeen == Spec => []ExclusionMeansSeen
  <1>1. Init => MarkedWereFetched
    BY DEF Init, MarkedWereFetched
  <1>2. TypeInv /\ MarkedWereFetched => ExclusionMeansSeen
    <2> SUFFICES ASSUME TypeInv, MarkedWereFetched, NEW row \in shown,
                        NEW d \in distillations, d.id = row[2]
                 PROVE  \E c \in Chat : sess[c] = row[1] /\ d \in Elements(hits[c])
      BY DEF ExclusionMeansSeen
    <2>1. PICK c \in Chat : sess[c] = row[1] /\ \E x \in Elements(hits[c]) : x.id = row[2]
      BY DEF MarkedWereFetched
    <2>2. PICK x \in Elements(hits[c]) : x.id = row[2]
      BY <2>1
    <2>3. d = x
      BY <2>2 DEF TypeInv, Genuine
    <2> QED
      BY <2>1, <2>2, <2>3
  <1>3. TypeInv /\ MarkedWereFetched /\ [Next]_vars => TypeInv' /\ MarkedWereFetched'
    BY NextTypeInv, NextMarkedWereFetched
  <1> QED
    BY <1>1, <1>2, <1>3, InitTypeInv, PTL DEF Spec

\* "Previously returned distillation IDs (within the same session) are excluded"
\* (retrieval.go): while no two chats of a session are under way and the calls to the
\* tracker succeed, no two answers of a session share a distillation.  So it is chats
\* that overlap, and nothing else, that repeat one in the run where NeverRepeated is
\* violated.
THEOREM OnlyOverlapRepeats ==
    ASSUME Tracked
    PROVE  Spec /\ []Apart => []NeverRepeated
  <1>1. TrackedInv => NeverRepeated
    BY DEF TrackedInv, NoRepeat, NeverRepeated
  <1>2. TypeInv /\ TrackedInv /\ Apart /\ [Next]_vars => TypeInv' /\ TrackedInv'
    BY NextTypeInv, NextTrackedInv
  <1> QED
    BY <1>1, <1>2, InitTypeInv, InitTrackedInv, PTL DEF Spec

\* Chats that wait for one another are not under way together.
LEMMA OneAtATimeIsApart ==
    ASSUME OneAtATime
    PROVE  Spec => []Apart
  <1>1. Init => Apart
    BY DEF Init, Apart, Busy, Ended
  <1>2. TypeInv /\ Apart /\ [Next]_vars => Apart'
    <2> SUFFICES ASSUME TypeInv, Apart, [Next]_vars PROVE Apart'
      OBVIOUS
    <2>1. CASE UNCHANGED vars
      BY <2>1 DEF vars, chatVars, Apart, Busy
    <2>2. CASE EnvStep
      <3>1. UNCHANGED sess /\ \A c \in Chat : pc'[c] = pc[c] \/ pc'[c] = "lost"
        BY <2>2, EnvEffect
      <3> QED
        BY <3>1 DEF Apart, Busy, Ended
    <2>3. ASSUME NEW c \in Chat, ChatStep(c) PROVE Apart'
      <3>1. \A d \in Chat : d # c => pc'[d] = pc[d] /\ sess'[d] = sess[d]
        BY <2>3, OthersKeep
      <3>2. CASE Ask(c)
        <4>1. \A d \in Chat : Busy(d) => sess[d] # sess'[c]
          BY <3>2, AskEffect DEF TypeInv, ChatsOK
        <4> QED
          BY <3>1, <4>1 DEF Apart, Busy
      <3>3. CASE ~Ask(c)
        <4>1. Busy(c) /\ UNCHANGED sess
          BY <2>3, <3>3 DEF ChatStep, LoadExclusions, TakeScored, AddWiki, Fetch, Mark, Answer,
                            Fail, Busy, Ended
        <4> QED
          BY <3>1, <4>1 DEF Apart, Busy
      <3> QED
        BY <3>2, <3>3
    <2> QED
      BY <2>1, <2>2, <2>3 DEF Next, EnvStep, ChatStep
  <1> QED
    BY <1>1, <1>2, InitTypeInv, NextTypeInv, PTL DEF Spec

\* The same for a user who reads each answer before the next prompt.
THEOREM NeverReturnedAgain ==
    ASSUME OneAtATime, Tracked
    PROVE  Spec => []NeverRepeated
  BY OnlyOverlapRepeats, OneAtATimeIsApart, PTL

\* "Returned in this session" (tracker.go): a chat that fails when its prompt is
\* stored is the only way to a mark without an answer, whatever chats overlap and
\* whatever else fails.
THEOREM OnlyFailedStoresMarkUnreturned ==
    ASSUME "store" \notin Failing
    PROVE  Spec => []MarkedWereReturned
  <1>1. Init => MarkedWereReturned
    BY DEF Init, MarkedWereReturned
  <1>2. TypeInv /\ MarkedWereReturned /\ [Next]_vars => MarkedWereReturned'
    BY NextMarkedWereReturned
  <1> QED
    BY <1>1, <1>2, InitTypeInv, NextTypeInv, PTL DEF Spec
================================================================================
