--------------------------- MODULE DistillRetriever ---------------------------
(***************************************************************************)
(* The in-memory index over distillations of the process that serves       *)
(* requests (semcom_distill/retriever.go): two reverse maps, from semantic *)
(* keys and from personal tokens to distillation ids.  They are filled     *)
(* from the tables when the process starts and replaced by Rebuild, which  *)
(* scans the two tables one after the other without a lock and swaps the   *)
(* result in under one.                                                    *)
(***************************************************************************)
EXTENDS DistillStore, FiniteSets

VARIABLES
    l0Index,        \* set of <<key, distillation id>>
    personalIndex   \* set of <<token, distillation id>>

retrieverVars == <<l0Index, personalIndex>>

RetrieverTypeOK ==
    /\ l0Index \subseteq Key \X (1..nextID - 1)
    /\ personalIndex \subseteq Token \X (1..nextID - 1)

InitRetriever ==
    /\ l0Index = {}
    /\ personalIndex = {}

NewDistillationRetriever ==
    /\ l0Index' = semkeys
    /\ personalIndex' = TokenRows

\* Mutant of Swap: only the map of semantic keys is replaced.
SwapKeysOnly(newL0, newPersonal) ==
    /\ l0Index' = newL0
    /\ UNCHANGED personalIndex

\* The end of Rebuild: both maps at once.
Swap(newL0, newPersonal) ==
    /\ l0Index' = newL0
    /\ personalIndex' = newPersonal

\* Score of a distillation for a query with these keys and these personal
\* tokens, a token counting as often as it occurs in the query.
Score(id, keys, tokens, weight) ==
    LET hits == {i \in DOMAIN tokens : <<tokens[i], id>> \in personalIndex}
    IN Cardinality({k \in keys : <<k, id>> \in l0Index}) + weight * Cardinality(hits)

\* The ids Query returns: all that share a key or a token with the query and are
\* not excluded.  Their order is by falling score, ties in any order.
Candidates(keys, tokens, exclude) ==
    {row[2] : row \in {r \in l0Index : r[1] \in keys}
                 \cup {r \in personalIndex : \E i \in DOMAIN tokens : tokens[i] = r[1]}}
        \ exclude

\* GetByPersonalID: the ids of the distillations of a token (most recent first).
GetByPersonalID(t) == {row[2] : row \in {r \in personalIndex : r[1] = t}}
==============================================================================
