----------------------------- MODULE DistillStore -----------------------------
(***************************************************************************)
(* The distillation tables of personal.db (semcom_distill/store.go): rows  *)
(* of distillations, their rows in distillation_semkeys, and the watermark *)
(* of every session in distill_metadata.  Each operator below is one       *)
(* database call, which SQLite runs as one transaction.                    *)
(***************************************************************************)
EXTENDS Integers

CONSTANTS
    Session,        \* session ids, the empty one excluded
    Snippet,        \* what a distillation says
    Key,            \* semantic keys (l0 ids)
    Token,          \* personal tokens
    ForeignKeys     \* whether the connection enforces foreign keys; SQLite does
                    \* not unless asked, and openSharedDB does not ask

ASSUME ForeignKeysAssumption == ForeignKeys \in BOOLEAN

VARIABLES
    distillations,  \* set of rows [id, session, snippet, tokens]
    semkeys,        \* set of <<key, distillation id>>
    nextID,         \* the id AUTOINCREMENT gives the next row: never an old one
    metadata        \* [Session -> watermark, a memory id], 0 for none or ""

storeVars == <<distillations, semkeys, nextID, metadata>>

Distillation ==
    [id : Nat \ {0}, session : Session, snippet : Snippet, tokens : SUBSET Token]

StoreTypeOK ==
    /\ distillations \subseteq Distillation
    /\ semkeys \subseteq Key \X (1..nextID - 1)
    /\ nextID \in Nat \ {0}
    /\ metadata \in [Session -> Nat]

InitStore ==
    /\ distillations = {}
    /\ semkeys = {}
    /\ nextID = 1
    /\ metadata = [s \in Session |-> 0]

OfSession(s) == {d \in distillations : d.session = s}

LiveIDs == {d.id : d \in distillations}

GetSnippetsBySessionID(s) == {d.snippet : d \in OfSession(s)}

\* Mutant of InsertDistillation: the semkeys name the row after this one.
InsertBeforeItsKeys(s, snippet, tokens, keys) ==
    /\ distillations' = distillations \cup
        {[id |-> nextID, session |-> s, snippet |-> snippet, tokens |-> tokens]}
    /\ semkeys' = semkeys \cup (keys \X {nextID + 1})
    /\ nextID' = nextID + 1
    /\ UNCHANGED metadata

\* Mutant of InsertDistillation: ids as SQLite gives them without AUTOINCREMENT.
InsertReusingIDs(s, snippet, tokens, keys) ==
    \E id \in 1..nextID :
        /\ \A d \in distillations : d.id < id
        /\ id = 1 \/ \E d \in distillations : d.id = id - 1
        /\ distillations' = distillations \cup
            {[id |-> id, session |-> s, snippet |-> snippet, tokens |-> tokens]}
        /\ semkeys' = semkeys \cup (keys \X {id})
        /\ nextID' = nextID + 1
        /\ UNCHANGED metadata

\* One transaction: the row and its semkeys.
InsertDistillation(s, snippet, tokens, keys) ==
    /\ distillations' = distillations \cup
        {[id |-> nextID, session |-> s, snippet |-> snippet, tokens |-> tokens]}
    /\ semkeys' = semkeys \cup (keys \X {nextID})
    /\ nextID' = nextID + 1
    /\ UNCHANGED metadata

\* DELETE FROM distillations WHERE session_id = s; the rows of semkeys go with
\* them only through ON DELETE CASCADE.
DeleteDistillationsBySessionID(s) ==
    /\ distillations' = distillations \ OfSession(s)
    /\ semkeys' = IF ForeignKeys
                  THEN {row \in semkeys : \A d \in OfSession(s) : row[2] # d.id}
                  ELSE semkeys
    /\ UNCHANGED <<nextID, metadata>>

SetMetadata(s, mark) ==
    /\ metadata' = [metadata EXCEPT ![s] = mark]
    /\ UNCHANGED <<distillations, semkeys, nextID>>

\* SELECT id, personal_tokens FROM distillations, one pair per token of a row.
TokenRows ==
    {row \in Token \X LiveIDs :
        \E d \in distillations : d.id = row[2] /\ row[1] \in d.tokens}
==============================================================================
