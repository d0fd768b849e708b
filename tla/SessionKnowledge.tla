--------------------------- MODULE SessionKnowledge ---------------------------
(***************************************************************************)
(* What the distillation of sessions promises of what it knows, without    *)
(* saying how: the facts known of a session are facts of its own memories  *)
(* and only ever become more, except where a rewriting of the session      *)
(* breaks; a rewriting is begun only when the session has a memory above   *)
(* its watermark, and the watermark goes up only when it is completed, so  *)
(* that what is lost on the way is due to be distilled again.              *)
(* SessionDistillation shows which calls of distillOneSession keep this.   *)
(***************************************************************************)
EXTENDS Integers, Sequences

CONSTANTS
    Session     \* session ids

VARIABLES
    log,        \* the sessions the memories belong to; every memory states one fact
    mark,       \* [Session -> watermark]
    known,      \* [Session -> facts known of it: stored, or in the hands of the
                \* call that rewrites it]
    open        \* the sessions being rewritten

vars == <<log, mark, known, open>>

FactsOf(s) == {i \in 1..Len(log) : log[i] = s}
Fresh(s) == {i \in FactsOf(s) : i > mark[s]}

Init ==
    /\ log = << >>
    /\ mark = [s \in Session |-> 0]
    /\ known = [s \in Session |-> {}]
    /\ open = {}

Remember(s) ==
    /\ log' = Append(log, s)
    /\ UNCHANGED <<mark, known, open>>

\* The old rows are deleted; whoever deleted them knows them, and new facts.
Open(s) ==
    /\ s \notin open /\ Fresh(s) # {}
    /\ open' = open \cup {s}
    /\ \E facts \in SUBSET FactsOf(s) : known' = [known EXCEPT ![s] = @ \cup facts]
    /\ UNCHANGED <<log, mark>>

\* Everything is stored again and the watermark set.
Close(s) ==
    /\ s \in open
    /\ open' = open \ {s}
    /\ \E top \in Fresh(s) : mark' = [mark EXCEPT ![s] = top]
    /\ UNCHANGED <<log, known>>

\* Calls that rewrite sessions end, with all they had in their hands.
Break(S) ==
    /\ S # {} /\ S \subseteq open
    /\ open' = open \ S
    /\ known' \in [Session -> SUBSET (1..Len(log))]
    /\ \A s \in Session : known'[s] \subseteq known[s]
    /\ \A s \in Session \ S : known'[s] = known[s]
    /\ UNCHANGED <<log, mark>>

Next ==
    \/ \E s \in Session : Remember(s) \/ Open(s) \/ Close(s)
    \/ \E S \in SUBSET Session : Break(S)

Spec == Init /\ [][Next]_vars

-----------------------------------------------------------------------------
(* What follows *)

\* What is known of a session are its own facts, and a session being rewritten is
\* due until the rewriting is completed.
Sound ==
    /\ log \in Seq(Session) /\ mark \in [Session -> Nat]
    /\ known \in [Session -> SUBSET (1..Len(log))]
    /\ \A s \in Session : known[s] \subseteq FactsOf(s)
    /\ \A s \in Session \cap open : Fresh(s) # {}

\* A step that loses a fact of a session leaves the session due.
LossIsDue == \A s \in Session : known[s] \subseteq known'[s] \/ Fresh(s)' # {}
==============================================================================
