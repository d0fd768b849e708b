------------------------ MODULE MCSessionDistillation ------------------------
(* Small instances of SessionDistillation. *)
EXTENDS SessionDistillation, TLC

CONSTANTS w1, w2, w3, t1, k1

\* Calls spawned by the service only, and the same with command line passes.
AllAuto == [w \in Worker |-> "auto"]
LastForced == [w \in Worker |-> IF w = w3 THEN "force" ELSE "auto"]
PassesAndForced == [w \in Worker |-> IF w = w3 THEN "force" ELSE "pass"]
AllPasses == [w \in Worker |-> "pass"]

Snippets == 1..MaxMemories

\* The first fact is about an entity, the others are not.
FirstNamed == [i \in Snippets |-> IF i = 1 THEN t1 ELSE NoToken]
NoneNamed == [i \in Snippets |-> NoToken]
Symmetry == Permutations(Worker) \cup Permutations(Session)

OneKey == [i \in Snippets |-> {k1}]
==============================================================================
