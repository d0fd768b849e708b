---------------------------- MODULE MCMemoryIndex ----------------------------
(* Small instances of MemoryIndex: a service and, where databases are shared,  *)
(* a command line run beside it.                                               *)
EXTENDS MemoryIndex, TLC

CONSTANTS serve, cli, r1, r2, r3

\* Two calls served by the service and one made by the command line run.
SharedHost == (r1 :> serve) @@ (r2 :> serve) @@ (r3 :> cli)

\* Every call goes to the one service.
OneHost == [r \in Request |-> serve]

Symmetry == Permutations({r1, r2})
==============================================================================
