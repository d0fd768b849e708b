--------------------------- MODULE MCOpenClawImport ---------------------------
(* A small instance of OpenClawImport. *)
EXTENDS OpenClawImport, TLC

CONSTANTS a, b

\* A sound file, and one that may come to hold a line nobody can read.
TwoFiles == (a :> <<"turn", "turn">>) @@ (b :> <<"turn", "other", "long">>)

\* Everything that can fail does for the second file.
SecondFails == (a :> {}) @@ (b :> Calls)
==============================================================================
