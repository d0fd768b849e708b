----------------------------- MODULE MCEmbedding -----------------------------
(* A small instance of Embedding. *)
EXTENDS Embedding, TLC

CONSTANTS x, y, u

Words3 == (<<x>> :> 11) @@ (<<y>> :> 12) @@ (<<x, y>> :> 13)

\* Two clusters of each level at first; then a clustering where the first one
\* has gone and two others share a member, and one where a member has no row.
First == [words |-> Words3,
          l0 |-> (1 :> {11, 13}) @@ (2 :> {12}),
          l1 |-> (1 :> {1, 2}) @@ (2 :> {2}),
          l2 |-> (1 :> {1}) @@ (2 :> {2}),
          l3 |-> (1 :> {1, 2}) @@ (2 :> {2})]
Sharing == [words |-> Words3,
            l0 |-> (1 :> {11}) @@ (2 :> {11, 12}) @@ (3 :> {13}),
            l1 |-> (2 :> {2, 3}) @@ (3 :> {1, 3}),
            l2 |-> (1 :> {3}) @@ (2 :> {2, 3}),
            l3 |-> (1 :> {1}) @@ (2 :> {2}) @@ (3 :> {1, 2})]
Dangling == [words |-> (<<x>> :> 13) @@ (<<y>> :> 13),
             l0 |-> (2 :> {13}) @@ (3 :> {11, 12}),
             l1 |-> (1 :> {1, 2}) @@ (3 :> {3}),
             l2 |-> (1 :> {1, 2}),
             l3 |-> (1 :> {1}) @@ (2 :> {3})]
Clusterings == {First, Sharing, Dangling}

\* A name within another one, and the other one written with a hyphen.
ThreeNames == {WrittenAs(<<u>>), WrittenAs(<<u, y>>), [words |-> <<u, y>>, spaced |-> FALSE]}
==============================================================================
