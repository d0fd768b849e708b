------------------------------ MODULE MemoryLog ------------------------------
(***************************************************************************)
(* What the memory store and its in-memory retrieval index promise to the  *)
(* rest of the program, without saying how: memories are appended to one   *)
(* durable log, and every running process can search a part of that log    *)
(* which it only ever replaces by everything searchable that is stored.    *)
(* MemoryIndex shows that Ingest, Chat, Open and Refresh implement this.   *)
(***************************************************************************)
EXTENDS Integers, Sequences

CONSTANTS
    Process,    \* operating system processes running the orchestrator
    Key         \* semantic keys (l0 ids)

VARIABLES
    log,        \* memory.db: a sequence of [turn, keys], the id is the position
    online,     \* the processes that serve requests
    visible     \* [Process -> the ids of the memories it can find]

vars == <<log, online, visible>>

Memory == [turn : Nat, keys : SUBSET Key]

\* A memory whose text embeds to no key is in nobody's reach: it has no row in
\* memory_semkeys, so no query ever names it.
Searchable == {i \in 1..Len(log) : log[i].keys # {}}

Init ==
    /\ log = << >>
    /\ online = {}
    /\ visible = [p \in Process |-> {}]

AppendMemory ==
    /\ online # {}
    /\ log' \in Seq(Memory)
    /\ Len(log') = Len(log) + 1
    /\ \A i \in 1..Len(log) : log'[i] = log[i]
    /\ UNCHANGED <<online, visible>>

Publish(p) ==
    /\ p \in online
    /\ visible' = [visible EXCEPT ![p] = Searchable]
    /\ UNCHANGED <<log, online>>

GoOnline(p) ==
    /\ p \notin online
    /\ online' = online \cup {p}
    /\ visible' = [visible EXCEPT ![p] = Searchable]
    /\ UNCHANGED log

GoOffline(p) ==
    /\ p \in online
    /\ online' = online \ {p}
    /\ visible' = [visible EXCEPT ![p] = {}]
    /\ UNCHANGED log

Next ==
    \/ AppendMemory
    \/ \E p \in Process : Publish(p) \/ GoOnline(p) \/ GoOffline(p)

Spec == Init /\ [][Next]_vars
==============================================================================
