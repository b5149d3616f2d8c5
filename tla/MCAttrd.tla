------------------------------- MODULE MCAttrd -------------------------------
(***************************************************************************)
(* Instances of Attrd for TLC.                                             *)
(***************************************************************************)
EXTENDS Attrd, TLC

CONSTANTS n1, n2, n3

Nodes == {n1, n2, n3}
Rank == (n1 :> 1) @@ (n2 :> 2) @@ (n3 :> 3)

(* A rolling upgrade: n3 already has a newer feature set. *)
Upgrading == [n \in Node |-> IF n = n3 THEN 2 ELSE 1]

(* Two nodes, or three of which those in booted are up. *)
Pair(booted) ==
  [hosts |-> {n1, n2}, booted |-> booted,
   updates |-> 0, leaves |-> 0, starts |-> 0, early |-> 0, splits |-> 0,
   merges |-> 0]
Trio(booted) == [Pair(booted) EXCEPT !.hosts = Nodes]

(* A cluster starts while a client sets a value. *)
Start == [Pair({}) EXCEPT !.starts = 2, !.updates = 1]

(* A node joins, and the cluster splits and merges. *)
Partition == [Pair({n1}) EXCEPT !.starts = 1, !.splits = 1, !.merges = 1]

(* Three nodes fall apart for good. *)
Divided == [Trio(Nodes) EXCEPT !.splits = 2]

(* Two of three nodes leave. *)
Leave == [Trio(Nodes) EXCEPT !.leaves = 2, !.updates = 1]

MCScenarios ==
  {Start, Leave, Divided, Partition,
   [Partition EXCEPT !.booted = {n1, n2}, !.starts = 0, !.early = 1]}

(* A node leaves while a cluster starts. *)
MCLostWriter == {[Pair({}) EXCEPT !.starts = 2, !.leaves = 1]}
=============================================================================
