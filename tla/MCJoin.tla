--------------------------------- MODULE MCJoin ---------------------------------
(* Two and three controllers, in the scenarios of which each adds something to
   the next one: nodes start, crash, are partitioned and merge; controllers die;
   timers pop early; calls of the CIB manager fail. *)
EXTENDS Join, TLC

CONSTANTS n1, n2, n3

Trio == {n1, n2, n3}
Duo == {n1, n2}
MCRank == (n1 :> 1) @@ (n2 :> 2) @@ (n3 :> 3)
Same == [n \in Trio |-> 1]

(* Nothing happens: the cluster is down. *)
Down ==
  [cluster |-> Duo, booted |-> {}, generations |-> [n \in Node |-> 1], batch |-> FALSE,
   crashes |-> 0, deaths |-> 0, starts |-> 0, splits |-> 0, merges |-> 0, early |-> 0,
   hurry |-> 0, failures |-> 0, changes |-> 0]

Old(n) == [m \in Node |-> IF m = n THEN 0 ELSE 1]
New(n) == [m \in Node |-> IF m = n THEN 1 ELSE 0]

(* The CIB of one of the two nodes is behind that of the other. *)
OneOld(s) == {[s EXCEPT !.generations = Old(n)] : n \in Duo}

(* Both nodes start, at the same time or one after the other. *)
Startup == OneOld([Down EXCEPT !.starts = 2, !.hurry = 2])

(* A node joins another; one of them crashes, maybe during the join, or    *)
(* both have joined and the CIB changes, ...                               *)
OneIsUp == [Down EXCEPT !.booted = {n1}, !.starts = 1]
Crashes == OneOld([OneIsUp EXCEPT !.crashes = 1, !.hurry = 1])
           \cup OneOld([OneIsUp EXCEPT !.crashes = 1, !.changes = 1])

(* ... a controller dies, ...                                              *)
Deaths == OneOld([OneIsUp EXCEPT !.deaths = 1])
          \cup OneOld([OneIsUp EXCEPT !.deaths = 1, !.batch = TRUE])

(* ... a call fails or a timer pops too early.                             *)
Failures == OneOld([OneIsUp EXCEPT !.failures = 1])
            \cup OneOld([OneIsUp EXCEPT !.early = 1])

(* The network splits and heals. *)
Splits == OneOld([OneIsUp EXCEPT !.splits = 1])
          \cup {[Down EXCEPT !.booted = Duo, !.splits = 1, !.merges = 1]}

(* Three nodes *)
Three == [Down EXCEPT !.cluster = Trio]
Trios ==
  {[Three EXCEPT !.booted = {n1}, !.starts = 2],
   [Three EXCEPT !.booted = {n1}, !.starts = 1, !.generations = New(n3), !.batch = TRUE],
   [Three EXCEPT !.booted = Duo, !.starts = 1, !.crashes = 1, !.generations = Old(n3)],
   [Three EXCEPT !.booted = Duo, !.starts = 1, !.splits = 1],
   [Three EXCEPT !.booted = Trio, !.crashes = 1, !.hurry = 1]}

MCScenarios ==
  Startup \cup Crashes \cup Deaths \cup Failures \cup Splits \cup Trios
=============================================================================
