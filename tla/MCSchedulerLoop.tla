---------------------------- MODULE MCSchedulerLoop ----------------------------
(* Small instances of SchedulerLoop for TLC. *)
EXTENDS SchedulerLoop

(* Changes meet a join, an election and an update of the controller. *)
Busy ==
  [delayed |-> FALSE, changes |-> 2, joins |-> 1, elections |-> 1, updates |-> 1,
   rechecks |-> 0, late |-> 0, failures |-> 0, losses |-> 0]

(* The same with transition-delay. *)
Delayed == [Busy EXCEPT !.delayed = TRUE]

(* Changes come one after the other, and a late result after the graph. *)
Changing == [Busy EXCEPT !.changes = 3, !.elections = 0, !.late = 1]

(* Nodes join one after the other, and the recheck timer pops. *)
Rejoining ==
  [Busy EXCEPT !.changes = 1, !.joins = 2, !.rechecks = 1, !.updates = 0]

(* The scheduler crashes, a CIB query fails, and the scheduler may not come *)
(* back while nodes join.                                                  *)
Crashing == [Busy EXCEPT !.elections = 0, !.failures = 1, !.losses = 1]

(* The scheduler crashes while changes and a late result come: the DC may  *)
(* pass through S_IDLE with a graph running.                               *)
Losing == [Changing EXCEPT !.joins = 0, !.updates = 0, !.losses = 1]

MCScenarios == {Busy, Delayed, Changing, Rejoining, Crashing, Losing}
================================================================================
