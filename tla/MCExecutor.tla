------------------------------ MODULE MCExecutor ------------------------------
(***************************************************************************)
(* Instances of Executor for TLC.                                          *)
(***************************************************************************)
EXTENDS Executor

One(act) == [act |-> act, interval |-> 0, delay |-> FALSE]
Monitor(i) == [act |-> "monitor", interval |-> i, delay |-> FALSE]
Late(a) == [a EXCEPT !.delay = TRUE]

Base == [fencing |-> FALSE, changes |-> FALSE, drop |-> FALSE, asks |-> {}, repeat |-> "cancelled",
         single |-> {"ok"}, recurring |-> {"ok"}, kill |-> {"killed"}, clients |-> {1},
         cancels |-> 0, registrations |-> 0, losses |-> 0, leaves |-> 0]

(* A resource with two recurring monitors, whose processes may not be      *)
(* found when they are killed                                              *)
Agents == [Base EXCEPT !.changes = TRUE, !.asks = {One("stop"), Monitor(1), Monitor(2)},
                       !.kill = {"killed", "gone"}, !.cancels = 1]

(* Monitors are requested again while they exist and are never cancelled. *)
Repeated == [Base EXCEPT !.changes = TRUE, !.asks = {One("start"), Monitor(1), Monitor(2)},
                         !.repeat = "any"]

(* Agents that cannot be started *)
Broken == [Base EXCEPT !.asks = {One("start"), One("stop"), Monitor(1)},
                       !.single = {"ok", "notfound", "failed"}, !.recurring = {"ok", "failed"}, !.cancels = 1]

(* The resource is unregistered and registered again. *)
Refreshed == [Base EXCEPT !.asks = {One("start"), Monitor(1), Monitor(2)}, !.registrations = 2]

(* Start delays *)
Delayed == [Base EXCEPT !.asks = {One("stop"), Late(One("start")), Late(Monitor(1)), Monitor(2)},
                        !.registrations = 1]

(* Recurring actions of a client end with it. *)
Leaving == [Base EXCEPT !.asks = {One("start"), Monitor(1), Monitor(2)}, !.clients = {1, 2},
                        !.drop = TRUE, !.leaves = 1]

(* A fencing resource *)
Fencing == [Base EXCEPT !.fencing = TRUE, !.changes = TRUE, !.repeat = "never", !.cancels = 1,
                        !.asks = {One("start"), One("stop"), Monitor(1), Monitor(2)},
                        !.single = {"ok", "unreachable", "refused"},
                        !.recurring = {"ok", "unreachable", "unsent"}]

(* The fencer is lost, and found again. *)
Losing == [Fencing EXCEPT !.asks = {One("start"), One("stop"), One("monitor")}, !.losses = 2]

MCConfigs == {Agents, Repeated, Broken, Refreshed, Delayed, Leaving, Fencing, Losing}

(* An agent may not be found; monitors are requested again after a stop.   *)
MCMissing == {[Base EXCEPT !.asks = {One("stop"), Monitor(1)}, !.repeat = "stopped",
                           !.single = {"ok", "notfound"}, !.recurring = {"ok", "notfound"}]}
===============================================================================
