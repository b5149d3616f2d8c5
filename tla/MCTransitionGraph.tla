-------------------------- MODULE MCTransitionGraph --------------------------
(* Small instances of TransitionGraph for TLC. *)
EXTENDS TransitionGraph

CONSTANTS n1, n2, n3, none

MCThreeNodes == {n1, n2, n3}

Act(type, task, node, priority, inputs) ==
  [type |-> type, task |-> task, node |-> node, target |-> node,
   router |-> none, priority |-> priority, inputs |-> inputs,
   noWait |-> FALSE, onFailIgnore |-> FALSE]

Rsc(node, priority, inputs) == Act("rsc", "op", node, priority, inputs)
Pseudo(priority, inputs) == Act("pseudo", "op", n1, priority, inputs)
Fence(node, inputs) == Act("fence", "stonith", node, 0, inputs)

(* Fencing of n2 next to an action on it; a pseudo-action of priority      *)
(* INFINITY (a clone's "stopped" event) that may follow a failure of that, *)
(* and a cluster action of the same priority after both.                   *)
Recovery ==
  << Fence(n2, {}),
     Rsc(n2, 0, {}),
     Pseudo(INFINITY, {2}),
     Act("cluster", "op", n2, INFINITY, {1, 3}) >>

(* Migrations in both directions between n2 and n3 next to other actions.  *)
Migrate(from, to, inputs) ==
  [Rsc(from, 0, inputs) EXCEPT !.task = "migrate", !.target = to]

Moves ==
  << Rsc(n2, 0, {}),
     Migrate(n2, n3, {}),
     Migrate(n3, n2, {}),
     Pseudo(0, {}),
     Rsc(n3, 0, {4}) >>

MCLimitGraphs == {Moves}

(* The less common kinds of action: a cancel, an action that the DC itself *)
(* executes, at a priority that a failure of the others does not abort,    *)
(* and whose own failure is ignored, one routed through n2 to the          *)
(* remote node n3, the shutdown of n2 and then of the DC, for which nobody *)
(* waits.                                                                  *)
Cancel(node, inputs) == [Rsc(node, 0, inputs) EXCEPT !.task = "cancel"]
Shutdown(node, inputs) ==
  [Act("cluster", "do_shutdown", node, 0, inputs) EXCEPT !.noWait = TRUE]

Mixed ==
  << [Rsc(n3, 0, {}) EXCEPT !.router = n2],
     Cancel(n2, {}),
     [Rsc(n1, 5, {1, 2}) EXCEPT !.onFailIgnore = TRUE],
     Shutdown(n2, {3}),
     Shutdown(n1, {4}) >>

MCCoreGraphs == {Recovery, Mixed}
==============================================================================
