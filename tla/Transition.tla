----------------------------- MODULE Transition ------------------------------
(***************************************************************************)
(* What the transition engine promises the rest of the controller.         *)
(* Transitions do not overlap.  Within one, an action is started at most   *)
(* once, and only when every action it depends on has ended (answered,     *)
(* timed out or given up).  A transition is not reported as over while an  *)
(* action that it started is outstanding.                                  *)
(***************************************************************************)
EXTENDS Naturals

CONSTANTS
  Plans,   \* functions from the actions of a plan to what each depends on
  Limit    \* bound: transitions started

VARIABLES
  number,  \* transitions started so far
  plan,    \* the current plan
  open,    \* a transition is under way
  started, \* actions of it that were started
  ended    \* actions of it that have ended or were given up

tvars == <<number, plan, open, started, ended>>

TInit ==
  /\ number = 0 /\ plan = <<>> /\ open = FALSE
  /\ started = {} /\ ended = {}

Begin(p) ==
  /\ ~open /\ number < Limit
  /\ number' = number + 1
  /\ plan' = p
  /\ open' = TRUE
  /\ started' = {} /\ ended' = {}

(* An action may end in the same step, e.g. one nobody waits for. *)
Start(a) ==
  /\ open /\ a \in DOMAIN plan \ started
  /\ plan[a] \subseteq ended
  /\ started' = started \cup {a}
  /\ ended' \in {ended, ended \cup {a}}
  /\ UNCHANGED <<number, plan, open>>

(* Actions end; those not started are given up. *)
End(A) ==
  /\ A \subseteq DOMAIN plan
  /\ ended' = ended \cup A
  /\ UNCHANGED <<number, plan, open, started>>

Finish ==
  /\ open /\ started \subseteq ended
  /\ open' = FALSE
  /\ UNCHANGED <<number, plan, started, ended>>

TNext ==
  \/ \E p \in Plans : Begin(p)
  \/ \E a \in DOMAIN plan : Start(a)
  \/ \E A \in SUBSET DOMAIN plan : End(A)
  \/ Finish

TSpec == TInit /\ [][TNext]_tvars
==============================================================================
