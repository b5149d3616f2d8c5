--------------------------- MODULE TransitionGraph ---------------------------
(***************************************************************************)
(* The transition engine of the controller on the Designated Controller    *)
(* (DC): execution of one scheduler graph after another                    *)
(* (lib/pacemaker/pcmk_graph_consumer.c, daemons/controld/controld_te_*.c, *)
(* controld_transition.c, the graph side of controld_fencing.c and the job *)
(* limits of controld_throttle.c).                                         *)
(*                                                                         *)
(* The controller is single threaded.  A pass over the graph               *)
(* (pcmk__execute_graph) is modelled synapse by synapse with a cursor; the *)
(* events that the main loop dispatches wait until cursor = 0.             *)
(*                                                                         *)
(* The scheduler puts exactly one action into each synapse, so a synapse   *)
(* and its action share an index into graph.  The executed flag of the two *)
(* always agrees; their confirmed and failed flags do not, and are kept    *)
(* apart (synConfirmed/actConfirmed, synFailed/actFailed).                 *)
(***************************************************************************)
EXTENDS Integers, Sequences, FiniteSets

CONSTANTS
  Nodes,              \* cluster nodes
  LocalNode,          \* the DC itself
  NoNode,             \* "no router" in an action
  Graphs,             \* the graphs the scheduler may hand over
  MaxTransitions,     \* bound: transitions started
  BatchLimit,         \* batch-limit (0 is "none")
  MigrationLimit,     \* migration-limit (0 or less is "none")
  JobMax,             \* node-action-limit in effect (throttle_job_max)
  Modes,              \* load levels that peers report
  FencingMaxAttempts  \* stonith-max-attempts

INFINITY == 1000000

Types == {"pseudo", "rsc", "cluster", "fence"}
Tasks == {"op", "migrate", "cancel", "do_shutdown", "stonith"}

GraphAction ==
  [type     : Types,
   task     : Tasks,
   node     : Nodes,                \* on_node (fencing target, migration source)
   target   : Nodes,                \* migration target
   router   : Nodes \cup {NoNode},  \* router_node
   priority : 0 .. INFINITY,        \* priority of the synapse
   inputs   : SUBSET (Nat \ {0}),   \* actions that must come first
   noWait   : BOOLEAN,              \* op_no_wait
   onFailIgnore : BOOLEAN]          \* on-fail=ignore

(* Scheduler output: inputs are actions of the same graph, shutdowns are   *)
(* no-wait cluster actions, only resource operations migrate or cancel.    *)
WellFormedGraph(g) ==
  /\ g \in Seq(GraphAction)
  /\ \A a \in DOMAIN g :
       /\ g[a].inputs \subseteq DOMAIN g
       /\ g[a].task = "stonith" <=> g[a].type = "fence"
       /\ g[a].task = "do_shutdown" => g[a].type = "cluster" /\ g[a].noWait
       /\ g[a].task \in {"migrate", "cancel"} => g[a].type = "rsc"

Levels == {"none", "low", "med", "high", "extreme"}

ASSUME NodesAssumption ==
  /\ IsFiniteSet(Nodes)
  /\ LocalNode \in Nodes
  /\ NoNode \notin Nodes

ASSUME GraphsAssumption == \A g \in Graphs : WellFormedGraph(g)

ASSUME LimitsAssumption ==
  /\ MaxTransitions \in Nat
  /\ BatchLimit \in Int
  /\ MigrationLimit \in Int
  /\ JobMax \in Nat
  /\ Modes \subseteq Levels
  /\ FencingMaxAttempts \in Nat \ {0}

VARIABLES
  gid,           \* id of the current transition (0: the blank graph)
  graph,         \* its actions
  complete,      \* graph->complete
  abortPriority, \* graph->abort_priority
  completion,    \* graph->completion_action
  executed,      \* synapses (and their actions) that have been fired
  synConfirmed,  \* pcmk__synapse_confirmed
  synFailed,     \* pcmk__synapse_failed
  actConfirmed,  \* pcmk__graph_action_confirmed
  actFailed,     \* pcmk__graph_action_failed
  inputsDone,    \* <<s, i>>: input copy i of synapse s is confirmed
  timers,        \* actions whose te timer runs
  jobs,          \* te_peer_s.jobs per node
  migrateJobs,   \* te_peer_s.migrate_jobs per node
  mode,          \* throttle_record_s.mode per node
  trigger,       \* the transition trigger is set
  cursor,        \* synapse the running pass is at; 0: no pass runs
  fired,         \* graph->fired of the running pass
  pending,       \* graph->pending of the running pass
  results,       \* <<g, a>>: action a of transition g may still answer
  fenceFails,    \* fencing fail count per target
  raised         \* FSA inputs raised on behalf of the current transition

flags == <<executed, synConfirmed, synFailed, actConfirmed, actFailed,
           inputsDone>>
pass  == <<cursor, fired, pending>>
load  == <<jobs, migrateJobs>>
vars  == <<gid, graph, complete, abortPriority, completion, flags, timers,
           load, mode, trigger, pass, results, fenceFails, raised>>

Ids == DOMAIN graph

-----------------------------------------------------------------------------
(* Helpers *)

Max2(x, y) == IF x >= y THEN x ELSE y

(* enum pcmk__graph_next: "Order matters: lowest priority to highest". *)
Rank(next) ==
  CASE next = "done" -> 0 [] next = "wait" -> 1
    [] next = "restart" -> 2 [] next = "shutdown" -> 3

(* Synapses that are in flight, as pcmk__execute_graph() counts them. *)
InFlight == executed \ (synConfirmed \cup synFailed)

IsMigration(a) == graph[a].task = "migrate"
IsRsc(a) == graph[a].type = "rsc"
Router(a) == IF graph[a].router = NoNode THEN graph[a].node ELSE graph[a].router

(* Nodes whose job count an action is charged to (te_update_job_count).    *)
Charged(a) ==
  IF graph[a].router # NoNode THEN {graph[a].router}
  ELSE IF IsMigration(a) THEN {graph[a].node, graph[a].target}
  ELSE {graph[a].node}

-----------------------------------------------------------------------------
(* Limits (controld_throttle.c, controld_te_actions.c) *)

(* throttle_get_job_limit() *)
JobLimit(n) ==
  CASE mode[n] \in {"extreme", "high"} -> 1
    [] mode[n] = "med"  -> Max2(1, JobMax \div 4)
    [] mode[n] = "low"  -> Max2(1, JobMax \div 2)
    [] mode[n] = "none" -> Max2(1, JobMax)

(* throttle_get_total_job_limit(): the batch limit of one pass. *)
TotalJobLimit ==
  LET peers == Cardinality(Nodes)
      Lower(l, k) == IF l = 0 \/ l > peers \div k
                     THEN Max2(1, peers \div k) ELSE l
      Some(level) == \E n \in Nodes : mode[n] = level
      high == IF Some("high") THEN Lower(BatchLimit, 2) ELSE BatchLimit
  IN  IF Some("extreme") THEN Lower(high, 4) ELSE high

(* graph_action_allowed() and allowed_on_node() *)
Allowed(a) ==
  IsRsc(a) => \A n \in Charged(a) :
                /\ jobs[n] < JobLimit(n)
                /\ MigrationLimit > 0 /\ IsMigration(a)
                     => migrateJobs[n] < MigrationLimit

(* te_update_job_count(); nodes outside Charged(a) keep their count. *)
UpdateJobCount(a, offset) ==
  /\ jobs' = [n \in Nodes |-> IF n \in Charged(a) THEN jobs[n] + offset
                              ELSE jobs[n]]
  /\ migrateJobs' =
       [n \in Nodes |-> IF n \in Charged(a) /\ IsMigration(a)
                           /\ graph[a].router = NoNode
                        THEN migrateJobs[n] + offset ELSE migrateJobs[n]]

-----------------------------------------------------------------------------
(* Updating the graph (pcmk_graph_consumer.c) *)

(* Mutant: a failed input counts for every synapse. *)
UpdateGraph_FailedInput(A, ex, confirmed, failed, synF) ==
  LET inFlight == ex \ (synConfirmed \cup synF)
      waiting  == Ids \ (ex \cup synConfirmed \cup synF)
  IN  /\ actConfirmed' = confirmed \cup (A \cap inFlight)
      /\ synConfirmed' = synConfirmed \cup (inFlight \cap (A \cup confirmed))
      /\ inputsDone' = inputsDone \cup
           {p \in waiting \X A :
              p[2] \in graph[p[1]].inputs}
      /\ executed' = ex
      /\ actFailed' = failed
      /\ synFailed' = synF

(* pcmk__update_graph() for each of the actions A, on the executed, action *)
(* confirmed, action failed and synapse failed flags given.  A synapse in  *)
(* flight is confirmed when its own action is in A or already is confirmed;*)
(* a waiting synapse has its copies of A confirmed, failed ones only if    *)
(* its priority is INFINITY.                                               *)
UpdateGraph(A, ex, confirmed, failed, synF) ==
  LET inFlight == ex \ (synConfirmed \cup synF)
      waiting  == Ids \ (ex \cup synConfirmed \cup synF)
  IN  /\ actConfirmed' = confirmed \cup (A \cap inFlight)
      /\ synConfirmed' = synConfirmed \cup (inFlight \cap (A \cup confirmed))
      /\ inputsDone' = inputsDone \cup
           {p \in waiting \X A :
              /\ p[2] \in graph[p[1]].inputs
              /\ p[2] \notin failed \/ graph[p[1]].priority = INFINITY}
      /\ executed' = ex
      /\ actFailed' = failed
      /\ synFailed' = synF

(* update_abort_priority() *)
UpdateAbortPriority(priority, next) ==
  /\ abortPriority' = Max2(abortPriority, priority)
  /\ completion' = IF Rank(completion) < Rank(next) THEN next ELSE completion

(* abort_transition_graph(), without its trigger: an abort of a finished   *)
(* transition asks for a new scheduler run at once.  (With a transition    *)
(* interval configured a timer asks for it instead.)                       *)
AbortTransition(priority, next) ==
  \/ /\ complete
     /\ raised' = raised \cup {"I_PE_CALC"}
     /\ UNCHANGED <<abortPriority, completion>>
  \/ /\ ~complete
     /\ UpdateAbortPriority(priority, next)
     /\ UNCHANGED raised

NoAbort == UNCHANGED <<abortPriority, completion, raised>>

(* Mutant: a restart is reported as success. *)
NotifyCrmd_RestartIgnored(next) ==
  /\ raised' = raised \cup
       {CASE next \in {"done", "wait", "restart"} -> "I_TE_SUCCESS"
          [] next = "shutdown" -> "I_STOP"}
  /\ completion' = "done"

(* notify_crmd() for the completion action given. *)
NotifyCrmd(next) ==
  /\ raised' = raised \cup
       {CASE next \in {"done", "wait"} -> "I_TE_SUCCESS"
          [] next = "restart"  -> "I_PE_CALC"
          [] next = "shutdown" -> "I_STOP"}
  /\ completion' = "done"

-----------------------------------------------------------------------------
(* Starting a transition *)

Init ==
  /\ gid = 0 /\ graph = <<>> /\ complete = TRUE
  /\ abortPriority = 0 /\ completion = "done"
  /\ executed = {} /\ synConfirmed = {} /\ synFailed = {}
  /\ actConfirmed = {} /\ actFailed = {} /\ inputsDone = {}
  /\ timers = {}
  /\ jobs = [n \in Nodes |-> 0] /\ migrateJobs = [n \in Nodes |-> 0]
  /\ mode = [n \in Nodes |-> "low"]
  /\ trigger = FALSE
  /\ cursor = 0 /\ fired = 0 /\ pending = 0
  /\ results = {}
  /\ fenceFails = [n \in Nodes |-> 0]
  /\ raised = {}

(* Mutant: a graph that arrives during a transition replaces it. *)
StartTransition_WhileActive(g) ==
  /\ cursor = 0
  /\ gid < MaxTransitions
  /\ gid' = gid + 1
  /\ graph' = g
  /\ complete' = FALSE
  /\ abortPriority' = 0 /\ completion' = "done"
  /\ executed' = {} /\ synConfirmed' = {} /\ synFailed' = {}
  /\ actConfirmed' = {} /\ actFailed' = {} /\ inputsDone' = {}
  /\ timers' = {}
  /\ jobs' = [n \in Nodes |-> 0] /\ migrateJobs' = [n \in Nodes |-> 0]
  /\ trigger' = TRUE
  /\ raised' = {}
  /\ results' = {r \in results : r[1] = gid => graph[r[2]].type # "fence"}
  /\ UNCHANGED <<mode, pass, fenceFails>>

(* do_te_invoke() with A_TE_INVOKE: free the old graph (and its timers),   *)
(* unpack the new one, reset the job counts, trigger.  From here on        *)
(* fencing_cb() ignores what the old graph's fencing requests answer.      *)
StartTransition(g) ==
  /\ cursor = 0 /\ complete
  /\ gid < MaxTransitions
  /\ gid' = gid + 1
  /\ graph' = g
  /\ complete' = FALSE
  /\ abortPriority' = 0 /\ completion' = "done"
  /\ executed' = {} /\ synConfirmed' = {} /\ synFailed' = {}
  /\ actConfirmed' = {} /\ actFailed' = {} /\ inputsDone' = {}
  /\ timers' = {}
  /\ jobs' = [n \in Nodes |-> 0] /\ migrateJobs' = [n \in Nodes |-> 0]
  /\ trigger' = TRUE
  /\ raised' = {}
  /\ results' = {r \in results : r[1] = gid => graph[r[2]].type # "fence"}
  /\ UNCHANGED <<mode, pass, fenceFails>>

-----------------------------------------------------------------------------
(* One pass over the graph: te_graph_trigger() and pcmk__execute_graph() *)

(* Mutant: what earlier passes fired is not counted. *)
BeginPass_ForgetPending ==
  /\ cursor = 0 /\ trigger /\ ~complete
  /\ trigger' = FALSE
  /\ cursor' = 1
  /\ fired' = 0
  /\ pending' = 0
  /\ UNCHANGED <<gid, graph, complete, abortPriority, completion, flags,
                 timers, load, mode, results, fenceFails, raised>>

(* The trigger fires for an unfinished graph: count what is in flight.     *)
BeginPass ==
  /\ cursor = 0 /\ trigger /\ ~complete
  /\ trigger' = FALSE
  /\ cursor' = 1
  /\ fired' = 0
  /\ pending' = Cardinality(InFlight)
  /\ UNCHANGED <<gid, graph, complete, abortPriority, completion, flags,
                 timers, load, mode, results, fenceFails, raised>>

(* The trigger fires for a finished graph: the FSA is notified again. *)
RenotifyComplete ==
  /\ cursor = 0 /\ trigger /\ complete
  /\ trigger' = FALSE
  /\ NotifyCrmd(completion)
  /\ UNCHANGED <<gid, graph, complete, abortPriority, flags, timers, load,
                 mode, pass, results, fenceFails>>

InPass == cursor \in Ids
(* Mutant: the batch limit is off by one. *)
BatchLimitReached_OffByOne == TotalJobLimit > 0 /\ pending > TotalJobLimit

BatchLimitReached == TotalJobLimit > 0 /\ pending >= TotalJobLimit

(* Mutant: the abort priority is not looked at. *)
ShouldFire_IgnoreAbort(s) ==
  /\ \A i \in graph[s].inputs : <<s, i>> \in inputsDone
  /\ \/ graph[s].type = "pseudo"
     \/ Allowed(s)

(* should_fire_synapse(): every input copy is confirmed; pseudo-actions    *)
(* are exempt from the abort priority and the limits.                      *)
ShouldFire(s) ==
  /\ \A i \in graph[s].inputs : <<s, i>> \in inputsDone
  /\ \/ graph[s].type = "pseudo"
     \/ graph[s].priority >= abortPriority /\ Allowed(s)

(* The synapse at the cursor is up for firing. *)
Fires(s) ==
  /\ InPass /\ cursor = s
  /\ ~BatchLimitReached
  /\ s \notin synFailed \cup synConfirmed \cup executed
  /\ ShouldFire(s)

(* The batch limit ends the loop early. *)
ThrottlePass ==
  /\ InPass /\ BatchLimitReached
  /\ cursor' = Len(graph) + 1
  /\ UNCHANGED <<gid, graph, complete, abortPriority, completion, flags,
                 timers, load, mode, trigger, fired, pending, results,
                 fenceFails, raised>>

(* The loop goes past a synapse that failed, was handled or cannot fire. *)
SkipSynapse ==
  /\ InPass /\ ~BatchLimitReached
  /\ ~Fires(cursor)
  /\ cursor' = cursor + 1
  /\ UNCHANGED <<gid, graph, complete, abortPriority, completion, flags,
                 timers, load, mode, trigger, fired, pending, results,
                 fenceFails, raised>>

(* The loop's bookkeeping after fire_synapse() succeeded. *)
Fired(waits) ==
  /\ cursor' = cursor + 1
  /\ fired' = fired + 1
  /\ pending' = pending + (IF waits THEN 1 ELSE 0)
  /\ UNCHANGED <<gid, graph, complete, mode, fenceFails>>

(* te_action_confirmed() for the synapse being fired, within the pass. *)
ConfirmFired(s, failed) ==
  /\ UpdateGraph({s}, executed \cup {s}, actConfirmed \cup {s}, failed,
                 synFailed)
  /\ trigger' = TRUE

(* Only the executed flag changes: the action now awaits its result. *)
AwaitResult(s) ==
  /\ executed' = executed \cup {s}
  /\ results' = results \cup {<<gid, s>>}
  /\ UNCHANGED <<synConfirmed, synFailed, actConfirmed, actFailed, inputsDone,
                 trigger>>

(* execute_pseudo_action() *)
FirePseudo(s) ==
  /\ Fires(s) /\ graph[s].type = "pseudo"
  /\ ConfirmFired(s, actFailed)
  /\ Fired(FALSE) /\ NoAbort
  /\ UNCHANGED <<timers, load, results>>

(* Mutant: no action timer is started. *)
FireSent_NoTimer(s) ==
  /\ Fires(s) /\ graph[s].type \in {"rsc", "cluster"}
  /\ ~graph[s].noWait /\ s \notin actConfirmed
  /\ AwaitResult(s)
  /\ timers' = timers
  /\ IF IsRsc(s) THEN UpdateJobCount(s, 1) ELSE UNCHANGED load
  /\ Fired(TRUE) /\ NoAbort

(* execute_rsc_action() or execute_cluster_action(): the request went out, *)
(* the action timer starts, a resource action is charged to its node.      *)
FireSent(s) ==
  /\ Fires(s) /\ graph[s].type \in {"rsc", "cluster"}
  /\ ~graph[s].noWait /\ s \notin actConfirmed
  /\ AwaitResult(s)
  /\ timers' = timers \cup {s}
  /\ IF IsRsc(s) THEN UpdateJobCount(s, 1) ELSE UNCHANGED load
  /\ Fired(TRUE) /\ NoAbort

(* execute_rsc_action(): "was already confirmed": no timer, no job. *)
FireAlreadyConfirmed(s) ==
  /\ Fires(s) /\ IsRsc(s)
  /\ ~graph[s].noWait /\ s \in actConfirmed
  /\ AwaitResult(s)
  /\ Fired(TRUE) /\ NoAbort
  /\ UNCHANGED <<timers, load>>

(* No-wait actions are confirmed once sent; their result may still come. *)
FireNoWait(s) ==
  /\ Fires(s) /\ graph[s].type \in {"rsc", "cluster"}
  /\ graph[s].noWait
  /\ ~(graph[s].task = "do_shutdown" /\ Router(s) = LocalNode)
  /\ ConfirmFired(s, actFailed)
  /\ results' = results \cup {<<gid, s>>}
  /\ Fired(FALSE) /\ NoAbort
  /\ UNCHANGED <<timers, load>>

(* execute_cluster_action() for the DC's own shutdown: deferred until the  *)
(* transition is over.                                                     *)
FireLocalShutdown(s) ==
  /\ Fires(s) /\ graph[s].task = "do_shutdown" /\ Router(s) = LocalNode
  /\ ConfirmFired(s, actFailed)
  /\ completion' = "shutdown"
  /\ Fired(FALSE)
  /\ UNCHANGED <<abortPriority, raised, timers, load, results>>

(* execute_rsc_action() with the DC as executing node: the result of       *)
(* controld_invoke_execd() is acknowledged before the call returns, that   *)
(* is, process_graph_event() confirms the action before it is charged.     *)
FireLocalAck(s, ok) ==
  /\ Fires(s) /\ IsRsc(s) /\ Router(s) = LocalNode
  /\ s \notin actConfirmed
  /\ LET bad == ~ok /\ ~graph[s].onFailIgnore
         failed == IF bad THEN actFailed \cup {s} ELSE actFailed
     IN  /\ ConfirmFired(s, failed)
         /\ IF s \in failed
            THEN AbortTransition(graph[s].priority + 1, "restart")
            ELSE NoAbort
  /\ UpdateJobCount(s, -1)
  /\ Fired(FALSE)
  /\ UNCHANGED <<timers, results>>

(* The request could not be sent (ECOMM): fire_synapse() confirms synapse  *)
(* and action as failed, pcmk__execute_graph() sets the abort priority.    *)
FireSendFailed(s) ==
  /\ Fires(s) /\ graph[s].type \in {"rsc", "cluster"}
  /\ (IsRsc(s) \/ graph[s].task = "do_shutdown") => Router(s) # LocalNode
  /\ executed' = executed \cup {s}
  /\ synConfirmed' = synConfirmed \cup {s}
  /\ actConfirmed' = actConfirmed \cup {s}
  /\ actFailed' = actFailed \cup {s}
  /\ abortPriority' = INFINITY
  /\ cursor' = cursor + 1
  /\ UNCHANGED <<gid, graph, complete, completion, synFailed, inputsDone,
                 timers, load, mode, trigger, fired, pending, results,
                 fenceFails, raised>>

(* controld_execute_fence_action(): the fencer API bounds the wait. *)
FireFence(s) ==
  /\ Fires(s) /\ graph[s].type = "fence"
  /\ AwaitResult(s)
  /\ Fired(TRUE) /\ NoAbort
  /\ UNCHANGED <<timers, load>>

(* End of the loop: finished if nothing is pending and nothing fired.  The *)
(* counters mean nothing until the next pass resets them.                  *)
EndPass ==
  /\ cursor = Len(graph) + 1
  /\ cursor' = 0 /\ fired' = 0 /\ pending' = 0
  /\ \/ /\ pending = 0 /\ fired = 0
        /\ complete' = TRUE
        /\ NotifyCrmd(completion)
     \/ /\ pending # 0 \/ fired # 0
        /\ UNCHANGED <<complete, completion, raised>>
  /\ UNCHANGED <<gid, graph, abortPriority, flags, timers, load, mode,
                 trigger, results, fenceFails>>

-----------------------------------------------------------------------------
(* Events, dispatched between passes *)

Idle == cursor = 0

(* Mutant: the job count is not decremented. *)
TeActionConfirmed_NoRelease(a, failed) ==
  /\ UNCHANGED load
  /\ UpdateGraph({a}, executed, actConfirmed \cup {a}, failed, synFailed)
  /\ trigger' = TRUE

(* Mutant: the graph is not triggered. *)
TeActionConfirmed_NoTrigger(a, failed) ==
  /\ IF IsRsc(a) /\ a \notin actConfirmed
     THEN UpdateJobCount(a, -1) ELSE UNCHANGED load
  /\ UpdateGraph({a}, executed, actConfirmed \cup {a}, failed, synFailed)
  /\ UNCHANGED trigger

(* te_action_confirmed() with the current graph: an unconfirmed resource   *)
(* action is taken off its node's job count.                               *)
TeActionConfirmed(a, failed) ==
  /\ IF IsRsc(a) /\ a \notin actConfirmed
     THEN UpdateJobCount(a, -1) ELSE UNCHANGED load
  /\ UpdateGraph({a}, executed, actConfirmed \cup {a}, failed, synFailed)
  /\ trigger' = TRUE

(* process_graph_event() for the current, unfinished transition. *)
ActionResult(a, ok) ==
  /\ Idle /\ ~complete
  /\ <<gid, a>> \in results /\ graph[a].type # "fence"
  /\ a \notin actConfirmed
  /\ LET bad == ~ok /\ ~graph[a].onFailIgnore
         failed == IF bad THEN actFailed \cup {a} ELSE actFailed
     IN  /\ TeActionConfirmed(a, failed)
         /\ IF a \in failed
            THEN AbortTransition(graph[a].priority + 1, "restart")
            ELSE NoAbort
  /\ timers' = timers \ {a}
  /\ UNCHANGED <<gid, graph, complete, mode, pass, results, fenceFails>>

(* process_graph_event(): the transition is over, or is another one by now.*)
LateResult(g, a) ==
  /\ Idle /\ <<g, a>> \in results
  /\ g = gid => complete /\ graph[a].type # "fence"
  /\ AbortTransition(INFINITY, "restart")
  /\ trigger' = (trigger \/ ~complete)
  /\ results' = results \ {<<g, a>>}
  /\ UNCHANGED <<gid, graph, complete, flags, timers, load, mode, pass,
                 fenceFails>>

(* The answer never comes, or comes again for a confirmed action and is    *)
(* ignored, or is that of a fencing request whose transition is over       *)
(* (fencing_cb): no state of the engine changes.                           *)
ResultLost(g, a) ==
  /\ Idle /\ <<g, a>> \in results
  /\ (g = gid /\ ~complete) => graph[a].type # "fence"
  /\ results' = results \ {<<g, a>>}
  /\ UNCHANGED <<gid, graph, complete, abortPriority, completion, flags,
                 timers, load, mode, trigger, pass, fenceFails, raised>>

(* action_timer_callback(); timers only run in the current transition. *)
ActionTimeout(a) ==
  /\ Idle /\ a \in timers
  /\ timers' = timers \ {a}
  /\ \/ /\ complete
        /\ NoAbort
        /\ UNCHANGED <<flags, load, trigger>>
     \/ /\ ~complete
        /\ TeActionConfirmed(a, actFailed \cup {a})
        /\ AbortTransition(INFINITY, "restart")
  /\ UNCHANGED <<gid, graph, complete, mode, pass, results, fenceFails>>

(* too_many_fencing_failures() on the counts given. *)
TooManyFailures(fails, targets) ==
  \E n \in targets : fails[n] >= FencingMaxAttempts

(* abort_for_fencing_failure(): give up restarting after many failures. *)
AbortForFencingFailure(next, fails, targets) ==
  AbortTransition(INFINITY,
    IF TooManyFailures(fails, targets) THEN "wait" ELSE next)

(* fencing_cb(): fencing of the target succeeded. *)
FenceSucceeded(a) ==
  /\ Idle /\ ~complete
  /\ <<gid, a>> \in results /\ graph[a].type = "fence"
  /\ results' = results \ {<<gid, a>>}
  /\ UpdateGraph({a}, executed, actConfirmed \cup {a}, actFailed, synFailed)
  /\ fenceFails' = [fenceFails EXCEPT ![graph[a].node] = 0]
  /\ trigger' = TRUE
  /\ NoAbort
  /\ UNCHANGED <<gid, graph, complete, timers, load, mode, pass>>

(* fencing_cb(): fencing failed; without a device a retry is pointless.    *)
(* The fail count saturates where it stops mattering.                      *)
FenceFailed(a, noDevice) ==
  /\ Idle /\ ~complete
  /\ <<gid, a>> \in results /\ graph[a].type = "fence"
  /\ results' = results \ {<<gid, a>>}
  /\ LET n == graph[a].node
         fails == [fenceFails EXCEPT ![n] =
                     IF @ < FencingMaxAttempts THEN @ + 1 ELSE @]
     IN  /\ fenceFails' = fails
         /\ AbortForFencingFailure(IF noDevice THEN "wait" ELSE "restart",
                                   fails, {n})
  /\ UpdateGraph({a}, executed, actConfirmed, actFailed \cup {a}, synFailed)
  /\ trigger' = TRUE
  /\ UNCHANGED <<gid, graph, complete, timers, load, mode, pass>>

(* destroy_fencer_connection() and fail_incompletable_fencing(), also for  *)
(* a finished graph.  The callbacks stay registered in the API: a request  *)
(* may still be answered, by its timeout at the latest.                    *)
FencerLost ==
  LET lost == {a \in Ids \ (synConfirmed \cup actConfirmed) :
                 graph[a].type = "fence"}
  IN  /\ Idle
      /\ UpdateGraph(lost, executed, actConfirmed, actFailed \cup lost,
                     synFailed)
      /\ IF lost # {} THEN AbortForFencingFailure("restart", fenceFails, Nodes)
         ELSE NoAbort
      /\ trigger' = TRUE
      /\ UNCHANGED <<gid, graph, complete, timers, load, mode, pass, results,
                     fenceFails>>

(* fail_incompletable_actions(): the actions that the scan looks at. *)
Scanned ==
  {a \in Ids \ (synConfirmed \cup synFailed \cup actConfirmed) :
     graph[a].type \in {"rsc", "cluster"}}

(* router_uuid is declared outside the loop and only assigned when the     *)
(* action has a router, so a value stays for the actions scanned later.    *)
RouterSeen(a) ==
  LET seen == {b \in Scanned : b <= a /\ graph[b].router # NoNode}
  IN  IF seen = {} THEN NoNode
      ELSE graph[CHOOSE b \in seen : \A c \in seen : c <= b].router

Incompletable(n) ==
  {a \in Scanned : graph[a].node = n \/ RouterSeen(a) = n}

FailIncompletable(n) ==
  /\ UpdateGraph(Incompletable(n), executed, actConfirmed,
                 actFailed \cup Incompletable(n),
                 synFailed \cup Incompletable(n))
  /\ timers' = timers \ Incompletable(n)

(* match_down_event(): executed actions that explain the loss of n. *)
DownEvents(n) ==
  {a \in executed : graph[a].task \in {"stonith", "do_shutdown"}
                    /\ graph[a].node = n}

(* peer_update_callback() on the DC: a peer that was fenced or shut down   *)
(* by this graph is gone.                                                  *)
ExpectedNodeLoss(n) ==
  /\ Idle /\ n # LocalNode
  /\ \E down \in DownEvents(n) :
       /\ \A a \in DownEvents(n) : down <= a
       /\ \/ /\ graph[down].task = "stonith"
             /\ UNCHANGED <<flags, trigger>>
          \/ /\ graph[down].task = "do_shutdown"
             /\ UpdateGraph({down}, executed, actConfirmed, actFailed,
                            synFailed)
             /\ trigger' = TRUE
  /\ NoAbort
  /\ UNCHANGED <<gid, graph, complete, timers, load, mode, pass, results,
                 fenceFails>>

(* peer_update_callback() on the DC: an unexpected loss aborts, then fails *)
(* what can no longer be completed.                                        *)
UnexpectedNodeLoss(n) ==
  /\ Idle /\ n # LocalNode /\ DownEvents(n) = {}
  /\ AbortTransition(INFINITY, "restart")
  /\ IF complete THEN UNCHANGED <<flags, timers, trigger>>
     ELSE FailIncompletable(n) /\ trigger' = TRUE
  /\ UNCHANGED <<gid, graph, complete, load, mode, pass, results, fenceFails>>

(* post_cache_update() and reap_dead_nodes(): a membership event for a     *)
(* node that is gone, expected or not.                                     *)
ReapDeadNode(n) ==
  /\ Idle /\ n # LocalNode /\ ~complete /\ Incompletable(n) # {}
  /\ FailIncompletable(n)
  /\ AbortTransition(INFINITY, "restart")
  /\ trigger' = TRUE
  /\ UNCHANGED <<gid, graph, complete, load, mode, pass, results, fenceFails>>

(* process_op_deletion() or a cancelled recurring result: the operation    *)
(* that cancel action a is to cancel is gone (confirm_cancel_action).      *)
(* Neither the executed flag nor the state of the graph is looked at.      *)
OperationGone(a) ==
  /\ Idle /\ a \in Ids /\ graph[a].task = "cancel"
  /\ timers' = timers \ {a}
  /\ TeActionConfirmed(a, actFailed)
  /\ NoAbort
  /\ UNCHANGED <<gid, graph, complete, mode, pass, results, fenceFails>>

(* The remaining aborts: configuration or status changes, foreign or       *)
(* outside events, external fencing, A_TE_CANCEL (all "restart") and       *)
(* A_TE_HALT ("wait").                                                     *)
ExternalAbort(next) ==
  /\ Idle
  /\ AbortTransition(INFINITY, next)
  /\ trigger' = (trigger \/ ~complete)
  /\ UNCHANGED <<gid, graph, complete, flags, timers, load, mode, pass,
                 results, fenceFails>>

(* throttle_update(): a peer reports its load. *)
ThrottleUpdate(n, level) ==
  /\ Idle
  /\ mode' = [mode EXCEPT ![n] = level]
  /\ UNCHANGED <<gid, graph, complete, abortPriority, completion, flags,
                 timers, load, trigger, pass, results, fenceFails, raised>>

-----------------------------------------------------------------------------
FireSynapse(s) ==
  \/ FirePseudo(s) \/ FireSent(s) \/ FireAlreadyConfirmed(s) \/ FireNoWait(s)
  \/ FireLocalShutdown(s) \/ FireFence(s) \/ FireSendFailed(s)
  \/ \E ok \in BOOLEAN : FireLocalAck(s, ok)

Pass ==
  \/ BeginPass \/ RenotifyComplete \/ ThrottlePass \/ SkipSynapse \/ EndPass
  \/ \E s \in Ids : FireSynapse(s)

FenceResult(a) ==
  FenceSucceeded(a) \/ \E noDevice \in BOOLEAN : FenceFailed(a, noDevice)

Event ==
  \/ \E a \in Ids : \/ \E ok \in BOOLEAN : ActionResult(a, ok)
                    \/ ActionTimeout(a)
                    \/ FenceResult(a)
                    \/ OperationGone(a)
  \/ \E r \in results : LateResult(r[1], r[2]) \/ ResultLost(r[1], r[2])
  \/ \E n \in Nodes : \/ ExpectedNodeLoss(n) \/ UnexpectedNodeLoss(n)
                      \/ ReapDeadNode(n)
                      \/ \E level \in Modes : ThrottleUpdate(n, level)
  \/ FencerLost
  \/ \E next \in {"wait", "restart"} : ExternalAbort(next)

Next == Pass \/ Event \/ \E g \in Graphs : StartTransition(g)

Spec == Init /\ [][Next]_vars

(* The main loop dispatches a set trigger and goes on with a pass; no      *)
(* action timer runs for ever, and the fencer API answers every request.   *)
PassDue == trigger \/ ~Idle

FenceOwed(a) == ~complete /\ <<gid, a>> \in results /\ graph[a].type = "fence"

Fairness ==
  /\ <>[]PassDue => []<><<cursor' # cursor>>_vars
  /\ \A a \in UNION {DOMAIN g : g \in Graphs} :
       []<>(a \notin timers) /\ []<>~FenceOwed(a)

FairSpec == Spec /\ Fairness

-----------------------------------------------------------------------------
(* Properties *)

Completions == {"done", "wait", "restart", "shutdown"}
Inputs == {"I_TE_SUCCESS", "I_PE_CALC", "I_STOP"}

(* Types of the engine's state; the flags only name actions of the graph.  *)
TypeOK ==
  /\ gid \in 0 .. MaxTransitions
  /\ graph \in Graphs \cup {<<>>}
  /\ complete \in BOOLEAN /\ trigger \in BOOLEAN
  /\ abortPriority \in 0 .. INFINITY + 1
  /\ completion \in Completions
  /\ executed \subseteq Ids /\ synConfirmed \subseteq Ids
  /\ synFailed \subseteq Ids /\ actConfirmed \subseteq Ids
  /\ actFailed \subseteq Ids
  /\ inputsDone \subseteq Ids \X Ids
  /\ timers \subseteq Ids
  /\ jobs \in [Nodes -> Int] /\ migrateJobs \in [Nodes -> Int]
  /\ mode \in [Nodes -> Levels]
  /\ cursor \in 0 .. Len(graph) + 1
  /\ fired \in Nat /\ pending \in Nat
  /\ results \subseteq (1 .. gid) \X (Nat \ {0})
  /\ fenceFails \in [Nodes -> 0 .. FencingMaxAttempts]
  /\ raised \subseteq Inputs

(* Dependencies: whatever order results, timeouts, node losses and fencer  *)
(* losses come in, an action is only executed after all of its inputs were *)
(* confirmed without failing.  Synapses of priority INFINITY may also run  *)
(* after a failed input (pcmk__update_graph), and a cancel that was        *)
(* confirmed before it was sent may fail to be sent later.                 *)
InputsFirst ==
  \A s \in executed : \A i \in graph[s].inputs :
    IF graph[s].priority = INFINITY THEN i \in actConfirmed \cup actFailed
    ELSE /\ i \in actConfirmed
         /\ i \in actFailed => graph[i].task = "cancel"

(* A finished transition leaves nothing behind: no synapse is in flight    *)
(* and no action timer can still fire into the next graph.                 *)
QuietWhenComplete == complete => InFlight = {} /\ timers = {}

(* Every request in flight is watched by somebody: an action timer, or the *)
(* fencer API that owes an answer.                                         *)
InFlightIsWatched ==
  \A a \in InFlight :
    a \in timers \/ (graph[a].type = "fence" /\ <<gid, a>> \in results)

(* Resource actions in flight that occupy node n. *)
Running(n) == {a \in InFlight : IsRsc(a) /\ n \in Charged(a)}

(* Job accounting: until a node loss writes actions off, a node's job      *)
(* count is exactly the number of resource actions it is working on.       *)
JobsBalanced ==
  synFailed = {} => \A n \in Nodes : jobs[n] = Cardinality(Running(n))

(* Limits: sending an action never takes a node over its current job limit *)
(* (node-action-limit), also when the load level changes under way, nor    *)
(* over the number of migrations at a time (migration-limit), nor the      *)
(* synapses in flight over the limit of the pass (batch-limit), although   *)
(* confirmations in the middle of a pass make its count out of date.       *)
LimitsRespected ==
  [][/\ \A n \in Nodes :
          LET Migrating == {a \in Running(n) : IsMigration(a)}
          IN  /\ ~(Running(n)' \subseteq Running(n))
                   => Cardinality(Running(n)') <= JobLimit(n)
              /\ MigrationLimit > 0 /\ ~(Migrating' \subseteq Migrating)
                   => Cardinality(Migrating') <= MigrationLimit
     /\ TotalJobLimit > 0 /\ ~(InFlight' \subseteq InFlight)
          => Cardinality(InFlight') <= TotalJobLimit]_vars

(* After an abort at INFINITY nothing but pseudo-actions and actions of    *)
(* priority INFINITY is started in the same transition, whatever aborts    *)
(* and failures follow.                                                    *)
AbortStopsFiring ==
  [][abortPriority >= INFINITY /\ gid' = gid =>
       \A s \in executed' \ executed :
         graph[s].type = "pseudo" \/ graph[s].priority = INFINITY]_vars

(* The engine implements the abstract transition: actions start once and   *)
(* in order of their inputs, transitions do not overlap, and none is over  *)
(* while an action it started is outstanding.                              *)
Plan(g) == [a \in DOMAIN g |-> g[a].inputs]

T == INSTANCE Transition WITH
       Plans <- {Plan(g) : g \in Graphs}, Limit <- MaxTransitions,
       number <- gid, plan <- Plan(graph), open <- ~complete,
       started <- executed, ended <- actConfirmed \cup actFailed

(* Refinement of the abstract specification, see T. *)
ImplementsTransition == T!TSpec

(* A transition always comes to its end: lost results time out, everything *)
(* else is skipped or carried out.                                         *)
TransitionEnds == ~complete ~> complete

(* A requested restart is never forgotten: the scheduler is asked again,   *)
(* unless the DC itself stops.                                             *)
RestartHonoured ==
  completion = "restart" ~> raised \cap {"I_PE_CALC", "I_STOP"} # {}

==============================================================================
