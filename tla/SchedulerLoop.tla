----------------------------- MODULE SchedulerLoop -----------------------------
(***************************************************************************)
(* The loop in which the designated controller (DC) keeps the cluster up to *)
(* date with the CIB: query the CIB, ask the scheduler for a transition,    *)
(* run it, and start again when something changed (daemons/controld).      *)
(*                                                                         *)
(* The controller is the record dc; every C function is an operator from   *)
(* record to record.                                                       *)
(*                                                                         *)
(*   state      fsa_state, for the states of a DC                          *)
(*   queue      fsa_message_queue                                          *)
(*   acts       fsa_actions, of which this module has the ones that drive  *)
(*              the scheduler and the transition engine                    *)
(*   stalled    controld_fsa_is_stalled                                    *)
(*   trigger    the FSA trigger is set                                     *)
(*   running    s_crmd_fsa is running                                      *)
(*   busy       it is working on the actions of a message                  *)
(*   cur        that message, or NoMsg                                     *)
(*   complete, action, version                                             *)
(*              transition_graph: completed, its completion_action, and    *)
(*              the version of the CIB it was calculated from              *)
(*   ref        fsa_pe_ref, or NoRef                                       *)
(*   timer      controld_sched_timer runs                                  *)
(*   retry      controld_cib_retry_timer runs                              *)
(*   delay      the transition timer runs                                  *)
(*   delayed    it has an interval (transition-delay is configured)        *)
(*   connected  R_PE_CONNECTED                                             *)
(*   asked      queries sent to the CIB manager: for a calculation ("cib"), *)
(*              or to save the CIB after the scheduler crashed ("saved")   *)
(*   dc         R_THE_DC: FALSE when the controller left the loop           *)
(*                                                                         *)
(* The engine that runs a transition graph is module TransitionGraph; here *)
(* a graph is incomplete for a while and then complete.  The join protocol *)
(* and DC elections are inputs that may come at any time.                  *)
(***************************************************************************)
EXTENDS Naturals, Sequences, FiniteSets

CONSTANT Scenarios   \* bounds on what the environment does, see Bounds

(* A scenario says whether transition-delay is configured, and bounds the  *)
(* CIB changes, joins, elections, CIB updates of the controller itself,    *)
(* recheck timeouts, graph triggers after the end of a graph, failures of  *)
(* CIB queries and of connections to the scheduler, and crashes of it.     *)
Bounds ==
  [delayed : BOOLEAN, changes : Nat, joins : Nat, elections : Nat,
   updates : Nat, rechecks : Nat, late : Nat, failures : Nat, losses : Nat]

ASSUME SchedulerLoopAssumption == Scenarios \subseteq Bounds

VARIABLES
  dc,       \* the controller
  cib,      \* version of the CIB
  pipe,     \* what the CIB manager sent to the controller
  sched,    \* requests to the scheduler it has not answered
  updates,  \* pending callbacks of CIB updates of the controller
  budget    \* what the environment may still do

vars == <<dc, cib, pipe, sched, updates, budget>>

States == {"S_IDLE", "S_ELECTION", "S_INTEGRATION", "S_FINALIZE_JOIN",
           "S_POLICY_ENGINE", "S_TRANSITION_ENGINE", "S_RECOVERY"}

Actions == {"A_PE_START", "A_TE_HALT", "A_TE_CANCEL", "A_PE_INVOKE", "A_TE_INVOKE"}

Completions == {"done", "wait", "restart"}

NoRef == 0

(* What a message carries: nothing, a join announcement, or the graph that *)
(* the scheduler calculated from a version of the CIB.                     *)
GraphData(ref, version) == [kind |-> "graph", ref |-> ref, version |-> version]
JoinData == [kind |-> "join", ref |-> NoRef, version |-> 0]
NoData == [kind |-> "none", ref |-> NoRef, version |-> 0]

Data == [kind : {"graph", "join", "none"}, ref : Nat, version : Nat]

Msg(input, data, acts) == [input |-> input, data |-> data, acts |-> acts]
NoMsg == Msg("I_NULL", NoData, {})

(* What the CIB manager sends: a notification of a change, or an answer. *)
CibMsg(type, version) == [type |-> type, version |-> version]

-----------------------------------------------------------------------------
(* The tables of controld_matrix.c *)

Goes(from, to) == [s \in States |-> IF s \in from THEN to ELSE s]
Does(from, acts) == [s \in States |-> IF s \in from THEN acts ELSE {}]

Working == {"S_IDLE", "S_POLICY_ENGINE", "S_TRANSITION_ENGINE"}
Joining == {"S_INTEGRATION", "S_FINALIZE_JOIN"}

(* The state S_RELEASE_DC is as good as S_RECOVERY here: the node is no    *)
(* longer the DC.                                                          *)
NextState ==
  [I_NULL           |-> Goes({}, "S_IDLE"),
   I_WAIT_FOR_EVENT |-> Goes({}, "S_IDLE"),
   I_PE_CALC        |-> Goes(Working, "S_POLICY_ENGINE"),
   I_PE_SUCCESS     |-> Goes({"S_POLICY_ENGINE"}, "S_TRANSITION_ENGINE"),
   I_TE_SUCCESS     |-> Goes({"S_TRANSITION_ENGINE"}, "S_IDLE"),
   I_NODE_JOIN      |-> Goes(Working \cup Joining, "S_INTEGRATION"),
   I_INTEGRATED     |-> Goes({"S_INTEGRATION"}, "S_FINALIZE_JOIN"),
   I_FINALIZED      |-> Goes({"S_FINALIZE_JOIN"}, "S_POLICY_ENGINE"),
   I_ELECTION       |-> Goes(Working \cup Joining, "S_ELECTION"),
   I_ELECTION_DC    |-> Goes(States \ {"S_RECOVERY"}, "S_INTEGRATION"),
   I_ERROR          |-> Goes(States, "S_RECOVERY"),
   I_FAIL           |-> [Goes(Joining \cup {"S_POLICY_ENGINE"}, "S_INTEGRATION")
                         EXCEPT !["S_IDLE"] = "S_RECOVERY",
                                !["S_ELECTION"] = "S_RECOVERY",
                                !["S_TRANSITION_ENGINE"] = "S_POLICY_ENGINE"]]

Nothing == Does({}, {})

NewActions ==
  [I_NULL           |-> Nothing,
   I_WAIT_FOR_EVENT |-> Nothing,
   I_PE_CALC        |-> Does(Working, {"A_PE_INVOKE"}),
   I_PE_SUCCESS     |-> Does({"S_POLICY_ENGINE"}, {"A_TE_INVOKE"}),
   I_TE_SUCCESS     |-> Nothing,
   I_NODE_JOIN      |-> Does({"S_IDLE", "S_TRANSITION_ENGINE"}, {"A_TE_HALT"}),
   I_INTEGRATED     |-> Nothing,
   I_FINALIZED      |-> Does({"S_FINALIZE_JOIN"}, {"A_TE_CANCEL"}),
   I_ELECTION       |-> Nothing,
   I_ELECTION_DC    |-> Does({"S_ELECTION"}, {"A_PE_START"}),
   I_ERROR          |-> Nothing,
   I_FAIL           |-> [Does({"S_POLICY_ENGINE"}, {"A_TE_CANCEL"})
                         EXCEPT !["S_TRANSITION_ENGINE"] =
                                  {"A_PE_INVOKE", "A_TE_CANCEL"}]]

Inputs == DOMAIN NextState

-----------------------------------------------------------------------------
(* Inputs of the FSA (controld_messages.c) *)

SetTrigger(d) == [d EXCEPT !.trigger = TRUE]

(* controld_fsa_append: I_PE_CALC is not queued twice in a row. *)
FsaAppend(d, input, data) ==
  IF input = "I_PE_CALC" /\ d.queue # <<>> /\ d.queue[Len(d.queue)].input = input
  THEN d
  ELSE SetTrigger([d EXCEPT !.queue = Append(@, Msg(input, data, {}))])

(* controld_fsa_prepend *)
FsaPrepend(d, input) ==
  SetTrigger([d EXCEPT !.queue = <<Msg(input, NoData, {})>> \o @])

(* Mutant: the data of the message are not queued with its actions. *)
FsaStallNoData(d, action) ==
  IF d.cur.data = NoData
  THEN [d EXCEPT !.stalled = TRUE, !.acts = @ \cup {action}]
  ELSE [d EXCEPT !.stalled = TRUE, !.acts = {},
                 !.queue = Append(@, Msg("I_WAIT_FOR_EVENT", NoData,
                                         d.acts \cup {action}))]

(* controld_fsa_stall: without data the actions stay pending, otherwise    *)
(* they go to the end of the queue together with the data.                 *)
FsaStall(d, action) ==
  IF d.cur.data = NoData
  THEN [d EXCEPT !.stalled = TRUE, !.acts = @ \cup {action}]
  ELSE [d EXCEPT !.stalled = TRUE, !.acts = {},
                 !.queue = Append(@, Msg("I_WAIT_FOR_EVENT", d.cur.data,
                                         d.acts \cup {action}))]

(* register_fsa_error: the pending actions wait behind the error. *)
FsaError(d, input) ==
  LET saved == IF d.acts = {} THEN <<>>
               ELSE <<Msg("I_NULL", d.cur.data, d.acts)>>
  IN  FsaPrepend([d EXCEPT !.acts = {}, !.queue = saved \o @], input)

-----------------------------------------------------------------------------
(* Scheduler and transition engine *)

(* controld_expect_sched_reply *)
ExpectReply(d, ref) == [d EXCEPT !.ref = ref, !.timer = ref # NoRef]

(* abort_transition_graph and update_abort_priority: the completion action *)
(* of a running graph only becomes more urgent. The trigger of a running   *)
(* graph is implicit, it runs until it is complete.                        *)
AbortTransition(d, action) ==
  LET e == ExpectReply(d, NoRef)
  IN  IF ~d.complete
      THEN [e EXCEPT !.action = IF @ = "restart" THEN @ ELSE action]
      ELSE IF d.delayed THEN [e EXCEPT !.delay = TRUE]
      ELSE FsaAppend(e, "I_PE_CALC", NoData)

(* do_pe_invoke *)
DoPeInvoke(d) ==
  IF ~d.connected
  THEN SetTrigger([FsaStall(d, "A_PE_INVOKE") EXCEPT !.acts = @ \cup {"A_PE_START"}])
  ELSE IF d.state # "S_POLICY_ENGINE" \/ d.retry THEN d
  ELSE ExpectReply([d EXCEPT !.asked = Append(@, "cib")], NoRef)

(* do_te_invoke for A_TE_CANCEL and A_TE_HALT *)
DoTeStop(d, action, completion) ==
  LET e == AbortTransition(d, completion)
  IN  IF e.complete THEN e ELSE FsaStall(e, action)

(* The graph is replaced, and triggered. *)
UnpackGraph(d, data) ==
  [d EXCEPT !.complete = FALSE, !.action = "done", !.version = data.version]

(* do_te_invoke for A_TE_INVOKE. A graph that is not the expected one is   *)
(* unpacked all the same, after a new calculation was asked for.           *)
DoTeInvoke(d) ==
  IF d.state # "S_TRANSITION_ENGINE" THEN d
  ELSE IF d.cur.data.kind # "graph" THEN FsaError(d, "I_FAIL")
  ELSE IF ~d.complete THEN AbortTransition(d, "restart")
  ELSE LET e == IF d.ref # NoRef /\ d.ref = d.cur.data.ref THEN d
                ELSE AbortTransition(d, "restart")
       IN  IF e.delay THEN e ELSE UnpackGraph(e, d.cur.data)

(* notify_crmd: what the end of the graph means for the controller. *)
NotifyCrmd(d) ==
  LET e == [d EXCEPT !.complete = TRUE, !.action = "done"]
  IN  IF d.state = "S_TRANSITION_ENGINE"
      THEN IF d.action # "restart" THEN FsaAppend(e, "I_TE_SUCCESS", NoData)
           ELSE IF d.delayed THEN SetTrigger([e EXCEPT !.delay = TRUE])
           ELSE FsaAppend(e, "I_PE_CALC", NoData)
      ELSE IF d.state = "S_POLICY_ENGINE" /\ d.action = "restart"
      THEN SetTrigger([e EXCEPT !.acts = @ \cup {"A_PE_INVOKE"}])
      ELSE SetTrigger(e)

-----------------------------------------------------------------------------
(* The finite state automaton (s_crmd_fsa, s_crmd_fsa_actions).  It runs   *)
(* to its end before the main loop handles anything else.                  *)

(* The node is not the DC any more: O_RELEASE, or the controller exits. *)
Leave(d) ==
  [d EXCEPT !.dc = FALSE, !.state = "S_RECOVERY", !.queue = <<>>, !.acts = {},
            !.busy = FALSE, !.cur = NoMsg, !.running = FALSE, !.trigger = FALSE,
            !.ref = NoRef, !.timer = FALSE]

(* The ends of the loops over messages and over actions *)
Settle(d) ==
  IF d.state = "S_RECOVERY" THEN Leave(d)
  ELSE IF d.busy /\ d.acts # {} /\ ~d.stalled THEN d
  ELSE [d EXCEPT !.busy = FALSE, !.cur = NoMsg, !.running = ~d.stalled /\ d.queue # <<>>]

(* The order of actions in s_crmd_fsa_actions *)
First(acts) ==
  IF "A_PE_START" \in acts THEN "A_PE_START"
  ELSE IF "A_TE_HALT" \in acts THEN "A_TE_HALT"
  ELSE IF "A_TE_CANCEL" \in acts THEN "A_TE_CANCEL"
  ELSE IF "A_PE_INVOKE" \in acts THEN "A_PE_INVOKE"
  ELSE "A_TE_INVOKE"

FsaBegin ==
  /\ dc.trigger /\ ~dc.running
  /\ dc' = Settle([dc EXCEPT !.trigger = FALSE, !.stalled = FALSE,
                             !.queue = IF @ = <<>> /\ dc.acts # {}
                                       THEN <<Msg("I_NULL", NoData, {})>> ELSE @])
  /\ UNCHANGED <<cib, pipe, sched, updates, budget>>

(* check_join_counts, on the way into S_POLICY_ENGINE: too many members     *)
(* confirmed their join, or the membership changed meanwhile.              *)
CheckJoinCounts(d) ==
  \/ dc' = Settle(d) /\ UNCHANGED budget
  \/ /\ budget.joins > 0
     /\ dc' = Settle(FsaPrepend(d, "I_NODE_JOIN"))
     /\ budget' = [budget EXCEPT !.joins = @ - 1]
  \/ /\ budget.elections > 0
     /\ dc' = Settle(FsaAppend(d, "I_ELECTION", NoData))
     /\ budget' = [budget EXCEPT !.elections = @ - 1]

(* One message: its actions and the next state come from the tables. *)
FsaInput ==
  /\ dc.running /\ ~dc.busy
  /\ LET m == Head(dc.queue)
         d == [dc EXCEPT !.queue = Tail(@), !.busy = TRUE, !.cur = m,
                         !.acts = @ \cup m.acts \cup NewActions[m.input][dc.state],
                         !.state = NextState[m.input][@]]
     IN  IF d.state = "S_POLICY_ENGINE" /\ dc.state # d.state
         THEN CheckJoinCounts(d)
         ELSE dc' = Settle(d) /\ UNCHANGED budget
  /\ UNCHANGED <<cib, pipe, sched, updates>>

(* One action; the connection to a scheduler that crashed may fail. *)
FsaAction ==
  /\ dc.running /\ dc.busy
  /\ LET a == First(dc.acts)
         d == [dc EXCEPT !.acts = @ \ {a}]
     IN  \/ /\ \/ a = "A_PE_START" /\ dc' = Settle([d EXCEPT !.connected = TRUE])
               \/ a = "A_TE_HALT" /\ dc' = Settle(DoTeStop(d, a, "wait"))
               \/ a = "A_TE_CANCEL" /\ dc' = Settle(DoTeStop(d, a, "restart"))
               \/ a = "A_PE_INVOKE" /\ dc' = Settle(DoPeInvoke(d))
               \/ a = "A_TE_INVOKE" /\ dc' = Settle(DoTeInvoke(d))
            /\ UNCHANGED budget
         \/ /\ a = "A_PE_START" /\ ~dc.connected /\ budget.failures > 0
            /\ dc' = Settle(FsaError(d, "I_FAIL"))
            /\ budget' = [budget EXCEPT !.failures = @ - 1]
  /\ UNCHANGED <<cib, pipe, sched, updates>>

-----------------------------------------------------------------------------
(* The CIB manager *)

Ready == dc.dc /\ ~dc.running

(* A change that asks for a new calculation is committed, and notified. *)
CibChange ==
  /\ dc.dc /\ budget.changes > 0
  /\ cib' = cib + 1
  /\ pipe' = Append(pipe, CibMsg("diff", 0))
  /\ budget' = [budget EXCEPT !.changes = @ - 1]
  /\ UNCHANGED <<dc, sched, updates>>

(* It answers a query, in order with the notifications. *)
CibAnswer ==
  /\ dc.dc /\ dc.asked # <<>>
  /\ dc' = [dc EXCEPT !.asked = Tail(@)]
  /\ pipe' = Append(pipe, CibMsg(Head(dc.asked), cib))
  /\ UNCHANGED <<cib, sched, updates, budget>>

(* The controller sends an update of its own, which is processed by the    *)
(* cluster, and answered.                                                  *)
UpdateSent ==
  /\ Ready /\ budget.updates > 0
  /\ updates' = updates + 1
  /\ budget' = [budget EXCEPT !.updates = @ - 1]
  /\ UNCHANGED <<dc, cib, pipe, sched>>

Updated(p) == {i \in DOMAIN p : p[i].type = "updated"}

UpdateAnswer ==
  /\ dc.dc /\ updates > Cardinality(Updated(pipe))
  /\ pipe' = Append(pipe, CibMsg("updated", 0))
  /\ UNCHANGED <<dc, cib, sched, updates, budget>>

(* cib_rsc_callback sets the trigger, if the update is the last one of its *)
(* kind; other callbacks do not.                                           *)
UpdateCallback ==
  /\ Ready /\ pipe # <<>> /\ Head(pipe).type = "updated"
  /\ pipe' = Tail(pipe)
  /\ updates' = updates - 1
  /\ dc' \in {dc, SetTrigger(dc)}
  /\ UNCHANGED <<cib, sched, budget>>

(* Mutant: changes are not looked at during a calculation. *)
TeUpdateDiffNotPolicy ==
  /\ Ready /\ pipe # <<>> /\ Head(pipe).type = "diff"
  /\ pipe' = Tail(pipe)
  /\ dc' = IF dc.complete /\ dc.state \notin {"S_IDLE", "S_TRANSITION_ENGINE"} THEN dc
           ELSE AbortTransition(dc, "restart")
  /\ UNCHANGED <<cib, sched, updates, budget>>

(* te_update_diff: when the graph is complete, changes outside of the loop  *)
(* are ignored, because the loop starts with a new calculation.            *)
TeUpdateDiff ==
  /\ Ready /\ pipe # <<>> /\ Head(pipe).type = "diff"
  /\ pipe' = Tail(pipe)
  /\ dc' = IF dc.complete /\ dc.state \notin Working THEN dc
           ELSE AbortTransition(dc, "restart")
  /\ UNCHANGED <<cib, sched, updates, budget>>

(* An answer of some type is still to come, after the one being handled. *)
Expected(type) ==
  \/ \E i \in DOMAIN dc.asked : dc.asked[i] = type
  \/ \E i \in DOMAIN pipe : i > 1 /\ pipe[i].type = type

(* call_id # fsa_pe_query *)
Superseded == Expected("cib")

(* Mutant: the callback that is running counts. *)
OtherCallbacksOffByOne == updates + 1 > 0 \/ Expected("saved")

(* num_cib_op_callbacks() > 1, of which one is the callback that is running *)
OtherCallbacks == updates > 0 \/ Expected("saved")

(* The reference of a request is one that is not in use: the least one, so *)
(* that there are no more of them than it takes.                           *)
UsedRefs ==
  {dc.ref} \cup {sched[i].ref : i \in DOMAIN sched}
           \cup {dc.queue[i].data.ref : i \in DOMAIN dc.queue}
NewRefs ==
  {r \in 1 .. Len(sched) + Len(dc.queue) + 2 :
     r \notin UsedRefs /\ \A q \in 1 .. r - 1 : q \in UsedRefs}

(* do_pe_invoke_callback *)
DoPeInvokeCallback ==
  /\ Ready /\ pipe # <<>> /\ Head(pipe).type = "cib"
  /\ pipe' = Tail(pipe)
  /\ \/ /\ budget.failures > 0
        /\ dc' = FsaError(dc, "I_ERROR")
        /\ budget' = [budget EXCEPT !.failures = @ - 1]
        /\ UNCHANGED <<sched>>
     \/ /\ Superseded \/ ~dc.connected \/ dc.state # "S_POLICY_ENGINE"
        /\ UNCHANGED <<dc, sched, budget>>
     \/ /\ ~Superseded /\ dc.connected /\ dc.state = "S_POLICY_ENGINE"
        /\ OtherCallbacks
        /\ dc' = [dc EXCEPT !.retry = TRUE]
        /\ UNCHANGED <<sched, budget>>
     \/ /\ ~Superseded /\ dc.connected /\ dc.state = "S_POLICY_ENGINE"
        /\ ~OtherCallbacks
        /\ \E ref \in NewRefs :
             /\ sched' = Append(sched, [ref |-> ref, version |-> Head(pipe).version])
             /\ dc' = ExpectReply(dc, ref)
        /\ UNCHANGED budget
  /\ UNCHANGED <<cib, updates>>

-----------------------------------------------------------------------------
(* The scheduler *)

(* Mutant: the timer keeps running. *)
HandleReplyKeepTimer ==
  /\ Ready /\ sched # <<>>
  /\ LET reply == Head(sched)
     IN  dc' = IF reply.ref # dc.ref THEN dc
               ELSE FsaAppend(dc, "I_PE_SUCCESS", GraphData(reply.ref, reply.version))
  /\ sched' = Tail(sched)
  /\ UNCHANGED <<cib, pipe, updates, budget>>

(* handle_reply *)
HandleReply ==
  /\ Ready /\ sched # <<>>
  /\ LET reply == Head(sched)
     IN  dc' = IF reply.ref # dc.ref THEN dc
               ELSE FsaAppend([dc EXCEPT !.timer = FALSE], "I_PE_SUCCESS",
                              GraphData(reply.ref, reply.version))
  /\ sched' = Tail(sched)
  /\ UNCHANGED <<cib, pipe, updates, budget>>

(* handle_disconnect: the CIB is queried, to be saved in a file, before an  *)
(* error is raised.                                                        *)
HandleDisconnect ==
  /\ Ready /\ dc.connected /\ budget.losses > 0
  /\ dc' = SetTrigger([ExpectReply(dc, NoRef) EXCEPT !.connected = FALSE,
                                         !.asked = Append(@, "saved")])
  /\ sched' = <<>>
  /\ budget' = [budget EXCEPT !.losses = @ - 1]
  /\ UNCHANGED <<cib, pipe, updates>>

SaveCibContents ==
  /\ Ready /\ pipe # <<>> /\ Head(pipe).type = "saved"
  /\ pipe' = Tail(pipe)
  /\ dc' = FsaError(dc, "I_ERROR")
  /\ UNCHANGED <<cib, sched, updates, budget>>

(* controld_sched_timeout: the controller exits. *)
SchedTimeout ==
  /\ Ready /\ dc.timer
  /\ dc' = Leave(dc)
  /\ UNCHANGED <<cib, pipe, sched, updates, budget>>

-----------------------------------------------------------------------------
(* Timers *)

(* sleep_timer *)
SleepTimer ==
  /\ Ready /\ dc.retry
  /\ dc' = SetTrigger([dc EXCEPT !.retry = FALSE, !.acts = @ \cup {"A_PE_INVOKE"}])
  /\ UNCHANGED <<cib, pipe, sched, updates, budget>>

(* crm_timer_popped for the transition timer *)
TransitionTimer ==
  /\ Ready /\ dc.delay
  /\ dc' = SetTrigger(FsaAppend([dc EXCEPT !.delay = FALSE], "I_PE_CALC", NoData))
  /\ UNCHANGED <<cib, pipe, sched, updates, budget>>

(* crm_timer_popped for the recheck timer, which runs in S_IDLE *)
RecheckTimer ==
  /\ Ready /\ dc.state = "S_IDLE" /\ budget.rechecks > 0
  /\ dc' = SetTrigger(FsaAppend(dc, "I_PE_CALC", NoData))
  /\ budget' = [budget EXCEPT !.rechecks = @ - 1]
  /\ UNCHANGED <<cib, pipe, sched, updates>>

-----------------------------------------------------------------------------
(* The transition engine (te_graph_trigger) *)

(* The last action of the graph ended. *)
GraphCompletes ==
  /\ Ready /\ ~dc.complete
  /\ dc' = NotifyCrmd(dc)
  /\ UNCHANGED <<cib, pipe, sched, updates, budget>>

(* A late result triggers a graph that is complete already. *)
GraphTriggeredLate ==
  /\ Ready /\ dc.complete /\ budget.late > 0
  /\ dc' = NotifyCrmd(dc)
  /\ budget' = [budget EXCEPT !.late = @ - 1]
  /\ UNCHANGED <<cib, pipe, sched, updates>>

-----------------------------------------------------------------------------
(* Membership, joins and elections *)

(* A node announces itself (handle_message), or the membership changed      *)
(* (peer_update_callback, check_join_state).                               *)
NodeJoin ==
  /\ Ready /\ budget.joins > 0
  /\ \/ dc' = FsaAppend(dc, "I_NODE_JOIN", JoinData)
     \/ dc' = FsaPrepend(dc, "I_NODE_JOIN")
  /\ budget' = [budget EXCEPT !.joins = @ - 1]
  /\ UNCHANGED <<cib, pipe, sched, updates>>

(* check_join_state *)
CheckJoinState ==
  /\ Ready
  /\ \A i \in DOMAIN dc.queue : dc.queue[i].input \notin {"I_INTEGRATED", "I_FINALIZED"}
  /\ \/ dc.state = "S_INTEGRATION" /\ dc' = FsaPrepend(dc, "I_INTEGRATED")
     \/ dc.state = "S_FINALIZE_JOIN" /\ dc' = FsaAppend(dc, "I_FINALIZED", NoData)
  /\ UNCHANGED <<cib, pipe, sched, updates, budget>>

(* An election is called for, as an input or as an error. *)
ElectionCalled ==
  /\ Ready /\ budget.elections > 0
  /\ \/ dc' = FsaAppend(dc, "I_ELECTION", NoData)
     \/ dc' = FsaError(dc, "I_ELECTION")
  /\ budget' = [budget EXCEPT !.elections = @ - 1]
  /\ UNCHANGED <<cib, pipe, sched, updates>>

(* election_win_cb *)
ElectionWon ==
  /\ Ready /\ dc.state = "S_ELECTION"
  /\ \A i \in DOMAIN dc.queue : dc.queue[i].input # "I_ELECTION_DC"
  /\ dc' = FsaAppend(dc, "I_ELECTION_DC", NoData)
  /\ UNCHANGED <<cib, pipe, sched, updates, budget>>

-----------------------------------------------------------------------------

(* The DC is idle, after a transition that reflects the CIB. *)
Init ==
  /\ budget \in Scenarios
  /\ dc = [dc |-> TRUE, state |-> "S_IDLE", queue |-> <<>>, acts |-> {},
           stalled |-> FALSE, trigger |-> FALSE, running |-> FALSE, busy |-> FALSE,
           cur |-> NoMsg, complete |-> TRUE, action |-> "done", version |-> 0,
           ref |-> NoRef, timer |-> FALSE, retry |-> FALSE, delay |-> FALSE,
           delayed |-> budget.delayed, connected |-> TRUE, asked |-> <<>>]
  /\ cib = 0 /\ updates = 0
  /\ pipe = <<>> /\ sched = <<>>

Quiet == ~dc.running /\ ~dc.trigger /\ dc.queue = <<>> /\ dc.acts = {}

(* The DC may rest in S_IDLE, and the loop ends when the node is not the DC *)
(* any more.                                                               *)
Rest ==
  /\ ~dc.dc \/ (Quiet /\ dc.state = "S_IDLE")
  /\ UNCHANGED vars

FromCib == TeUpdateDiff \/ DoPeInvokeCallback \/ UpdateCallback \/ SaveCibContents

Daemons ==
  \/ FsaBegin \/ FsaInput \/ FsaAction
  \/ CibAnswer \/ UpdateAnswer \/ FromCib \/ HandleReply \/ SleepTimer \/ TransitionTimer
  \/ GraphCompletes \/ CheckJoinState \/ ElectionWon

Environment ==
  \/ CibChange \/ UpdateSent \/ HandleDisconnect \/ SchedTimeout
  \/ RecheckTimer \/ GraphTriggeredLate \/ NodeJoin \/ ElectionCalled

Next == Daemons \/ Environment \/ Rest

Spec == Init /\ [][Next]_vars

(* A running graph ends before the scheduler has answered. *)
GraphEndsFirst ==
  /\ \A i \in DOMAIN dc.queue : dc.queue[i].input # "I_PE_SUCCESS"
  /\ GraphCompletes

(* GraphEndsFirst: a graph that was aborted before its first pass ends in  *)
(* that pass, so it does not lose the race against the calculation that    *)
(* was asked for meanwhile each time.                                      *)
Fairness ==
  /\ WF_vars(FsaBegin \/ FsaInput \/ FsaAction)
  /\ WF_vars(CibAnswer) /\ WF_vars(UpdateAnswer) /\ WF_vars(FromCib)
  /\ WF_vars(HandleReply)
  /\ WF_vars(SleepTimer) /\ WF_vars(TransitionTimer)
  /\ WF_vars(GraphCompletes) /\ SF_vars(GraphEndsFirst)
  /\ WF_vars(CheckJoinState) /\ WF_vars(ElectionWon)

FairSpec == Spec /\ Fairness
-----------------------------------------------------------------------------
(* Properties *)

CibMsgs == [type : {"diff", "cib", "saved", "updated"}, version : Nat]
Requests == [ref : Nat, version : Nat]
Msgs == [input : Inputs, data : Data, acts : SUBSET Actions]

Controllers ==
  [dc : BOOLEAN, state : States, queue : Seq(Msgs), acts : SUBSET Actions,
   stalled : BOOLEAN, trigger : BOOLEAN, running : BOOLEAN, busy : BOOLEAN,
   cur : Msgs, complete : BOOLEAN, action : Completions, version : Nat,
   ref : Nat, timer : BOOLEAN, retry : BOOLEAN, delay : BOOLEAN,
   delayed : BOOLEAN, connected : BOOLEAN, asked : Seq({"cib", "saved"})]

(* The state of the controller, its channels to the CIB manager and to the *)
(* scheduler, and the number of callbacks it waits for are of their types. *)
TypeOK ==
  /\ dc \in Controllers
  /\ cib \in Nat /\ updates \in Nat
  /\ pipe \in Seq(CibMsgs)
  /\ sched \in Seq(Requests)
  /\ budget \in Bounds

(* A change of the CIB is still to be notified. *)
DiffComing(p) == \E i \in DOMAIN p : p[i].type = "diff"

(* I_PE_CALC is queued behind a message. *)
CalcAfter(q, i) == \E k \in DOMAIN q : k > i /\ q[k].input = "I_PE_CALC"

(* In S_IDLE either a new calculation is due, because I_PE_CALC is queued   *)
(* or the transition timer runs, or the DC has run a graph to its end that *)
(* was calculated from the current CIB, or it has yet to be told of a      *)
(* change: no change is lost, whatever the controller was doing when it    *)
(* was notified of it, and no I_TE_SUCCESS of an earlier graph, or of a    *)
(* late trigger of it, makes the DC idle for good while the next one runs. *)
IdleIsCurrent ==
  dc.state = "S_IDLE" =>
    \/ dc.delay \/ CalcAfter(dc.queue, 0)
    \/ dc.complete /\ (dc.version = cib \/ DiffComing(pipe))

(* controld_sched_timeout makes the DC exit. Its timer runs only while the *)
(* scheduler has yet to answer the very request that is waited for.        *)
TimerMeansPending ==
  dc.timer => \E i \in DOMAIN sched : sched[i].ref = dc.ref

(* When do_te_invoke gets to A_TE_INVOKE, the message has the graph of the *)
(* scheduler, as it asserts, even if the FSA stalled or failed after the   *)
(* message was taken from the queue.                                       *)
InvokeHasGraph ==
  dc.busy /\ First(dc.acts) = "A_TE_INVOKE" /\ dc.state = "S_TRANSITION_ENGINE"
  => dc.cur.data.kind = "graph"

(* If changes stop, the DC ends up idle after a transition for the current *)
(* CIB, through joins, elections, pending updates and aborted transitions, *)
(* unless it gives up its role.                                            *)
CatchesUp == []<>(~dc.dc \/ (dc.state = "S_IDLE" /\ dc.version = cib))
================================================================================
