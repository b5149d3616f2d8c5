------------------------------- MODULE Executor -------------------------------
(***************************************************************************)
(* The local executor (daemons/execd/execd_commands.c) and the queues of   *)
(* the service library it runs agents with (lib/services/services.c and    *)
(* services_linux.c), for one resource.                                    *)
(*                                                                         *)
(* The daemon is single threaded: every C function is an operator on the   *)
(* record s of its state, and every action is one dispatch of its main     *)
(* loop.  A command (lrmd_cmd_t) has the number of the request that        *)
(* created it, and the service action (svc_action_t) that a command runs   *)
(* has the number of the command.                                          *)
(***************************************************************************)
EXTENDS Integers, FiniteSets, Sequences, SequencesExt

CONSTANTS
  MaxCalls,    \* how many actions clients request
  Configs      \* configurations, see Config

Call == 1..MaxCalls
Interval == 0..2
Kept == Interval \ {0}
None == 0

(* What clients request: an action, its interval, whether it has a start   *)
(* delay.  Only monitors recur; a monitor without interval is a probe.     *)
Action ==
  {a \in [act : {"start", "stop", "monitor"}, interval : Interval, delay : BOOLEAN] :
     a.interval > 0 => a.act = "monitor"}

(* fencing: the resource is of class stonith; changes: clients want to be  *)
(* told of changed results only; drop: recurring actions end with the      *)
(* client that requested them; repeat: whether a recurring action may be   *)
(* requested again while the last one exists; how: what may happen when an *)
(* action is started, for single and for recurring ones; kill: what may    *)
(* happen when a process is killed; cancels, registrations, losses and     *)
(* leaves bound how often the environment does these things.               *)
Config ==
  [fencing : BOOLEAN, changes : BOOLEAN, drop : BOOLEAN, asks : SUBSET Action,
   repeat : {"any", "cancelled", "stopped", "never"}, single : SUBSET STRING, recurring : SUBSET STRING,
   kill : SUBSET {"killed", "gone"}, clients : SUBSET {1, 2}, cancels : Nat,
   registrations : Nat, losses : Nat, leaves : Nat]

ASSUME ExecutorAssumption == MaxCalls \in Nat /\ Configs \subseteq Config

VARIABLES
  conf,      \* the configuration
  calls,     \* number of actions requested so far
  rsc,       \* the resource in rsc_list
  cmd,       \* commands
  op,        \* service actions
  svc,       \* inflight_ops, blocked_ops and recurring_actions
  fencer,    \* the connection to the fencer
  told,      \* what clients were told of each call
  fault      \* what went wrong in the program itself

vars == <<conf, calls, rsc, cmd, op, svc, fencer, told, fault>>

Result == {"ok", "fail", "notrunning", "cancelled"}

NoRsc == [reg |-> FALSE, active |-> None, pending |-> <<>>, recurring |-> <<>>, work |-> FALSE,
          probe |-> "stopped"]

(* cancelled: the execution status is PCMK_EXEC_CANCELLED; delay: delay_id *)
(* is set; timer: stonith_recurring_id is set; sent and last: the result   *)
(* last told to clients.  ran and res record whether the action was ever   *)
(* started and its latest result since it was requested.                   *)
NoCmd == [st |-> "none", act |-> "monitor", interval |-> 0, call |-> None, client |-> None,
          cancelled |-> FALSE, delay |-> FALSE, timer |-> FALSE, sent |-> FALSE, last |-> "none",
          ran |-> FALSE, res |-> "none"]

(* pid: the process of the action has not been waited for. *)
NoOp == [st |-> "none", interval |-> 0, cancel |-> FALSE, pid |-> FALSE, timer |-> FALSE]

NoSvc == [inflight |-> <<>>, blocked |-> <<>>, recur |-> [i \in Kept |-> None]]

(* calls: commands that wait for an answer of the fencer; has: the fencer  *)
(* is known to have the device registered.                                 *)
NoFencer == [up |-> FALSE, calls |-> {}, has |-> FALSE]

State == [rsc |-> rsc, cmd |-> cmd, op |-> op, svc |-> svc, fencer |-> fencer, told |-> told,
          fault |-> fault]

Commit(s) ==
  /\ rsc' = s.rsc /\ cmd' = s.cmd /\ op' = s.op /\ svc' = s.svc
  /\ fencer' = s.fencer /\ told' = s.told /\ fault' = s.fault

Fault(s, what) == [s EXCEPT !.fault = what]
Trigger(s) == IF s.rsc.reg THEN [s EXCEPT !.rsc.work = TRUE] ELSE s

-----------------------------------------------------------------------------
(* Results of commands *)

(* send_cmd_complete_notify *)
Notify(s, c, result) ==
  LET m == s.cmd[c] IN
  IF m.sent /\ conf.changes /\ m.last = result THEN s
  ELSE [s EXCEPT !.cmd[c].sent = TRUE, !.cmd[c].last = result,
                 !.told[m.call].answered = TRUE, !.told[m.call].last = result]

(* free_lrmd_cmd, after the last notification of the command *)
FreeCmd(s, c) ==
  [s EXCEPT !.cmd[c].st = "freed", !.cmd[c].delay = FALSE, !.cmd[c].timer = FALSE,
            !.told[s.cmd[c].call].final = @ + 1]

(* Mutant: the list of recurring operations keeps a command that is freed. *)
ForgetKeepsRecurring(s, c) == [s EXCEPT !.rsc.pending = RemoveFirst(@, c)]

Forget(s, c) ==
  [s EXCEPT !.rsc.pending = RemoveFirst(@, c),
            !.rsc.recurring = IF s.cmd[c].interval > 0 THEN RemoveFirst(@, c) ELSE @]

(* cmd_finalize, with the resource if it is still registered.  cmd_reset   *)
(* of a recurring command clears its status.                               *)
CmdFinalize(s, c, result) ==
  LET s1 == IF s.rsc.active = c THEN Trigger([s EXCEPT !.rsc.active = None]) ELSE s
      s2 == [Notify(s1, c, result) EXCEPT !.cmd[c].res = result] IN
  IF s.cmd[c].st # "live" THEN Fault(s, "freed")
  ELSE IF s.cmd[c].interval = 0 \/ result = "cancelled" THEN FreeCmd(Forget(s2, c), c)
  ELSE [s2 EXCEPT !.cmd[c].cancelled = FALSE]

-----------------------------------------------------------------------------
(* The service library *)

(* services_action_free: an action that is still tracked is not freed. *)
FreeOp(s, o) ==
  IF o \in ToSet(s.svc.inflight) \cup ToSet(s.svc.blocked)
     \/ (s.op[o].interval > 0 /\ s.svc.recur[s.op[o].interval] # None)
  THEN s
  ELSE [s EXCEPT !.op[o].st = "freed", !.op[o].timer = FALSE]

(* is_op_blocked *)
IsOpBlocked(s) == s.svc.inflight # <<>>

(* services__execute_file started the process of the action. *)
Launch(s, o) == [s EXCEPT !.op[o].pid = TRUE, !.svc.inflight = Append(@, o), !.cmd[o].ran = TRUE]

(* handle_blocked_ops: the first blocked action runs and blocks the rest. *)
HandleBlockedOps(s) ==
  IF s.svc.blocked = <<>> \/ IsOpBlocked(s) THEN s
  ELSE [Launch(s, Head(s.svc.blocked)) EXCEPT !.svc.blocked = Tail(@)]

(* services_untrack_op *)
UntrackOp(s, o) ==
  HandleBlockedOps([s EXCEPT !.op[o].pid = FALSE, !.svc.inflight = RemoveFirst(@, o),
                             !.svc.blocked = RemoveFirst(@, o)])

(* cancel_recurring_action *)
CancelRecurring(s, o) ==
  [s EXCEPT !.svc.recur[s.op[o].interval] = None, !.op[o].timer = FALSE]

(* Mutant: a recurring action is not scheduled again. *)
FinalizeAsyncOpOnce(s, o, result) ==
  LET p == s.op[o]
      s1 == IF p.interval > 0 /\ p.cancel THEN CancelRecurring(s, o) ELSE s
      s2 == CmdFinalize(s1, o, IF p.cancel THEN "cancelled" ELSE result)
      s3 == UntrackOp(s2, o) IN
  IF p.interval > 0 /\ ~p.cancel THEN s3 ELSE FreeOp(s3, o)

(* services__finalize_async_op; its callback is action_complete.           *)
FinalizeAsyncOp(s, o, result) ==
  LET p == s.op[o]
      again == p.interval > 0 /\ ~p.cancel
      s1 == IF p.interval = 0 THEN s
            ELSE IF p.cancel THEN CancelRecurring(s, o)
            ELSE [s EXCEPT !.op[o].timer = TRUE]
      s2 == CmdFinalize(s1, o, IF p.cancel THEN "cancelled" ELSE result)
      s3 == UntrackOp(s2, o) IN
  IF again THEN s3 ELSE FreeOp(s3, o)

(* services__execute_file *)
ExecuteFile(s, o, how) ==
  IF how = "ok" THEN Launch(s, o)
  ELSE FinalizeAsyncOp([s EXCEPT !.cmd[o].ran = TRUE], o, "fail")

(* Mutant: a blocked action is executed. *)
ActionAsyncAtOnce(s, o, how) ==
  ExecuteFile(IF s.op[o].interval > 0 THEN [s EXCEPT !.svc.recur[s.op[o].interval] = o] ELSE s, o, how)

(* services_action_async; recurring_actions has no other action with the   *)
(* same interval, because the executor merges its commands.                *)
ActionAsync(s, o, how) ==
  LET s1 == IF s.op[o].interval > 0 THEN [s EXCEPT !.svc.recur[s.op[o].interval] = o] ELSE s IN
  IF IsOpBlocked(s1) THEN [s1 EXCEPT !.svc.blocked = Append(@, o)] ELSE ExecuteFile(s1, o, how)

(* recurring_action_timer *)
RecurringActionTimer(s, o, how) == ActionAsync([s EXCEPT !.op[o].timer = FALSE], o, how)

(* services_action_cancel.  The process of an action in flight is killed   *)
(* and waited for at once, unless it is not found: pcmk__main_loop_child_  *)
(* kill then leaves it to the handler of SIGCHLD.                          *)
ActionCancel(s, interval, kill) ==
  LET o == s.svc.recur[interval]
      s1 == CancelRecurring([s EXCEPT !.op[o].cancel = TRUE], o)
      s2 == CmdFinalize(s1, o, "cancelled") IN
  IF o = None THEN s
  ELSE IF s.op[o].pid THEN IF kill = "killed" THEN FinalizeAsyncOp(s1, o, "cancelled") ELSE s1
  ELSE FreeOp([s2 EXCEPT !.svc.blocked = RemoveFirst(@, o)], o)

(* services_action_kick *)
ActionKick(s, interval, how) ==
  LET o == s.svc.recur[interval] IN
  IF o = None \/ (o # None /\ s.op[o].pid) THEN s ELSE RecurringActionTimer(s, o, how)

-----------------------------------------------------------------------------
(* Actions of fencing resources *)

(* fencing_rsc_action_complete.  Only the result of the fencer's monitor   *)
(* may be cancelled; a successful start or stop sets the probe's result.   *)
Complete(s, c, result) ==
  LET m == s.cmd[c]
      r == IF m.cancelled THEN "cancelled" ELSE result
      s1 == IF s.rsc.reg /\ r = "ok" /\ m.act \in {"start", "stop"}
            THEN [s EXCEPT !.rsc.probe = IF m.act = "start" THEN "running" ELSE "stopped"]
            ELSE s
      again == s.rsc.reg /\ m.interval > 0 /\ ~m.cancelled IN
  IF m.st # "live" THEN Fault(s, "freed")
  ELSE CmdFinalize([s1 EXCEPT !.cmd[c].timer = again], c, r)

(* monitor_fencing_rsc: when the request cannot be sent, registering the   *)
(* callback calls it at once.                                              *)
MonitorFencing(s, c, how) ==
  IF how = "unsent" THEN Complete(Complete(s, c, "fail"), c, "fail")
  ELSE [s EXCEPT !.fencer.calls = @ \cup {c}]

ProbeResult(s) ==
  CASE s.rsc.probe = "running" -> "ok" [] s.rsc.probe = "stopped" -> "notrunning"
    [] s.rsc.probe = "unknown" -> "fail"

(* execute_stonith_action, with execd_get_fencer_connection.  how tells    *)
(* whether the fencer can be reached, registers or removes the device, and *)
(* gets the request for the monitor.                                       *)
ExecuteStonith(s, c, how) ==
  LET m == s.cmd[c]
      s1 == [s EXCEPT !.fencer.up = TRUE] IN
  CASE m.act = "monitor" /\ m.interval = 0 -> Complete(s, c, ProbeResult(s))
    [] how = "unreachable" /\ ~s.fencer.up -> Complete(s, c, "fail")
    [] how = "refused" /\ m.act # "monitor" -> Complete(s1, c, "fail")
    [] m.act = "start" -> MonitorFencing([s1 EXCEPT !.fencer.has = TRUE], c, how)
    [] m.act = "stop" -> Complete([s1 EXCEPT !.fencer.has = FALSE], c, "ok")
    [] OTHER -> MonitorFencing(s1, c, how)

(* stonith_recurring_op_helper, which asserts that the resource exists     *)
RecurringHelper(s, c) ==
  IF ~s.rsc.reg THEN Fault(s, "assert")
  ELSE Trigger([s EXCEPT !.cmd[c].timer = FALSE, !.rsc.recurring = RemoveFirst(@, c),
                         !.rsc.pending = Append(@, c)])

-----------------------------------------------------------------------------
(* Scheduling, cancelling and executing commands *)

(* find_duplicate_action and action_matches: the first command in a list   *)
(* for the action with that interval, or None                              *)
Find(s, list, act, interval) ==
  LET i == SelectInSeq(list, LAMBDA c : s.cmd[c].act = act /\ s.cmd[c].interval = interval) IN
  IF i = 0 THEN None ELSE list[i]

(* The command of a recurring action that a new command c duplicates *)
Duplicate(s, c) ==
  LET m == s.cmd[c]
      waiting == Find(s, s.rsc.pending, m.act, m.interval)
      dup == IF waiting # None THEN waiting ELSE Find(s, s.rsc.recurring, m.act, m.interval) IN
  IF m.interval = 0 \/ dup = None \/ (dup # None /\ conf.fencing /\ s.cmd[dup].cancelled)
  THEN None ELSE dup

(* Mutant: the command that is merged is finalized, not just freed. *)
MergeEnds(s, c, dup, how) ==
  LET s1 == [FreeCmd(s, c) EXCEPT !.cmd[dup].call = s.cmd[c].call, !.cmd[dup].sent = FALSE,
                                  !.cmd[dup].res = "none"] IN
  IF dup \in ToSet(s.rsc.pending) THEN s1
  ELSE IF conf.fencing THEN RecurringHelper(s1, dup)
  ELSE ActionKick(s1, s.cmd[dup].interval, how)

(* merge_recurring_duplicate: the command dup takes over the call of c and *)
(* runs now if it is waiting for its next interval.                        *)
Merge(s, c, dup, how) ==
  LET s1 == [s EXCEPT !.cmd[c].st = "merged", !.cmd[dup].call = s.cmd[c].call,
                      !.cmd[dup].sent = FALSE, !.cmd[dup].res = "none"] IN
  IF dup \in ToSet(s.rsc.pending) THEN s1
  ELSE IF conf.fencing THEN RecurringHelper(s1, dup)
  ELSE ActionKick(s1, s.cmd[dup].interval, how)

(* cancel_op *)
CancelOp(s, act, interval, kill) ==
  LET waiting == Find(s, s.rsc.pending, act, interval)
      kept == Find(s, s.rsc.recurring, act, interval) IN
  IF waiting # None THEN CmdFinalize(s, waiting, "cancelled")
  ELSE IF ~conf.fencing THEN IF interval = 0 THEN s ELSE ActionCancel(s, interval, kill)
  ELSE IF kept = None THEN s
  ELSE IF s.rsc.active = kept THEN [s EXCEPT !.cmd[kept].cancelled = TRUE]
  ELSE CmdFinalize(s, kept, "cancelled")

(* cancel_all_recurring goes through a copy of both lists; client is None  *)
(* for the commands of all clients.                                        *)
CancelAllRecurring(s, client, kill) ==
  FoldLeft(LAMBDA t, c :
             IF t.cmd[c].st # "live" THEN Fault(t, "freed")
             ELSE IF t.cmd[c].interval = 0 \/ client \notin {None, t.cmd[c].client} THEN t
             ELSE CancelOp(t, t.cmd[c].act, t.cmd[c].interval, kill),
           s, s.rsc.recurring \o s.rsc.pending)

(* Mutant: a stop leaves recurring operations alone. *)
ScheduleOnly(s, c, delay, how, kill) ==
  LET dup == Duplicate(s, c) IN
  IF dup # None THEN Merge(s, c, dup, how)
  ELSE [Trigger(s) EXCEPT !.rsc.pending = Append(@, c), !.cmd[c].delay = delay]

(* schedule_lrmd_cmd *)
Schedule(s, c, delay, how, kill) ==
  LET dup == Duplicate(s, c)
      s1 == IF s.cmd[c].act = "stop" THEN CancelAllRecurring(s, None, kill) ELSE s IN
  IF dup # None THEN Merge(s, c, dup, how)
  ELSE [Trigger(s1) EXCEPT !.rsc.pending = Append(@, c), !.cmd[c].delay = delay]

(* execute_nonstonith_action.  The service action cannot be created when   *)
(* the agent is not found.                                                 *)
ExecuteNonstonith(s, c, how) ==
  IF how = "notfound" THEN CmdFinalize([s EXCEPT !.cmd[c].ran = TRUE], c, "fail")
  ELSE ActionAsync([s EXCEPT !.op[c] = [NoOp EXCEPT !.st = "live", !.interval = s.cmd[c].interval]],
                   c, how)

(* The command execute_resource_action can start, or None *)
Runnable(s) ==
  IF s.rsc.active # None \/ s.rsc.pending = <<>> \/ (s.rsc.pending # <<>> /\ s.cmd[Head(s.rsc.pending)].delay)
  THEN None ELSE Head(s.rsc.pending)

(* What may happen when the action of a command is started *)
How(c) == IF cmd[c].interval = 0 THEN conf.single ELSE conf.recurring

-----------------------------------------------------------------------------
(* Requests of clients *)

(* Whether clients request the action now *)
Asks(a) ==
  LET same == {c \in Call : cmd[c].st = "live" /\ cmd[c].act = a.act /\ cmd[c].interval = a.interval} IN
  a.interval > 0 =>
    CASE conf.repeat = "any" -> TRUE
      [] conf.repeat = "never" -> same = {}
      [] conf.repeat = "cancelled" -> \A c \in same : cmd[c].cancelled \/ op[c].cancel
      [] conf.repeat = "stopped" ->
           \A c \in same : \E s \in Call : cmd[s].act = "stop" /\ s > c /\ told[s].answered

(* execd_process_rsc_exec *)
RscExec ==
  /\ calls < MaxCalls /\ rsc.reg
  /\ \E a \in conf.asks, client \in conf.clients, how \in conf.recurring, kill \in conf.kill :
       LET c == calls + 1
           m == [NoCmd EXCEPT !.st = "live", !.act = a.act, !.interval = a.interval, !.call = c,
                              !.client = client] IN
       /\ Asks(a)
       /\ Commit(Schedule([State EXCEPT !.cmd[c] = m], c, a.delay, how, kill))
  /\ calls' = calls + 1
  /\ UNCHANGED conf

(* execd_process_rsc_cancel *)
RscCancel ==
  /\ conf.cancels > 0 /\ rsc.reg
  /\ \E a \in conf.asks, kill \in conf.kill : Commit(CancelOp(State, a.act, a.interval, kill))
  /\ conf' = [conf EXCEPT !.cancels = @ - 1]
  /\ UNCHANGED calls

(* execd_free_rsc.  A command of a fencing resource that is in flight is   *)
(* marked and left to the answer of the fencer.                            *)
FreeRsc(s, kill) ==
  LET s1 == FoldLeft(LAMBDA t, c : CmdFinalize(t, c, "cancelled"),
                     [s EXCEPT !.rsc = NoRsc], s.rsc.pending) IN
  FoldLeft(LAMBDA t, c :
             IF ~conf.fencing THEN ActionCancel(t, t.cmd[c].interval, kill)
             ELSE IF s.rsc.active = c THEN [t EXCEPT !.cmd[c].cancelled = TRUE]
             ELSE CmdFinalize(t, c, "cancelled"),
           s1, s.rsc.recurring)

(* execd_process_rsc_unregister and execd_process_rsc_register *)
RscUnregister ==
  /\ conf.registrations > 0 /\ rsc.reg
  /\ \E kill \in conf.kill : Commit(FreeRsc(State, kill))
  /\ conf' = [conf EXCEPT !.registrations = @ - 1]
  /\ UNCHANGED calls

RscRegister ==
  /\ ~rsc.reg
  /\ rsc' = [NoRsc EXCEPT !.reg = TRUE]
  /\ UNCHANGED <<conf, calls, cmd, op, svc, fencer, told, fault>>

(* execd_ipc_closed and client_disconnect_cleanup *)
ClientLeaves ==
  /\ conf.leaves > 0 /\ rsc.reg
  /\ \E client \in conf.clients, kill \in conf.kill :
       /\ Commit(IF conf.drop THEN CancelAllRecurring(State, client, kill) ELSE State)
       /\ conf' = [conf EXCEPT !.leaves = @ - 1, !.clients = @ \ {client}]
  /\ UNCHANGED calls

-----------------------------------------------------------------------------
(* Triggers, timers, processes and the fencer *)

(* execute_resource_action *)
Work ==
  /\ rsc.reg /\ rsc.work
  /\ LET c == Runnable(State)
         s == [State EXCEPT !.rsc.work = FALSE]
         s1 == [s EXCEPT !.rsc.pending = Tail(@), !.rsc.active = c,
                         !.rsc.recurring = IF s.cmd[c].interval > 0 THEN Append(@, c) ELSE @]
         s2 == [s1 EXCEPT !.cmd[c].ran = TRUE] IN
     IF c = None THEN Commit(s)
     ELSE \E how \in How(c) :
            Commit(IF conf.fencing THEN ExecuteStonith(s2, c, how) ELSE ExecuteNonstonith(s1, c, how))
  /\ UNCHANGED <<conf, calls>>

(* Mutant: delay_id stays set. *)
DelayEndsAgain(c) == cmd[c].delay /\ Commit(Trigger(State)) /\ UNCHANGED <<conf, calls>>

(* start_delay_helper *)
DelayEnds(c) ==
  /\ cmd[c].delay
  /\ Commit(Trigger([State EXCEPT !.cmd[c].delay = FALSE]))
  /\ UNCHANGED <<conf, calls>>

(* The timer of a recurring action, in the service library or for a        *)
(* fencing resource                                                        *)
TimerPops(c) ==
  /\ \/ op[c].timer /\ \E how \in conf.recurring : Commit(RecurringActionTimer(State, c, how))
     \/ cmd[c].timer /\ Commit(RecurringHelper(State, c))
  /\ UNCHANGED <<conf, calls>>

(* async_action_complete: the process exits, or was killed after the       *)
(* timeout of the action.                                                  *)
AgentEnds(c) ==
  /\ op[c].pid
  /\ \E result \in {"ok", "fail"} : Commit(FinalizeAsyncOp(State, c, result))
  /\ UNCHANGED <<conf, calls>>

(* fencing_rsc_monitor_cb *)
FencerAnswers(c) ==
  /\ c \in fencer.calls
  /\ \E result \in {"ok", "fail"} :
       Commit(Complete([State EXCEPT !.fencer.calls = @ \ {c}], c, result))
  /\ UNCHANGED <<conf, calls>>

(* execd_fencer_connection_failed: the actions in recurring_ops fail, then *)
(* the active one and those in pending_ops until there are none left.  A   *)
(* cancelled action leaves recurring_ops while the loop stands on it; a    *)
(* recurring one never leaves pending_ops.                                 *)
ConnectionFailed(s) ==
  LET fail(t, c) == Complete(t, c, "fail")
      s1 == [s EXCEPT !.fencer = NoFencer, !.rsc.probe = IF @ = "running" THEN "unknown" ELSE @]
      s2 == FoldLeft(fail, s1, s.rsc.recurring)
      rest == IF s2.rsc.active = None THEN s2.rsc.pending ELSE <<s2.rsc.active>> \o s2.rsc.pending IN
  IF \E i \in DOMAIN s.rsc.recurring : s.cmd[s.rsc.recurring[i]].cancelled THEN Fault(s, "freed")
  ELSE IF \E i \in DOMAIN rest : s.cmd[rest[i]].interval > 0 THEN Fault(s2, "loop")
  ELSE FoldLeft(fail, [s2 EXCEPT !.rsc.pending = rest], rest)

FencerLost ==
  /\ conf.losses > 0 /\ fencer.up
  /\ Commit(ConnectionFailed(State))
  /\ conf' = [conf EXCEPT !.losses = @ - 1]
  /\ UNCHANGED calls

-----------------------------------------------------------------------------
Init ==
  /\ conf \in Configs
  /\ calls = 0
  /\ rsc = [NoRsc EXCEPT !.reg = TRUE]
  /\ cmd = [c \in Call |-> NoCmd]
  /\ op = [c \in Call |-> NoOp]
  /\ svc = NoSvc
  /\ fencer = NoFencer
  /\ told = [c \in Call |-> [answered |-> FALSE, final |-> 0, last |-> "none"]]
  /\ fault = "none"

Next ==
  \/ RscExec \/ RscCancel \/ RscUnregister \/ RscRegister \/ ClientLeaves
  \/ Work \/ FencerLost
  \/ \E c \in Call : DelayEnds(c) \/ TimerPops(c) \/ AgentEnds(c) \/ FencerAnswers(c)

Spec == Init /\ [][Next]_vars

(* The main loop runs triggers and timers, every process ends, if need be  *)
(* killed after its timeout, and the fencer answers or is lost.            *)
Fairness ==
  /\ <>[](rsc.reg /\ rsc.work) => []<><<Work>>_vars
  /\ \A c \in Call :
       /\ <>[](cmd[c].delay) => []<><<DelayEnds(c)>>_vars
       /\ <>[](op[c].pid) => []<><<AgentEnds(c)>>_vars
       /\ <>[](c \in fencer.calls) => []<><<FencerAnswers(c)>>_vars

LiveSpec == Spec /\ Fairness

-----------------------------------------------------------------------------
(* Properties *)

Live == {c \in Call : cmd[c].st = "live"}
Elements(list) == {list[i] : i \in DOMAIN list}

(* The state of the executor and of the service library is well formed; a  *)
(* resource that is not registered has no operations and no trigger        *)
(* (free_rsc).                                                             *)
TypeOK ==
  /\ conf \in Config /\ calls \in 0..MaxCalls
  /\ rsc \in [reg : BOOLEAN, active : Call \cup {None}, pending : Seq(Call), recurring : Seq(Call),
              work : BOOLEAN, probe : {"running", "stopped", "unknown"}]
  /\ cmd \in [Call -> [st : {"none", "live", "merged", "freed"}, act : {"start", "stop", "monitor"},
                       interval : Interval, call : Call \cup {None}, client : 0..2,
                       cancelled : BOOLEAN, delay : BOOLEAN, timer : BOOLEAN, sent : BOOLEAN,
                       last : Result \cup {"none"}, ran : BOOLEAN, res : Result \cup {"none"}]]
  /\ op \in [Call -> [st : {"none", "live", "freed"}, interval : Interval, cancel : BOOLEAN,
                      pid : BOOLEAN, timer : BOOLEAN]]
  /\ svc \in [inflight : Seq(Call), blocked : Seq(Call), recur : [Kept -> Call \cup {None}]]
  /\ fencer \in [up : BOOLEAN, calls : SUBSET Call, has : BOOLEAN]
  /\ told \in [Call -> [answered : BOOLEAN, final : 0..2, last : Result \cup {"none"}]]
  /\ fault \in {"none", "freed", "loop", "assert"}
  /\ ~rsc.reg => rsc = NoRsc

(* The service library runs one agent of a resource at a time, whether an  *)
(* action was started by the executor or by the library's own timer, and   *)
(* although the resource may have been unregistered and registered again.  *)
OneAgent == Cardinality({c \in Call : op[c].pid}) <= 1

(* No list, timer, process or outstanding call of the fencer refers to a   *)
(* command or service action that was freed, and nothing else went wrong   *)
(* (free_lrmd_cmd, services_action_free).                                  *)
NoDangling ==
  /\ TypeOK
  /\ fault = "none"
  /\ Elements(rsc.pending) \cup Elements(rsc.recurring) \cup fencer.calls \subseteq Live
  /\ rsc.active # None => rsc.active \in Live
  /\ \A c \in Call : cmd[c].delay \/ cmd[c].timer \/ op[c].pid \/ op[c].timer => c \in Live
  /\ \A o \in Elements(svc.inflight) \cup Elements(svc.blocked) \cup {svc.recur[i] : i \in Kept} :
       o # None => op[o].st = "live" /\ o \in Live

(* What will give a command its next result *)
Waits(c) ==
  \/ c \in Elements(rsc.pending)
  \/ op[c].st = "live" /\ (op[c].pid \/ op[c].timer \/ c \in Elements(svc.blocked))
  \/ c \in fencer.calls \/ cmd[c].timer

(* No command is stranded: each one waits in a queue, runs, or has a timer *)
(* running, so no recurring monitor silently ends.                         *)
Serviced == \A c \in Live : Waits(c)

(* A client that requests an action will be told its result: the command   *)
(* that has the call is going to run (include/crm/lrmd.h, exec()).         *)
QueuedIsAnswered == \A c \in Live : ~told[cmd[c].call].answered => Waits(c)

(* From the moment a stop is accepted until it is done, no recurring       *)
(* action requested before it can be started again.                        *)
StopQuiets ==
  \A s \in Live, c \in Live :
    cmd[s].act = "stop" /\ cmd[c].interval > 0 /\ cmd[c].call < cmd[s].call =>
      /\ c \notin Elements(rsc.pending) \cup Elements(svc.blocked)
      /\ ~cmd[c].timer /\ ~op[c].timer
      /\ op[c].cancel \/ cmd[c].cancelled

(* Each call ends once: its command is freed with exactly one final        *)
(* notification, unless the command was merged into another.               *)
EndsOnce == \A c \in Call : told[c].final = 0 \/ (told[c].final = 1 /\ ~\E d \in Live : cmd[d].call = c)

(* Every action requested gets a result, and every action that is being    *)
(* cancelled ends.                                                         *)
AllAnswered ==
  []<>(\A c \in Live : told[cmd[c].call].answered /\ ~cmd[c].cancelled /\ ~op[c].cancel)
===============================================================================
