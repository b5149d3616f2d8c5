------------------------------ MODULE FencerExec ------------------------------
(***************************************************************************)
(* The executing side of one fencer (daemons/fenced/fenced_commands.c):    *)
(* the table of devices, the queue of each device, the search for devices  *)
(* that can fence a target, and the fence agents.                          *)
(*                                                                         *)
(* Requests of peers and clients concern one target.  The daemon is single *)
(* threaded; every C function is an operator on the record s of its state, *)
(* and every action is one dispatch of its main loop.                      *)
(***************************************************************************)
EXTENDS Integers, FiniteSets, Sequences, SequencesExt

CONSTANTS
  Device,    \* names of fence devices
  Req,       \* requests
  NoDev,     \* no device
  Configs    \* configurations, see Config

(* The parameters of a device: how it is found out whether it can fence    *)
(* the target (pcmk_host_check), whether the user chose that, whether a    *)
(* static answer is yes, whether its agent supports "on" and must be used  *)
(* for unfencing, whether it has a delay, and its pcmk_action_limit.       *)
Params ==
  [check : {"static", "list", "status"}, explicit : BOOLEAN, can : BOOLEAN, on : BOOLEAN,
   unfence : BOOLEAN, delay : BOOLEAN, limit : Int]

(* What clients ask for: a fencing action with a given device or with any, *)
(* the devices that can fence the target, or a monitor of a device.        *)
Request ==
  [kind : {"fence", "query", "monitor"}, action : {"reboot", "on", "monitor"},
   device : Device \cup {NoDev}, client : Nat]

(* versions has the parameters a device may be registered with, the first  *)
(* of them at the start; order is the order of the hash table; changes     *)
(* bounds how often devices are registered and unregistered.               *)
Config ==
  [req : [Req -> Request], versions : [Device -> Seq(Params)], order : Seq(Device),
   api : SUBSET Device, cib : SUBSET Device, changes : Nat]

ASSUME ExecAssumption ==
  /\ NoDev \notin Device /\ Configs \subseteq Config
  /\ \A c \in Configs : ToSet(c.order) = Device /\ \A d \in Device : c.versions[d] # <<>>

VARIABLES
  conf,     \* the configuration
  dev,      \* device_table
  cmd,      \* commands (async_command_t)
  search,   \* searches for devices (struct device_search_s)
  reply     \* what was answered to each request

vars == <<conf, dev, cmd, search, reply>>

(* A command of a request, or the list or status command that the search   *)
(* for a request runs on a device.                                         *)
Cmd == Req \X (Device \cup {NoDev})
Own(r) == <<r, NoDev>>
Internal(c) == c[2] # NoDev

ActionOf(c) == IF Internal(c) THEN "check" ELSE conf.req[c[1]].action

-----------------------------------------------------------------------------
(* The state of the daemon *)

(* object tells one allocation of a device from the next. *)
Absent == [object |-> 0, version |-> 1, check |-> "static", api |-> FALSE, cib |-> FALSE,
           verified |-> FALSE, targets |-> "unknown", pending |-> <<>>, work |-> FALSE]

(* listed: in cmd_list; activeOn: the object it runs on; delayed: delay_id *)
(* is set; timers: start delays that will still expire.                    *)
NoCmd == [listed |-> FALSE, device |-> NoDev, check |-> "none", next |-> <<>>, activeOn |-> 0,
          slow |-> FALSE, delayed |-> FALSE, timers |-> 0]

NoSearch == [needed |-> 0, received |-> 0, capable |-> <<>>]

State == [dev |-> dev, cmd |-> cmd, search |-> search, reply |-> reply]

Registered(s) == {d \in Device : s.dev[d].api \/ s.dev[d].cib}
Param(s, d) == conf.versions[d][s.dev[d].version]
Trigger(s, d) == IF d \in Registered(s) THEN [s EXCEPT !.dev[d].work = TRUE] ELSE s
Reply(s, r, result) == [s EXCEPT !.reply[r] = Append(@, result)]

(* is_action_required *)
IsActionRequired(s, c, d) ==
  d \in Registered(s) /\ Param(s, d).unfence /\ ActionOf(c) = "on"

(* free_async_command *)
Free(s, c) ==
  [s EXCEPT !.cmd[c] = [NoCmd EXCEPT !.timers =
     IF s.cmd[c].delayed THEN s.cmd[c].timers - 1 ELSE s.cmd[c].timers]]

(* schedule_stonith_command: a command that was delayed once is delayed    *)
(* on every device.                                                        *)
Schedule(s, c, d) ==
  LET slow == s.cmd[c].slow \/ (Param(s, d).delay /\ ActionOf(c) = "reboot")
      k == [s.cmd[c] EXCEPT !.device = d, !.slow = slow,
              !.delayed = @ \/ slow, !.timers = IF slow THEN @ + 1 ELSE @]
  IN  [s EXCEPT !.cmd[c] = k, !.dev[d].pending = Append(@, c), !.dev[d].work = TRUE]

-----------------------------------------------------------------------------
(* Searching for devices *)

(* stonith_query_capable_device_cb *)
QueryDone(s, r, devices) ==
  Reply(s, r, [type |-> "devices", devices |-> ToSet(devices) \cap Registered(s)])

(* stonith_fence_get_devices_cb *)
FenceDevices(s, r, devices) ==
  IF devices = <<>> \/ Head(devices) \notin Registered(s)
  THEN Free(Reply(s, r, [type |-> "error"]), Own(r))
  ELSE Schedule([s EXCEPT !.cmd[Own(r)].next = Tail(devices)], Own(r), Head(devices))

(* search->callback *)
SearchDone(s, r, devices) ==
  LET t == [s EXCEPT !.search[r] = NoSearch]
  IN  IF conf.req[r].kind = "query" THEN QueryDone(t, r, devices)
      ELSE FenceDevices(t, r, devices)

(* Mutant: a device that cannot fence never ends the search. *)
RecordResultHalf(s, r, d, can) ==
  LET t == [s EXCEPT !.search[r].received = @ + 1,
                     !.search[r].capable = IF can THEN Append(@, d) ELSE @]
  IN  IF can /\ t.search[r].received = t.search[r].needed
      THEN SearchDone(t, r, t.search[r].capable)
      ELSE t

(* search_devices_record_result; a device that does not support the action *)
(* is counted, but the search is not ended by it.                          *)
RecordResult(s, r, d, can) ==
  LET found == can /\ d \in Registered(s)
      unsupported == /\ found /\ conf.req[r].kind = "fence" /\ conf.req[r].action = "on"
                     /\ ~Param(s, d).on
      t == [s EXCEPT !.search[r].received = @ + 1,
                     !.search[r].capable = IF found /\ ~unsupported THEN Append(@, d) ELSE @]
  IN  IF ~unsupported /\ t.search[r].received = t.search[r].needed
      THEN SearchDone(t, r, t.search[r].capable)
      ELSE t

(* can_fence_host_with_device; fresh: a list of targets is less than a     *)
(* minute old.                                                             *)
CanFence(s, r, d, fresh) ==
  LET k == s.dev[d]
  IN  IF conf.req[r].action = "on" /\ ~Param(s, d).on THEN RecordResult(s, r, d, FALSE)
      ELSE IF k.check = "static" THEN RecordResult(s, r, d, Param(s, d).can)
      ELSE IF k.check = "list" /\ k.targets # "unknown" /\ fresh
      THEN RecordResult(s, r, d, k.targets = "with")
      ELSE Schedule([s EXCEPT !.cmd[<<r, d>>].check = k.check], <<r, d>>, d)

(* get_capable_devices *)
GetCapableDevices(s, r, fresh) ==
  LET In(d) == d \in Registered(s)
      devices == SelectSeq(conf.order, In)
      Step(t, d) == CanFence(t, r, d, fresh)
  IN  IF devices = <<>> THEN SearchDone(s, r, <<>>)
      ELSE FoldLeft(Step, [s EXCEPT !.search[r] = [NoSearch EXCEPT !.needed = Len(devices)]],
                    devices)

(* The list of targets after a list command, whose outcome is "yes" or     *)
(* "no" if the agent could tell, else "error".  If it failed the list      *)
(* before is used; if there is none, status will be used from now on.      *)
ListDone(s, d, outcome) ==
  IF outcome # "error"
  THEN [s EXCEPT !.dev[d].targets = IF outcome = "yes" THEN "with" ELSE "without"]
  ELSE IF s.dev[d].targets = "unknown" /\ ~Param(s, d).explicit
  THEN [s EXCEPT !.dev[d].check = "status"] ELSE s

(* dynamic_list_search_cb and status_search_cb *)
CheckDone(s, c, outcome) ==
  LET d == c[2]
      t == Trigger(Free(s, c), d)
  IN  IF d \notin Registered(s) THEN RecordResult(t, c[1], NoDev, FALSE)
      ELSE IF s.cmd[c].check = "list"
      THEN RecordResult(ListDone(t, d, outcome), c[1], d,
                        ListDone(t, d, outcome).dev[d].targets = "with")
      ELSE RecordResult(t, c[1], d, outcome = "yes")

-----------------------------------------------------------------------------
(* Results of commands *)

(* next_required_device *)
NextRequired(s, c) ==
  LET next == s.cmd[c].next
      i == {j \in DOMAIN next : IsActionRequired(s, c, next[j])}
  IN  IF i = {} THEN <<>>
      ELSE SubSeq(next, CHOOSE j \in i : \A k \in i : j <= k, Len(next))

(* cancel_stonith_command *)
Cancel(s, c) ==
  LET d == s.cmd[c].device
  IN  IF d \in Registered(s) THEN [s EXCEPT !.dev[d].pending = Remove(@, c)] ELSE s

(* Mutant: a duplicate stays in the queue of its device. *)
ReplyToDuplicatesOnly(s, c) ==
  LET Same(k) ==
        /\ k # c /\ s.cmd[k].listed /\ s.cmd[k].activeOn = 0
        /\ conf.req[k[1]].client # conf.req[c[1]].client
        /\ ActionOf(k) = ActionOf(c) /\ s.cmd[k].device = s.cmd[c].device
      Merge(k, t) == Reply(t, k[1], [type |-> "ok"])
  IN  FoldSet(Merge, s, {k \in Cmd : Same(k)})

(* reply_to_duplicates *)
ReplyToDuplicates(s, c) ==
  LET Same(k) ==
        /\ k # c /\ s.cmd[k].listed /\ s.cmd[k].activeOn = 0
        /\ conf.req[k[1]].client # conf.req[c[1]].client
        /\ ActionOf(k) = ActionOf(c) /\ s.cmd[k].device = s.cmd[c].device
      Merge(k, t) == Free(Cancel(Reply(t, k[1], [type |-> "ok"]), k), k)
  IN  FoldSet(Merge, s, {k \in Cmd : Same(k)})

(* st_child_done *)
StChildDone(s, c, ok) ==
  LET d == s.cmd[c].device
      next == s.cmd[c].next
      checked == /\ ok /\ ActionOf(c) = "monitor" /\ d \in Registered(s)
      t == Trigger([s EXCEPT !.cmd[c].activeOn = 0,
                             !.dev[d].verified = @ \/ checked], d)
      left == IF ok THEN NextRequired(t, c)
              ELSE IF next # <<>> /\ ~IsActionRequired(t, c, d) THEN next ELSE <<>>
  IN  IF left # <<>> /\ Head(left) \in Registered(t)
      THEN Schedule([t EXCEPT !.cmd[c].next = Tail(left)], c, Head(left))
      ELSE LET u == Reply(t, c[1], [type |-> IF ok THEN "ok" ELSE "error"])
           IN  Free(IF ok THEN ReplyToDuplicates(u, c) ELSE u, c)

(* cmd->done_cb *)
Done(s, c, outcome) ==
  IF Internal(c) THEN CheckDone(s, c, outcome) ELSE StChildDone(s, c, outcome = "yes")

-----------------------------------------------------------------------------
(* Devices *)

(* free_device: its operations have failed. *)
Purge(s, pending) == FoldLeft(LAMBDA t, c : Done(t, c, "error"), s, pending)

NewDevice(s, d, v) ==
  [Absent EXCEPT !.object = s.dev[d].object + 1, !.version = v,
                 !.check = conf.versions[d][v].check]

(* device_has_duplicate *)
Duplicate(s, d, v) ==
  /\ d \in Registered(s) /\ s.dev[d].version = v
  /\ s.dev[d].check = conf.versions[d][v].check

(* Mutant: the queue of a device that is shared with a client is lost. *)
DeviceRegisterDrops(s, d, v, fromCib) ==
  LET old == s.dev[d]
      shared == fromCib /\ old.api
      new == [NewDevice(s, d, v) EXCEPT !.api = shared]
      Flag(x) == IF fromCib THEN [x EXCEPT !.cib = TRUE] ELSE [x EXCEPT !.api = TRUE]
  IN  IF Duplicate(s, d, v) THEN [s EXCEPT !.dev[d] = Flag(old)]
      ELSE Purge([s EXCEPT !.dev[d] = Flag(new)],
                 IF shared \/ d \notin Registered(s) THEN <<>> ELSE old.pending)

(* fenced_device_register *)
DeviceRegister(s, d, v, fromCib) ==
  LET old == s.dev[d]
      shared == fromCib /\ old.api
      new == [NewDevice(s, d, v) EXCEPT
                !.pending = IF shared THEN old.pending ELSE <<>>,
                !.work = shared /\ old.pending # <<>>,
                !.api = shared]
      Flag(x) == IF fromCib THEN [x EXCEPT !.cib = TRUE] ELSE [x EXCEPT !.api = TRUE]
  IN  IF Duplicate(s, d, v) THEN [s EXCEPT !.dev[d] = Flag(old)]
      ELSE Purge([s EXCEPT !.dev[d] = Flag(new)],
                 IF shared \/ d \notin Registered(s) THEN <<>> ELSE old.pending)

(* stonith_device_remove *)
DeviceRemove(s, d, fromCib) ==
  LET k == IF fromCib THEN [s.dev[d] EXCEPT !.cib = FALSE]
           ELSE [s.dev[d] EXCEPT !.api = FALSE, !.verified = FALSE]
  IN  IF d \notin Registered(s) THEN s
      ELSE IF k.api \/ k.cib THEN [s EXCEPT !.dev[d] = k]
      ELSE Purge([s EXCEPT !.dev[d] = [Absent EXCEPT !.object = k.object]], k.pending)

(* get_active_cmds *)
ActiveCmds(s, d) ==
  Cardinality({c \in Cmd : s.cmd[c].listed /\ s.cmd[c].activeOn = s.dev[d].object
                           /\ s.cmd[c].device = d})

(* stonith_device_execute: the first command without a delay is taken. *)
Ready(s, d) ==
  LET i == {j \in DOMAIN s.dev[d].pending : ~s.cmd[s.dev[d].pending[j]].delayed}
  IN  IF i = {} THEN <<>> ELSE <<s.dev[d].pending[CHOOSE j \in i : \A k \in i : j <= k]>>

(* get_action_limit *)
ActionLimit(s, d) == IF Param(s, d).limit = 0 THEN 1 ELSE Param(s, d).limit

(* Mutant: one action more than the limit is started. *)
OverLimitByOne(s, d) == ActionLimit(s, d) > -1 /\ ActiveCmds(s, d) > ActionLimit(s, d)

OverLimit(s, d) == ActionLimit(s, d) > -1 /\ ActiveCmds(s, d) >= ActionLimit(s, d)

-----------------------------------------------------------------------------
(* Actions *)

Commit(s) ==
  /\ dev' = s.dev /\ cmd' = s.cmd /\ search' = s.search /\ reply' = s.reply
  /\ UNCHANGED conf

(* create_async_command *)
Create(s, r) == [s EXCEPT !.cmd[Own(r)] = [NoCmd EXCEPT !.listed = TRUE,
                                                        !.device = conf.req[r].device]]

New(r) == reply[r] = <<>> /\ ~cmd[Own(r)].listed /\ search[r] = NoSearch

(* fence_locally *)
FenceLocally(r) ==
  /\ New(r) /\ conf.req[r].kind = "fence"
  /\ LET s == Create(State, r)
         d == conf.req[r].device
     IN  IF d = NoDev
         THEN \E fresh \in BOOLEAN : Commit(GetCapableDevices(s, r, fresh))
         ELSE Commit(IF d \notin Registered(s) THEN Reply(s, r, [type |-> "error"])
                     ELSE Schedule(s, Own(r), d))

(* handle_query_request *)
Query(r) ==
  /\ New(r) /\ conf.req[r].kind = "query"
  /\ \E fresh \in BOOLEAN : Commit(GetCapableDevices(State, r, fresh))

(* execute_agent_action *)
ExecuteAgent(r) ==
  /\ New(r) /\ conf.req[r].kind = "monitor"
  /\ LET d == conf.req[r].device
     IN  Commit(IF ~State.dev[d].api THEN Reply(State, r, [type |-> "error"])
                ELSE Schedule(Create(State, r), Own(r), d))

(* stonith_device_dispatch; the agent may fail to start, for example for   *)
(* want of secrets.                                                        *)
Dispatch(d) ==
  /\ dev[d].work
  /\ LET s == [State EXCEPT !.dev[d].work = FALSE]
         taken == Ready(s, d)
         t == [s EXCEPT !.dev[d].pending = Remove(@, taken[1])]
         Again(u) == IF u.dev[d].pending # <<>> THEN Trigger(u, d) ELSE u
     IN  IF OverLimit(s, d) \/ taken = <<>> THEN Commit(s)
         ELSE \/ Commit(Again([t EXCEPT !.cmd[taken[1]].activeOn = s.dev[d].object]))
              \/ Commit(Again(Done(t, taken[1], "error")))

(* start_delay_helper *)
DelayEnds(c) ==
  /\ cmd[c].timers > 0
  /\ Commit(Trigger([State EXCEPT !.cmd[c].timers = @ - 1, !.cmd[c].delayed = FALSE],
                    cmd[c].device))

(* An agent ends, after all its attempts (stonith_action_async_done). *)
AgentEnds(c) ==
  /\ cmd[c].activeOn # 0
  /\ \E outcome \in {"yes", "error"} \cup (IF Internal(c) THEN {"no"} ELSE {}) :
       Commit(Done(State, c, outcome))

(* The CIB or a client registers or unregisters a device. *)
DeviceChange ==
  /\ conf.changes > 0
  /\ \E d \in Device, fromCib \in BOOLEAN :
       \E s \in {DeviceRegister(State, d, v, fromCib) : v \in DOMAIN conf.versions[d]}
                \cup {DeviceRemove(State, d, fromCib)} :
         /\ dev' = s.dev /\ cmd' = s.cmd /\ search' = s.search /\ reply' = s.reply
  /\ conf' = [conf EXCEPT !.changes = @ - 1]

-----------------------------------------------------------------------------
(* Specification *)

Init ==
  /\ conf \in Configs
  /\ dev = [d \in Device |-> IF d \notin conf.api \cup conf.cib THEN Absent
                             ELSE [Absent EXCEPT !.object = 1, !.api = d \in conf.api,
                                     !.cib = d \in conf.cib,
                                     !.check = conf.versions[d][1].check]]
  /\ cmd = [c \in Cmd |-> NoCmd]
  /\ search = [r \in Req |-> NoSearch]
  /\ reply = [r \in Req |-> <<>>]

MainLoop ==
  (\E d \in Device : Dispatch(d)) \/ (\E c \in Cmd : DelayEnds(c) \/ AgentEnds(c))

Next ==
  \/ \E r \in Req : FenceLocally(r) \/ Query(r) \/ ExecuteAgent(r)
  \/ MainLoop \/ DeviceChange

Spec == Init /\ [][Next]_vars

CanRun == (\E d \in Device : dev[d].work) \/ (\E c \in Cmd : cmd[c].timers > 0 \/ cmd[c].activeOn # 0)

(* The main loop dispatches triggers, timers and ended children. *)
Fairness == <>[]CanRun => []<><<MainLoop>>_vars

LiveSpec == Spec /\ Fairness

-----------------------------------------------------------------------------
(* Properties *)

Active == {c \in Cmd : cmd[c].activeOn # 0}
Queued(c, d) == Contains(dev[d].pending, c)

(* Devices and commands are well formed; a device that is not registered   *)
(* has nothing to do, and a delayed command has a timer.                   *)
TypeOK ==
  /\ conf \in Config
  /\ \A d \in Device : /\ dev[d].object \in Nat /\ dev[d].version \in DOMAIN conf.versions[d]
                       /\ dev[d].targets \in {"unknown", "with", "without"}
                       /\ dev[d].pending \in Seq(Cmd)
                       /\ d \notin Registered(State) => ~dev[d].work /\ dev[d].pending = <<>>
  /\ \A c \in Cmd : /\ cmd[c].device \in Device \cup {NoDev} /\ cmd[c].next \in Seq(Device)
                    /\ cmd[c].timers \in Nat /\ cmd[c].delayed => cmd[c].timers > 0
  /\ \A r \in Req : search[r].received <= search[r].needed

(* A command that is not answered is in exactly one place: with the search *)
(* for its device, in the queue of its device, or running, also when the   *)
(* device is replaced or removed (fenced_device_register, free_device).    *)
OnePlace ==
  TypeOK /\ \A c \in Cmd :
    \/ ~cmd[c].listed /\ cmd[c].check = "none"
    \/ reply[c[1]] # <<>>
    \/ Cardinality({d \in Device : Queued(c, d) /\ cmd[c].device = d})
         + (IF c \in Active THEN 1 ELSE 0)
         + (IF ~Internal(c) /\ search[c[1]] # NoSearch THEN 1 ELSE 0) = 1

(* Every request is answered at most once, also if it is merged with that  *)
(* of another client (reply_to_duplicates) or its device is removed.       *)
AnsweredOnce == \A r \in Req : Len(reply[r]) <= 1

(* Not more requested commands run on a device than its action limit       *)
(* allows; a limit of 0 is taken for 1 (get_action_limit).                 *)
LimitRespected ==
  \A d \in Registered(State) :
    LET limit == Param(State, d).limit
    IN  limit > -1 => ActiveCmds(State, d) <= IF limit = 0 THEN 1 ELSE limit

(* Every request is answered, whatever agents do and whatever happens to   *)
(* the devices in the meantime.                                            *)
AllAnswered == []<>(\A r \in Req : New(r) \/ reply[r] # <<>>)
===============================================================================
