-------------------------------- MODULE Fencer --------------------------------
(***************************************************************************)
(* The fencers of a cluster (daemons/fenced): how the fencer that gets a   *)
(* request to reboot a node (the originator) asks its peers what devices   *)
(* they have, has them run one after the other, and tells everyone.        *)
(*                                                                         *)
(* A process is a record fencer[n] with its view of the cluster, its table *)
(* of operations (stonith_remote_op_list), the work it does for others and *)
(* what it sends; every C function is an operator from record to record,   *)
(* and a handler is a composition of them.  All operations are requests to *)
(* reboot the one node conf.target.                                        *)
(***************************************************************************)
EXTENDS Integers, FiniteSets, Sequences, FiniteSetsExt, Functions

CONSTANTS
  Node,      \* cluster nodes
  Op,        \* fencing operations
  Device,    \* fence devices
  NoDev,     \* no particular device is asked for
  NoPeer,    \* no peer
  Configs    \* configurations and requests, see Config

(* What the administrator configured and what clients will ask for: the    *)
(* topology of the target (the devices of each level, no level if there is *)
(* no topology), the devices each node can run and those of them it has    *)
(* monitored, devices that stay off after a reboot, whether the target has *)
(* a watchdog, where each operation is requested, which of them are manual *)
(* confirmations, the client names, how many daemons may die, and how many *)
(* timers may expire while messages are in flight.                         *)
Config ==
  [target : Node, levels : Seq(Seq(Device)), has : [Node -> SUBSET Device],
   verified : [Node -> SUBSET Device], stayoff : SUBSET Device, watchdog : BOOLEAN,
   up : SUBSET Node, at : UNION {[S -> Node] : S \in SUBSET Op}, manual : SUBSET Op,
   client : [Op -> Nat], deaths : Nat, early : Nat]

ASSUME FencerAssumption ==
  /\ NoDev \notin Device /\ NoPeer \notin Node /\ IsFiniteSet(Node)
  /\ Configs \subseteq Config

VARIABLES
  conf,     \* the configuration, and what the environment may still do
  fencer,   \* state of the daemon on each node
  live,     \* nodes whose daemon runs
  inbox,    \* what CPG will deliver to each node
  off,      \* devices that have cut the power of the target
  fenced    \* operations since whose request the target was without power

vars == <<conf, fencer, live, inbox, off, fenced>>

Requested == DOMAIN conf.at
Topology == conf.levels # <<>>
Levels == Len(conf.levels)

(* op->state *)
InProgress == {"query", "exec"}
Ended == {"done", "failed"}

-----------------------------------------------------------------------------
(* Messages *)

QueryMsg(o) == [type |-> "query", op |-> o]
QueryReply(o, n) == [type |-> "query-reply", op |-> o, from |-> n]
FenceMsg(o, device, action) ==
  [type |-> "fence", op |-> o, device |-> device, action |-> action]
FenceReply(o, device, result) ==
  [type |-> "fence-reply", op |-> o, device |-> device, result |-> result]
BroadcastMsg(o, result) == [type |-> "broadcast", op |-> o, result |-> result]
LeftMsg(n) == [type |-> "left", node |-> n]

Send(s, to, m) ==
  [s EXCEPT !.out = [p \in Node |-> IF p \in to THEN Append(s.out[p], m) ELSE s.out[p]]]

-----------------------------------------------------------------------------
(* Operations (remote_fencing_op_t) *)

(* results is query_results; used has the devices that peers were asked to *)
(* run in a phase (executed[] of the device, or tried of the peer); told   *)
(* is what local clients were told (notify_sent).                          *)
NewOp(expected) ==
  [state |-> "query", phase |-> "requested", level |-> 0, devices |-> <<>>,
   results |-> <<>>, used |-> {}, replies |-> 0, expected |-> expected,
   queryTimer |-> FALSE, totalTimer |-> FALSE, oneTimer |-> "none",
   result |-> "unknown", told |-> "nothing", duplicates |-> {}]

NoOp == [NewOp(0) EXCEPT !.state = "none"]

Known(s) == {o \in Op : s.ops[o].state # "none"}
Owner(n, o) == o \in Requested /\ conf.at[o] = n
Update(s, o, r) == [s EXCEPT !.ops[o] = r]

(* op->action; a reboot is remapped to off and on *)
Action(r) == IF r.phase = "requested" THEN "reboot" ELSE r.phase

CurrentDevice(r) == IF r.devices = <<>> THEN NoDev ELSE Head(r.devices)

ActivePeers(s) == Cardinality(s.view)

(* clear_remote_op_timers *)
ClearTimers(r) ==
  [r EXCEPT !.queryTimer = FALSE, !.totalTimer = FALSE, !.oneTimer = "none"]

(* finalize_op with a result of our own: everybody, and we among them, is  *)
(* told by a broadcast.                                                    *)
FinalizeOp(n, s, o, r) ==
  IF r.told # "nothing" THEN Update(s, o, ClearTimers(r))
  ELSE Send(Update(s, o, [ClearTimers(r) EXCEPT !.phase = "requested"]),
            Node, BroadcastMsg(o, r.result))

(* finalize_timed_out_op *)
FinalizeTimedOut(n, s, o, r) ==
  FinalizeOp(n, s, o,
    IF r.phase = "on" THEN [r EXCEPT !.state = "done", !.result = "ok"]
    ELSE [r EXCEPT !.state = "failed", !.result = "timeout"])

(* handle_local_reply_and_notify, and the end of finalize_op *)
Notify(r) ==
  [ClearTimers(r) EXCEPT !.phase = "requested", !.results = <<>>, !.used = {},
     !.told = IF r.result = "ok" THEN "ok" ELSE "failure"]

(* Mutant: the duplicates of an operation are not finalized. *)
FinalizeBroadcastAlone(s, o, r) ==
  IF r.told # "nothing" THEN Update(s, o, ClearTimers(r))
  ELSE Update(s, o, Notify(r))

(* Mutant: notify_sent is not tested, so that every broadcast counts. *)
FinalizeBroadcastAgain(s, o, r) ==
  [s EXCEPT !.ops = [p \in Op |->
     IF p = o THEN Notify(r)
     ELSE IF p \in r.duplicates /\ s.ops[p].state = "duplicate"
     THEN Notify([s.ops[p] EXCEPT !.state = r.state, !.result = r.result])
     ELSE s.ops[p]]]

(* finalize_op for a broadcast, with finalize_op_duplicates *)
FinalizeBroadcast(s, o, r) ==
  IF r.told # "nothing" THEN Update(s, o, ClearTimers(r))
  ELSE [s EXCEPT !.ops = [p \in Op |->
         IF p = o THEN Notify(r)
         ELSE IF p \in r.duplicates /\ s.ops[p].state = "duplicate"
         THEN IF s.ops[p].told # "nothing"
              THEN [ClearTimers(s.ops[p]) EXCEPT !.state = r.state, !.result = r.result]
              ELSE Notify([s.ops[p] EXCEPT !.state = r.state, !.result = r.result])
         ELSE s.ops[p]]]

-----------------------------------------------------------------------------
(* Topology levels and peers *)

(* advance_topology_level to level l: more than one device are switched    *)
(* off and then on again.  The devices stay when there is no such level.   *)
AtLevel(r, l) ==
  IF l > Levels
  THEN [r EXCEPT !.level = Levels + 1, !.phase = "requested",
                 !.devices = IF r.level >= Levels THEN @ ELSE conf.levels[Levels]]
  ELSE [r EXCEPT !.level = l, !.devices = conf.levels[l],
                 !.phase = IF Len(conf.levels[l]) > 1 THEN "off" ELSE "requested"]

AdvanceLevel(r) == AtLevel(r, r.level + 1)

Exhausted(r) == r.level > Levels

(* find_best_peer *)
FindBestPeer(r, verifiedOnly, hosts) ==
  LET d == CurrentDevice(r)
      Capable(p) ==
        /\ p \in hosts
        /\ <<p, d, r.phase>> \notin r.used
        /\ LET devices == IF verifiedOnly THEN conf.verified[p] ELSE conf.has[p]
           IN  IF Topology THEN d \in devices ELSE devices # {}
      capable == {i \in 1..Len(r.results) : Capable(r.results[i])}
  IN  IF capable = {} THEN NoPeer ELSE r.results[Min(capable)]

Waiting(s, r) == r.queryTimer /\ r.replies < Min({r.expected, ActivePeers(s)})

(* stonith_choose_peer for the current level *)
BestPeer(s, r) ==
  LET others == Node \ {conf.target}
      verified == FindBestPeer(r, TRUE, others)
      any == FindBestPeer(r, FALSE, others)
  IN  IF verified # NoPeer THEN verified
      ELSE IF Waiting(s, r) THEN NoPeer
      ELSE IF any # NoPeer THEN any
      ELSE IF r.phase # "on" THEN FindBestPeer(r, FALSE, {conf.target})
      ELSE NoPeer

(* stonith_choose_peer: the peer, and the operation at the level at which  *)
(* it is needed.                                                           *)
ChoosePeer(s, r) ==
  LET later == {l \in (r.level + 1)..Levels : BestPeer(s, AtLevel(r, l)) # NoPeer}
      next == AtLevel(r, IF later = {} THEN Levels + 1 ELSE Min(later))
  IN  IF \/ BestPeer(s, r) # NoPeer \/ Waiting(s, r)
         \/ r.phase = "on" \/ ~Topology
      THEN [op |-> r, peer |-> BestPeer(s, r)]
      ELSE [op |-> next, peer |-> IF later = {} THEN NoPeer ELSE BestPeer(s, next)]

(* is_watchdog_fencing: no device that is not the watchdog *)
WatchdogFencing(r) == conf.watchdog /\ CurrentDevice(r) = NoDev /\ r.phase # "on"

(* The request to a peer in request_peer_fencing *)
Ask(s, o, r, p) ==
  Send(Update(s, o, [r EXCEPT !.state = "exec", !.totalTimer = TRUE,
                       !.oneTimer = IF WatchdogFencing(r) THEN "watchdog" ELSE "peer",
                       !.used = @ \cup {<<p, CurrentDevice(r), r.phase>>}]),
       {p}, FenceMsg(o, CurrentDevice(r), Action(r)))

(* The "on" phase of request_peer_fencing and                              *)
(* advance_topology_device_in_level: devices that stay off, and devices    *)
(* nobody can run, are skipped.                                            *)
TurnOn(n, s, o, r) ==
  LET At(i) == [r EXCEPT !.devices = SubSeq(r.devices, i, Len(r.devices))]
      usable == {i \in 1..Len(r.devices) :
                   /\ r.devices[i] \notin conf.stayoff
                   /\ BestPeer(s, At(i)) # NoPeer}
  IN  IF usable = {}
      THEN FinalizeOp(n, s, o,
             [r EXCEPT !.devices = <<>>, !.state = "done", !.result = "ok"])
      ELSE Ask(s, o, At(Min(usable)), BestPeer(s, At(Min(usable))))

(* Mutant: replies are compared with the number of the other peers. *)
NobodyToAskEarly(n, s, o, r) ==
  IF ~r.queryTimer
  THEN IF r.state \in InProgress THEN FinalizeTimedOut(n, s, o, r)
       ELSE [Update(s, o, r) EXCEPT !.checkFailed = TRUE]
  ELSE IF r.replies >= r.expected - 1
  THEN FinalizeOp(n, s, o, [r EXCEPT !.result = IF r.state = "query" THEN "no device" ELSE @,
                                     !.state = "failed"])
  ELSE Update(s, o, r)

(* request_peer_fencing when no peer was found *)
NobodyToAsk(n, s, o, r) ==
  IF ~r.queryTimer
  THEN IF r.state \in InProgress THEN FinalizeTimedOut(n, s, o, r)
       ELSE [Update(s, o, r) EXCEPT !.checkFailed = TRUE]
  ELSE IF r.replies >= r.expected \/ r.replies >= ActivePeers(s)
  THEN IF WatchdogFencing(r)
       THEN Update(s, o, [r EXCEPT !.oneTimer = "watchdog", !.state = "exec"])
       ELSE FinalizeOp(n, s, o,
              [r EXCEPT !.result = IF r.state = "query" \/ Topology THEN "no device" ELSE @,
                        !.state = "failed"])
  ELSE Update(s, o, r)

(* request_peer_fencing; preferred is ignored if topology is in use *)
RequestPeerFencing(n, s, o, preferred) ==
  LET r == s.ops[o]
      c == IF ~Topology /\ preferred # NoPeer THEN [op |-> r, peer |-> preferred]
           ELSE ChoosePeer(s, r)
  IN  IF r.phase = "on" THEN TurnOn(n, s, o, r)
      ELSE IF c.peer # NoPeer THEN Ask(s, o, c.op, c.peer)
      ELSE NobodyToAsk(n, s, o, [c.op EXCEPT !.totalTimer = TRUE])

(* advance_topology_device_in_level after a device succeeded *)
AdvanceDevice(n, s, o, r) ==
  LET rest == IF r.devices = <<>> THEN <<>> ELSE Tail(r.devices)
      next == [r EXCEPT !.result = "ok", !.devices = rest]
  IN  IF rest # <<>> THEN RequestPeerFencing(n, Update(s, o, next), o, NoPeer)
      ELSE IF r.phase = "off"
      THEN TurnOn(n, s, o, [next EXCEPT !.phase = "on", !.devices = conf.levels[r.level]])
      ELSE FinalizeOp(n, s, o, [next EXCEPT !.state = "done"])

-----------------------------------------------------------------------------
(* Creating operations *)

(* merge_duplicates: the operations in progress that o piggybacks on.  An  *)
(* operation that has outlived its total timeout is passed over; old has   *)
(* those of them that are that old.                                        *)
MayBeOld(s) ==
  {p \in Known(s) : s.ops[p].state = "exec" \/ s.ops[p].duplicates # {}}

Alike(s, o) ==
  {p \in Known(s) \ {o} : /\ s.ops[p].state \in InProgress
                          /\ conf.client[p] # conf.client[o]
                          /\ conf.at[p] # conf.target}

(* create_remote_stonith_op *)
CreateOp(s, o, old) ==
  LET orphans == {p \in Alike(s, o) : conf.at[p] \notin s.view}
      merged == (Alike(s, o) \ orphans) \ old
  IN  [s EXCEPT !.ops = [p \in Op |->
         IF p = o
         THEN [NewOp(ActivePeers(s)) EXCEPT !.state = IF merged = {} THEN @ ELSE "duplicate"]
         ELSE IF p \in orphans THEN [s.ops[p] EXCEPT !.state = "failed"]
         ELSE IF p \in merged THEN [s.ops[p] EXCEPT !.duplicates = @ \cup {o}]
         ELSE s.ops[p]]]

(* initiate_remote_stonith_op: a duplicate waits for the other operation. *)
InitiateOp(n, s, o, old) ==
  LET c == CreateOp(s, o, old)
      r == IF Topology THEN AdvanceLevel(c.ops[o]) ELSE c.ops[o]
  IN  IF r.state = "duplicate" THEN Update(c, o, r)
      ELSE Send(Update(c, o, [r EXCEPT !.queryTimer = TRUE]), Node, QueryMsg(o))

(* fenced_handle_manual_confirmation *)
ManualConfirmation(n, s, o, old) ==
  LET c == CreateOp(s, o, old)
  IN  FinalizeOp(n, c, o, [c.ops[o] EXCEPT !.state = "done", !.result = "ok"])

-----------------------------------------------------------------------------
(* Handlers *)

(* handle_query_request: what the node can do is found out asynchronously. *)
HandleQuery(s, m, old) ==
  LET c == IF m.op \in Known(s) THEN s ELSE CreateOp(s, m.op, old)
  IN  [c EXCEPT !.work = @ \cup {m}]

(* handle_fence_request for a peer (fence_locally) *)
HandleFence(s, m) == [s EXCEPT !.work = @ \cup {m}]

(* add_result: peers with more devices come first. *)
AddResult(r, p) ==
  LET Devices(q) == Cardinality(conf.has[q])
      before == {i \in 1..Len(r.results) : Devices(r.results[i]) > Devices(p)}
      k == Cardinality(before)
  IN  IF conf.has[p] = {} THEN r
      ELSE [r EXCEPT !.results = SubSeq(@, 1, k) \o <<p>> \o SubSeq(@, k + 1, Len(@))]

(* all_topology_devices_found *)
AllDevicesFound(r) ==
  \A l \in 1..Levels : \A d \in Range(conf.levels[l]) :
    \E p \in Range(r.results) \ {conf.target} :
      d \in conf.has[p] /\ <<p, d, r.phase>> \notin r.used

(* process_remote_stonith_query *)
HandleQueryReply(n, s, m) ==
  LET o == m.op
      q == s.ops[o]
      replies == q.replies + 1
      allReplied == replies >= Min({q.expected, ActivePeers(s)})
      r == [AddResult(q, m.from) EXCEPT !.replies = replies, !.result = "ok"]
      promising == IF Topology THEN AllDevicesFound(r)
                   ELSE m.from # conf.target /\ conf.verified[m.from] # {}
  IN  IF q.state = "query" /\ (promising \/ allReplied)
      THEN RequestPeerFencing(n, Update(s, o, r), o,
                              IF promising THEN m.from ELSE NoPeer)
      ELSE Update(s, o, r)

(* fenced_process_fencing_reply for a broadcast *)
HandleBroadcast(s, m, old) ==
  LET c == IF m.op \in Known(s) THEN s
           ELSE IF m.result = "ok" THEN CreateOp(s, m.op, old) ELSE s
  IN  IF m.op \notin Known(c) THEN s
      ELSE FinalizeBroadcast(c, m.op,
             [c.ops[m.op] EXCEPT !.result = m.result,
                !.state = IF m.result = "ok" THEN "done" ELSE "failed"])

(* Mutant: an outdated reply counts for the device that runs now. *)
HandleFenceReplyAny(n, s, m) ==
  LET o == m.op
      r == [s.ops[o] EXCEPT !.result = m.result]
      next == AdvanceLevel(r)
  IN  IF Topology
      THEN IF r.state = "done" THEN FinalizeOp(n, s, o, r)
           ELSE IF r.phase = "on" \/ r.result = "ok" THEN AdvanceDevice(n, s, o, r)
           ELSE IF Exhausted(next) THEN FinalizeOp(n, s, o, [next EXCEPT !.state = "failed"])
           ELSE RequestPeerFencing(n, Update(s, o, next), o, NoPeer)
      ELSE IF r.result = "ok" THEN FinalizeOp(n, s, o, [r EXCEPT !.state = "done"])
      ELSE RequestPeerFencing(n, Update(s, o, r), o, NoPeer)

(* fenced_process_fencing_reply for a reply to the originator: the result  *)
(* is recorded even if it is outdated.  A failure to turn a device on      *)
(* again does not matter.                                                  *)
HandleFenceReply(n, s, m) ==
  LET o == m.op
      r == [s.ops[o] EXCEPT !.result = m.result]
      next == AdvanceLevel(r)
  IN  IF r.devices # <<>> /\ m.device # NoDev /\ m.device # Head(r.devices)
      THEN Update(s, o, r)
      ELSE IF Topology
      THEN IF r.state = "done" THEN FinalizeOp(n, s, o, r)
           ELSE IF r.phase = "on" \/ r.result = "ok" THEN AdvanceDevice(n, s, o, r)
           ELSE IF Exhausted(next) THEN FinalizeOp(n, s, o, [next EXCEPT !.state = "failed"])
           ELSE RequestPeerFencing(n, Update(s, o, next), o, NoPeer)
      ELSE IF r.result = "ok" THEN FinalizeOp(n, s, o, [r EXCEPT !.state = "done"])
      ELSE IF r.result = "timeout" THEN FinalizeOp(n, s, o, [r EXCEPT !.state = "failed"])
      ELSE RequestPeerFencing(n, Update(s, o, r), o, NoPeer)

(* fenced_peer_message *)
Handle(n, s, m, old) ==
  CASE m.type = "left" -> [s EXCEPT !.view = @ \ {m.node}]
    [] m.type = "query" -> HandleQuery(s, m, old)
    [] m.type = "query-reply" -> HandleQueryReply(n, s, m)
    [] m.type = "fence" -> HandleFence(s, m)
    [] m.type = "fence-reply" -> HandleFenceReply(n, s, m)
    [] m.type = "broadcast" -> HandleBroadcast(s, m, old)

-----------------------------------------------------------------------------
(* Actions *)

NoMail == [p \in Node |-> <<>>]

(* Daemon n ends a handler in state s; CPG delivers what it sent to all    *)
(* running daemons in one order.                                           *)
Commit(n, s, boxes) ==
  /\ fencer' = [fencer EXCEPT ![n] = [s EXCEPT !.out = NoMail]]
  /\ inbox' = [p \in Node |-> IF p \in live THEN boxes[p] \o s.out[p] ELSE <<>>]

(* The devices of a level cut the power of the target together. *)
Cut(devices) == \E l \in 1..Levels : Range(conf.levels[l]) \subseteq devices

(* The operations that o stands for: o, and those whose originator has     *)
(* merged them with o.                                                     *)
Covered(o) ==
  {o} \cup {p \in Requested : p \in fencer[conf.at[p]].ops[o].duplicates}

(* handle_fence_request for a client *)
Request(n, o) ==
  /\ n \in live /\ Owner(n, o) /\ fencer[n].ops[o].state = "none"
  /\ \E old \in SUBSET MayBeOld(fencer[n]) :
       IF o \in conf.manual
       THEN /\ Commit(n, ManualConfirmation(n, fencer[n], o, old), inbox)
            /\ fenced' = fenced \cup {o}
       ELSE /\ Commit(n, InitiateOp(n, fencer[n], o, old), inbox)
            /\ fenced' = IF \/ Cut(off)
                            \/ \E p \in fenced :
                                 o \in CreateOp(fencer[n], o, old).ops[p].duplicates
                         THEN fenced \cup {o} ELSE fenced
  /\ UNCHANGED <<conf, live, off>>

Deliver(n) ==
  /\ n \in live /\ inbox[n] # <<>>
  /\ \E old \in SUBSET MayBeOld(fencer[n]) :
       Commit(n, Handle(n, fencer[n], Head(inbox[n]), old), [inbox EXCEPT ![n] = Tail(@)])
  /\ UNCHANGED <<conf, live, off, fenced>>

(* stonith_query_capable_device_cb *)
AnswerQuery(n) ==
  /\ n \in live
  /\ \E m \in fencer[n].work :
       /\ m.type = "query"
       /\ Commit(n, Send([fencer[n] EXCEPT !.work = @ \ {m}], {conf.at[m.op]},
                         QueryReply(m.op, n)), inbox)
  /\ UNCHANGED <<conf, live, off, fenced>>

(* A fence agent ends with an error or is killed after its timeout         *)
(* (st_child_done, send_async_reply).                                      *)
AgentFails(n) ==
  /\ n \in live
  /\ \E m \in fencer[n].work, result \in {"error", "timeout"} :
       /\ m.type = "fence"
       /\ Commit(n, Send([fencer[n] EXCEPT !.work = @ \ {m}], {conf.at[m.op]},
                         FenceReply(m.op, m.device, result)), inbox)
  /\ UNCHANGED <<conf, live, off, fenced>>

(* A fence agent succeeds.  Once its power is cut the target is gone,      *)
(* together with an answer that it would have sent itself.                 *)
AgentSucceeds(n) ==
  /\ n \in live
  /\ \E m \in fencer[n].work :
       LET s == Send([fencer[n] EXCEPT !.work = @ \ {m}], {conf.at[m.op]},
                     FenceReply(m.op, m.device, "ok"))
           down == m.action = "reboot" \/ (m.action = "off" /\ Cut(off \cup {m.device}))
           dead == IF down THEN {conf.target} \cap live ELSE {}
       IN  /\ m.type = "fence"
           /\ off' = IF m.action = "off" THEN off \cup {m.device} ELSE off \ {m.device}
           /\ fenced' = IF down THEN fenced \cup
                          {o \in Requested : fencer[conf.at[o]].ops[o].state # "none"}
                        ELSE fenced
           /\ live' = live \ dead
           /\ fencer' = [p \in Node |->
                IF p \in dead THEN [fencer[p] EXCEPT !.work = {}]
                ELSE IF p = n THEN [s EXCEPT !.out = NoMail] ELSE fencer[p]]
           /\ inbox' = [p \in Node |->
                IF p \notin live' THEN <<>>
                ELSE inbox[p] \o (IF n \in dead THEN <<>> ELSE s.out[p])
                              \o (IF dead = {} THEN <<>> ELSE <<LeftMsg(conf.target)>>)]
  /\ UNCHANGED conf

(* Timeouts are seconds or minutes, so that messages are usually delivered *)
(* and queries answered before a timer expires.  A fence agent may take    *)
(* longer.                                                                 *)
Quiet ==
  \A n \in live : inbox[n] = <<>> /\ \A m \in fencer[n].work : m.type = "fence"

Expire ==
  /\ \/ Quiet /\ UNCHANGED conf
     \/ ~Quiet /\ conf.early > 0 /\ conf' = [conf EXCEPT !.early = @ - 1]
  /\ UNCHANGED <<live, off>>

(* remote_op_query_timeout *)
QueryTimeout(n, o) ==
  /\ n \in live /\ fencer[n].ops[o].queryTimer
  /\ LET r == [fencer[n].ops[o] EXCEPT !.queryTimer = FALSE]
         s == Update(fencer[n], o, r)
     IN  Commit(n, IF r.state \in {"done", "exec"} THEN s
                   ELSE IF r.results # <<>> THEN RequestPeerFencing(n, s, o, NoPeer)
                   ELSE FinalizeTimedOut(n, s, o, r), inbox)
  /\ Expire /\ UNCHANGED fenced

(* remote_op_timeout *)
TotalTimeout(n, o) ==
  /\ n \in live /\ fencer[n].ops[o].totalTimer
  /\ LET r == [fencer[n].ops[o] EXCEPT !.totalTimer = FALSE]
     IN  Commit(n, IF r.state = "done" THEN Update(fencer[n], o, r)
                   ELSE FinalizeTimedOut(n, fencer[n], o, r), inbox)
  /\ Expire /\ UNCHANGED fenced

(* remote_op_timeout_one *)
PeerTimeout(n, o) ==
  /\ n \in live /\ fencer[n].ops[o].oneTimer = "peer"
  /\ Commit(n, RequestPeerFencing(n, Update(fencer[n], o,
                 [fencer[n].ops[o] EXCEPT !.oneTimer = "none", !.result = "timeout"]),
                 o, NoPeer), inbox)
  /\ Expire /\ UNCHANGED fenced

(* remote_op_watchdog_done: by now the watchdog has reset the target. *)
WatchdogDone(n, o) ==
  /\ n \in live /\ fencer[n].ops[o].oneTimer = "watchdog"
  /\ Commit(n, FinalizeOp(n, fencer[n], o,
                 [fencer[n].ops[o] EXCEPT !.oneTimer = "none", !.state = "done",
                                          !.result = "ok"]), inbox)
  /\ fenced' = fenced \cup Covered(o)
  /\ Expire

(* A daemon or its node dies. *)
Die(n) ==
  /\ n \in live /\ conf.deaths > 0
  /\ conf' = [conf EXCEPT !.deaths = @ - 1]
  /\ live' = live \ {n}
  /\ fencer' = [fencer EXCEPT ![n].work = {}]
  /\ inbox' = [p \in Node |-> IF p \in live' THEN Append(inbox[p], LeftMsg(n)) ELSE <<>>]
  /\ UNCHANGED <<off, fenced>>

-----------------------------------------------------------------------------
(* Specification *)

Init ==
  /\ conf \in Configs
  /\ live = conf.up
  /\ fencer = [n \in Node |-> [view |-> conf.up, ops |-> [o \in Op |-> NoOp],
                               work |-> {}, out |-> NoMail, checkFailed |-> FALSE]]
  /\ inbox = NoMail
  /\ off = {} /\ fenced = {}

Timeouts(n) ==
  \E o \in Op : \/ QueryTimeout(n, o) \/ TotalTimeout(n, o)
                \/ PeerTimeout(n, o) \/ WatchdogDone(n, o)

Next ==
  \E n \in Node :
    \/ \E o \in Op : Request(n, o)
    \/ Deliver(n) \/ AnswerQuery(n) \/ AgentFails(n) \/ AgentSucceeds(n)
    \/ Timeouts(n) \/ Die(n)

Spec == Init /\ [][Next]_vars

(* The main loop of each daemon dispatches messages, ended children and    *)
(* expired timers.                                                         *)
MainLoop(n) ==
  Deliver(n) \/ AnswerQuery(n) \/ AgentFails(n) \/ AgentSucceeds(n) \/ Timeouts(n)

CanRun ==
  \E n \in live : \/ inbox[n] # <<>> \/ fencer[n].work # {}
                  \/ \E o \in Op : LET r == fencer[n].ops[o]
                                   IN  r.queryTimer \/ r.totalTimer \/ r.oneTimer # "none"

Fairness == <>[]CanRun => []<><<\E n \in Node : MainLoop(n)>>_vars

LiveSpec == Spec /\ Fairness

-----------------------------------------------------------------------------
(* Properties *)

OpRecord ==
  [state : {"none", "query", "exec", "done", "duplicate", "failed"},
   phase : {"requested", "off", "on"}, level : 0..(Levels + 1),
   devices : Seq(Device), results : Seq(Node),
   used : SUBSET (Node \X (Device \cup {NoDev}) \X {"requested", "off", "on"}),
   replies : Nat, expected : Nat, queryTimer : BOOLEAN, totalTimer : BOOLEAN,
   oneTimer : {"none", "peer", "watchdog"},
   result : {"unknown", "ok", "error", "timeout", "no device"},
   told : {"nothing", "ok", "failure"}, duplicates : SUBSET Op]

Message ==
  LET D == Device \cup {NoDev}
  IN  [type : {"query"}, op : Requested] \cup
      [type : {"query-reply"}, op : Requested, from : Node] \cup
      [type : {"fence"}, op : Requested, device : D, action : {"reboot", "off", "on"}] \cup
      [type : {"fence-reply"}, op : Requested, device : D, result : {"ok", "error", "timeout"}] \cup
      [type : {"broadcast"}, op : Requested,
       result : {"unknown", "ok", "error", "timeout", "no device"}] \cup
      [type : {"left"}, node : Node]

Process ==
  [view : SUBSET Node, ops : [Op -> OpRecord], work : SUBSET Message,
   out : [Node -> Seq(Message)], checkFailed : BOOLEAN]

(* The daemons' records are well formed between two handlers, and all that *)
(* a handler sends (send_cluster_message) has left it when it returns.     *)
TypeOK ==
  /\ conf \in Config /\ live \subseteq Node /\ off \subseteq Device \cup {NoDev}
  /\ fenced \subseteq Op /\ fencer \in [Node -> Process] /\ inbox \in [Node -> Seq(Message)]
  /\ \A n \in Node : fencer[n].out = NoMail

(* A client is told that its node was fenced only if the target really     *)
(* was without power since the request (or since that of an operation it   *)
(* was merged with), whatever results come late, twice or not at all.      *)
SuccessMeansFenced ==
  \A n \in Node : \A o \in Known(fencer[n]) :
    fencer[n].ops[o].told = "ok" =>
      IF Owner(n, o) THEN o \in fenced ELSE fenced # {}

Merged(s, o) == \E p \in Known(s) : o \in s.ops[p].duplicates

(* Clients on different nodes are told the same, also if the operation     *)
(* ended twice (a result after the timeout), unless it was merged with     *)
(* another one on some node.                                               *)
AnswersAgree ==
  TypeOK /\ \A n, p \in Node : \A o \in Known(fencer[n]) \cap Known(fencer[p]) :
    \/ fencer[n].ops[o].told = fencer[p].ops[o].told
    \/ "nothing" \in {fencer[n].ops[o].told, fencer[p].ops[o].told}
    \/ Merged(fencer[n], o) \/ Merged(fencer[p], o)

Asked(r, p, d) == \E phase \in {"requested", "off"} : <<p, d, phase>> \in r.used

(* Without a timeout an operation fails only after it has got something    *)
(* from every peer: all peers that can fence were asked or, with a         *)
(* topology, a device of every level was.                                  *)
TriedEverything ==
  [][\A o \in Requested :
       LET n == conf.at[o]
           r == fencer'[n].ops[o]
       IN  /\ fencer[n].ops[o].state \in InProgress /\ r.state = "failed"
           /\ r.result \in {"error", "no device"} /\ r.told = "nothing"
           => IF Topology
              THEN \A l \in 1..Levels : \E d \in Range(conf.levels[l]) :
                     \/ \E p \in Node : Asked(r, p, d)
                     \/ \A p \in live : d \notin conf.has[p]
              ELSE \A p \in live : conf.has[p] = {} \/ Asked(r, p, NoDev)]_vars

(* CRM_CHECK(op->state < st_done, return) in request_peer_fencing holds:   *)
(* nothing is asked of a peer on behalf of an operation that has ended.    *)
CheckHolds == \A n \in Node : ~fencer[n].checkFailed

Answered(n, o) ==
  \/ n \notin live \/ fencer[n].ops[o].told # "nothing"
  \/ /\ fencer[n].ops[o].state = "duplicate"
     /\ \E p \in Known(fencer[n]) : /\ o \in fencer[n].ops[p].duplicates
                                    /\ conf.at[p] \notin live

(* Every client of a fencer that keeps running is answered, unless its     *)
(* request was merged with that of a fencer that died: whatever replies    *)
(* are missing, finalize_op is reached and its broadcast comes back.       *)
AllAnswered ==
  []<>(\A o \in Requested : LET n == conf.at[o]
                            IN  fencer[n].ops[o].state # "none" => Answered(n, o))
===============================================================================
