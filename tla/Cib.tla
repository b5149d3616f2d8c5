--------------------------------- MODULE Cib ---------------------------------
(***************************************************************************)
(* The CIB managers of a cluster (daemons/based with lib/cib): how they    *)
(* keep their copies of the CIB the same, answer their clients, and write  *)
(* the CIB to disk.                                                        *)
(*                                                                         *)
(* A CIB has three version numbers (admin_epoch, epoch, num_updates), two  *)
(* sections (config and status), whose values stand for their contents,    *)
(* and the schema it conforms to.  A CIB manager is the record node[n]:    *)
(*                                                                         *)
(*   up        the daemon runs                                             *)
(*   cib       based_cib                                                   *)
(*   dc        local_node_dc                                               *)
(*   timer     digest_timer runs; only modelled on the DC, as it does      *)
(*             nothing elsewhere and starts again when a node becomes DC   *)
(*   seq, digest, modified                                                 *)
(*             ping_seq, ping_digest, ping_modified_since                  *)
(*   enabled   writes_enabled                                              *)
(*   trigger   write_trigger is set                                        *)
(*   writer    the process that writes the CIB, or None                    *)
(*   disk      its files, see CibFile                                      *)
(*   inbox     what CPG will deliver                                       *)
(*   saved     the last CIB that was written completely                    *)
(*   unsaved   a write has failed, and the configuration has not been      *)
(*             written since, with writes enabled                          *)
(*   join      the controller of a DC will start a join round              *)
(*                                                                         *)
(* CPG delivers the messages of a partition to all of its members in the   *)
(* same order.  Left out: access control, schema validation, nodes of      *)
(* other versions, dry runs, and notifications about changes.              *)
(***************************************************************************)
EXTENDS CibFile, Sequences, FiniteSets

CONSTANTS
  Node,
  None,
  Scenarios    \* bounds on what the environment does

(* What clients ask for; see RequestOf. *)
Kinds ==
  {"config", "status", "obsolete", "revert", "create", "commit", "bad commit", "replace", "bump",
   "erase", "upgrade"}

(* A scenario: the nodes that run, the DCs and the CIBs, whether writes are *)
(* enabled, what clients will ask for, the nodes in a partition of their    *)
(* own and those that will be, those that may crash and start, and how      *)
(* often other things may happen.                                           *)
Bounds ==
  [booted : SUBSET Node, dcs : SUBSET Node, cibs : [Node -> CibType], writes : BOOLEAN,
   ops : Seq(Kinds), apart : SUBSET Node, cut : SUBSET Node, crashes : SUBSET Node,
   starts : SUBSET Node, splits : Nat, merges : Nat, hurry : Nat, errors : Nat, kills : Nat,
   signals : Nat, ticks : Nat]

ASSUME ScenariosAssumption == Scenarios \subseteq Bounds

VARIABLES
  node,    \* the CIB manager of each node
  calls,   \* what the clients have asked for
  side,    \* the part of the network each node is in
  clock,   \* seconds
  budget   \* what the environment may still do

vars == <<node, calls, side, clock, budget>>

Up == {n \in Node : node[n].up}
Part(n) == {m \in Up : side[m] = side[n]}

(* An operator that models a C function takes and returns the state of all *)
(* daemons and clients.                                                    *)
State == [node |-> node, calls |-> calls]

Msg ==
  [op |-> "none", src |-> None, host |-> None, delegated |-> None, replyTo |-> None,
   call |-> 0, data |-> << >>, cib |-> None, update |-> FALSE, seq |-> 0, max |-> 0, rc |-> "none"]

(* pcmk__cluster_send_message(), to all or to one *)
Send(s, n, to, m) ==
  LET got(r) == [r EXCEPT !.inbox = Append(@, [m EXCEPT !.src = n])]
  IN  [s EXCEPT !.node = [k \in Node |->
         IF k \in Part(n) \cap to THEN got(s.node[k]) ELSE s.node[k]]]

Results == {"none", "wait", "ok", "exists", "unchanged", "old data", "failed", "timeout", "gone"}

(* A call of a client on n.  seen is the CIB of the node a sync is from,   *)
(* calm becomes FALSE when the membership or the DC changes.  Of a call    *)
(* that has ended nothing but the result is kept.                          *)
Call(n, op, seen, calm) == [node |-> n, op |-> op, seen |-> seen, calm |-> calm, rc |-> "wait"]
Ended(c, rc) == [node |-> c.node, op |-> "none", seen |-> EmptyCib, calm |-> TRUE, rc |-> rc]

(* do_local_notify(), and cib_native_callback() in the client: the first   *)
(* answer to a call counts.                                                *)
Notify(s, n, id, rc) ==
  IF id \in DOMAIN s.calls /\ s.calls[id].node = n /\ s.calls[id].rc = "wait"
  THEN [s EXCEPT !.calls[id] = Ended(@, rc)] ELSE s

-----------------------------------------------------------------------------
(* Operations on a CIB (lib/cib) *)

(* a is older than b *)
Older(a, b) ==
  \/ a.admin < b.admin
  \/ a.admin = b.admin /\ a.epoch < b.epoch
  \/ a.admin = b.admin /\ a.epoch = b.epoch /\ a.updates < b.updates

(* The outcome of an operation: its return code, the resulting CIB,        *)
(* whether change tracking has noticed anything, and in the configuration. *)
Outcome(rc, old, new, replaced) ==
  [rc |-> rc, cib |-> new, dirty |-> replaced \/ new # old, config |-> new.config # old.config]

(* Mutant: the versions are not compared. *)
ReplaceAlways(m, c) == Outcome("ok", c, m.cib, TRUE)

(* replace_cib() *)
ReplaceCib(m, c) ==
  IF Older(m.cib, c) THEN Outcome("old data", c, c, FALSE) ELSE Outcome("ok", c, m.cib, TRUE)

(* A CIB with some of its parts changed *)
Updated(c, data) == [f \in DOMAIN c |-> IF f \in DOMAIN data THEN data[f] ELSE c[f]]

(* cib__process_modify() *)
ProcessModify(m, c) == Outcome("ok", c, Updated(c, m.data), FALSE)

(* cib__process_create(), of something that exists and something new *)
ProcessCreate(m, c) == Outcome("exists", c, Updated(c, m.data), FALSE)

(* cib__process_bump() *)
ProcessBump(c) == Outcome("ok", c, [c EXCEPT !.epoch = @ + 1], FALSE)

(* cib__process_erase(): the configuration counts as changed even if it    *)
(* was empty.                                                              *)
ProcessErase(c) ==
  [Outcome("ok", c, [c EXCEPT !.config = 0, !.status = 0, !.admin = @ + 1], TRUE)
     EXCEPT !.config = TRUE]

(* cib__process_upgrade() *)
ProcessUpgrade(m, c) ==
  IF c.schema < m.max
  THEN Outcome("ok", c, [c EXCEPT !.schema = m.max, !.admin = @ + 1, !.epoch = 1, !.updates = 1], TRUE)
  ELSE Outcome("unchanged", c, c, TRUE)

(* check_cib_versions(): a version number went backwards. *)
Backwards(old, new) ==
  new.admin < old.admin \/ (new.admin = old.admin /\ new.epoch < old.epoch)

(* xml_create_patchset() increments a version number. *)
CreatePatchset(m, o) ==
  CASE m.update \/ ~o.dirty -> o.cib
    [] ~m.update /\ o.dirty /\ o.config -> [o.cib EXCEPT !.epoch = @ + 1, !.updates = 0]
    [] ~m.update /\ o.dirty /\ ~o.config -> [o.cib EXCEPT !.updates = @ + 1]

(* cib__perform_op_rw() after the operation has succeeded.  The result of  *)
(* check_cib_versions() is lost if set_update_origin() is called.          *)
Finish(m, old, o) ==
  [o EXCEPT !.cib = CreatePatchset(m, o),
            !.rc = IF Backwards(old, o.cib) /\ ~o.config THEN "old data" ELSE "ok"]

(* A request of a transaction (process_transaction_requests), after those  *)
(* with outcome o: all change the same copy of the CIB, and what has       *)
(* changed adds up.  A request with no data fails.                         *)
TransactionRequest(m, o, data) ==
  LET new == Updated(o.cib, data)
      sum == [rc |-> "ok", cib |-> new, dirty |-> o.dirty \/ new # o.cib,
              config |-> o.config \/ new.config # o.cib.config]
  IN  IF o.rc # "ok" THEN o
      ELSE IF data = << >> THEN [o EXCEPT !.rc = "failed"] ELSE Finish(m, o.cib, sum)

(* based_commit_transaction() *)
CommitTransaction(m, c) ==
  LET first == TransactionRequest(m, Outcome("ok", c, c, FALSE), m.data[1])
  IN  TransactionRequest(m, first, m.data[2])

(* based_process_upgrade(), of a request that the DC has not yet approved *)
CanUpgrade(c) == c.schema < EmptyCib.schema

(* The function of an operation *)
Operation(m, c) ==
  CASE m.op = "modify" -> ProcessModify(m, c)
    [] m.op = "create" -> ProcessCreate(m, c)
    [] m.op = "bump" -> ProcessBump(c)
    [] m.op = "erase" -> ProcessErase(c)
    [] m.op = "replace" -> ReplaceCib(m, c)
    [] m.op = "commit" -> CommitTransaction(m, c)
    [] m.op = "primary" -> Outcome("ok", c, c, FALSE)
    [] m.op = "upgrade" /\ m.max > 0 -> ProcessUpgrade(m, c)
    [] m.op = "upgrade" /\ m.max = 0 ->
         Outcome(IF CanUpgrade(c) THEN "ok" ELSE "unchanged", c, c, FALSE)

(* should_copy_cib(): operations on the status change the CIB in place. *)
InPlace(m) == m.op \in {"modify", "create"} /\ DOMAIN m.data = {"status"}

WritesThrough == {"commit", "replace", "upgrade"}

(* cib__perform_op_rw() *)
PerformOp(m, c) ==
  LET o == Operation(m, c) IN IF o.rc = "ok" THEN Finish(m, c, o) ELSE o

-----------------------------------------------------------------------------
(* The CIB manager (based_callbacks.c, based_messages.c, based_io.c) *)

(* Mutant: no other write is due while one is going on. *)
ActivateIfIdle(r, c, toDisk) ==
  [r EXCEPT !.cib = c, !.trigger = @ \/ (toDisk /\ r.enabled /\ r.writer = None)]

(* based_activate_cib() *)
ActivateCib(r, c, toDisk) ==
  [r EXCEPT !.cib = c, !.trigger = @ \/ (toDisk /\ r.enabled)]

(* based_perform_op_rw().  The first request of a transaction that fails   *)
(* later has been performed, on a copy.                                    *)
PerformOpRw(s, n, m) ==
  LET r == s.node[n]
      p == PerformOp(m, r.cib)
      done == p.rc = "ok" \/ m.op = "commit"
      active == IF InPlace(m) THEN [r EXCEPT !.cib = p.cib]
                ELSE IF p.rc = "ok" THEN ActivateCib(r, p.cib, p.config \/ m.op \in WritesThrough)
                ELSE r
  IN  [rc |-> p.rc,
       s |-> [s EXCEPT !.node[n] = [active EXCEPT !.modified = @ \/ (done /\ p.dirty),
                                                  !.timer = @ \/ (done /\ r.dc)]]]

(* sync_our_cib() *)
SyncOurCib(s, n, m, to) ==
  Send(s, n, to, [Msg EXCEPT !.op = "replace", !.update = TRUE, !.cib = s.node[n].cib,
                             !.replyTo = m.src, !.call = m.call])

(* The messages of based_process_upgrade() *)
AnswerUpgrade(s, n, m) ==
  IF CanUpgrade(s.node[n].cib)
  THEN Send(s, n, Node, [Msg EXCEPT !.op = "upgrade", !.max = EmptyCib.schema,
                                    !.delegated = m.src, !.call = m.call])
  ELSE Send(s, n, {m.src}, [Msg EXCEPT !.op = "upgrade", !.rc = "unchanged",
                                       !.replyTo = m.src, !.call = m.call])

(* process_ping_reply() *)
ProcessPingReply(s, n, m) ==
  LET r == s.node[n]
      mine == IF r.digest = None THEN r.cib ELSE r.digest
      read == [s EXCEPT !.node[n].digest = mine]
  IN  IF ~r.dc \/ m.seq # r.seq \/ r.modified THEN s
      ELSE IF mine = m.cib THEN read ELSE SyncOurCib(read, n, m, {m.src})

(* based_process_ping() and send_peer_reply() *)
ProcessPing(s, n, m) ==
  Send(s, n, {m.src}, [Msg EXCEPT !.op = "ping", !.replyTo = m.src, !.seq = m.seq,
                                  !.cib = s.node[n].cib])

(* based_process_sync() and send_peer_reply() *)
ProcessSync(s, n, m) ==
  Send(SyncOurCib(s, n, m, Node), n, {m.src},
       [Msg EXCEPT !.op = "sync", !.replyTo = m.src, !.call = m.call, !.rc = "ok"])

(* based_process_request() of a message, with parse_peer_options() *)
ProcessPeerRequest(s, n, m) ==
  LET delegated == IF m.op = "replace" /\ m.replyTo # None THEN m.replyTo ELSE m.delegated
      asked == IF m.op = "upgrade" /\ m.max = 0 THEN AnswerUpgrade(s, n, m) ELSE s
      done == PerformOpRw(asked, n, m)
  IN  IF m.op = "ping" /\ m.replyTo = n THEN ProcessPingReply(s, n, m)
      ELSE IF m.rc # "none" THEN Notify(s, n, m.call, m.rc)
      ELSE IF m.op = "upgrade" /\ m.max = 0 /\ ~s.node[n].dc THEN s
      ELSE IF m.op = "ping" THEN ProcessPing(s, n, m)
      ELSE IF m.op = "sync" THEN ProcessSync(s, n, m)
      ELSE IF delegated = n THEN Notify(done.s, n, m.call, done.rc) ELSE done.s

(* based_process_primary() and based_process_secondary() *)
ProcessPrimary(s, n, m) == PerformOpRw([s EXCEPT !.node[n].dc = TRUE], n, m).s
ProcessSecondary(s, n) == [s EXCEPT !.node[n] = [@ EXCEPT !.dc = FALSE, !.timer = FALSE]]

(* based_process_request() of a client: what modifies the CIB goes to all  *)
(* nodes, a request for another node to that node.                         *)
ProcessClientRequest(s, n, m) ==
  IF m.op = "secondary" THEN ProcessSecondary(s, n)
  ELSE IF m.op = "primary" THEN ProcessPrimary(s, n, m)
  ELSE IF m.op # "sync" THEN Send(s, n, Node, [m EXCEPT !.delegated = n])
  ELSE IF m.host # n THEN Send(s, n, {m.host}, [m EXCEPT !.delegated = n])
  ELSE Notify(SyncOurCib(s, n, [m EXCEPT !.src = n], Node), n, m.call, "ok")

-----------------------------------------------------------------------------
(* Steps *)

Becomes(s) == node' = s.node /\ calls' = s.calls
OnlyNode(n, r) == node' = [node EXCEPT ![n] = r]
Spend(f) == budget[f] > 0 /\ budget' = [budget EXCEPT ![f] = @ - 1]

(* A message arrives. *)
Deliver(n) ==
  /\ n \in Up /\ node[n].inbox # << >>
  /\ Becomes(ProcessPeerRequest([State EXCEPT !.node[n].inbox = Tail(@)], n, Head(node[n].inbox)))
  /\ UNCHANGED <<side, clock, budget>>

(* digest_timer_cb().  The interval is long: what the partition has been   *)
(* sent has usually been delivered, unless hurry is spent.                 *)
Late(n) == \A m \in Part(n) : node[m].inbox = << >>

(* Mutant: ping_modified_since is not reset. *)
DigestTimerKeeps(n) ==
  LET r == [node[n] EXCEPT !.timer = FALSE, !.seq = @ + 1, !.digest = None]
  IN  /\ n \in Up /\ node[n].timer
      /\ Becomes(Send([State EXCEPT !.node[n] = r], n, Node, [Msg EXCEPT !.op = "ping", !.seq = r.seq]))
      /\ (Late(n) /\ UNCHANGED budget) \/ (~Late(n) /\ Spend("hurry"))
      /\ UNCHANGED <<side, clock>>

DigestTimer(n) ==
  LET r == [node[n] EXCEPT !.timer = FALSE, !.seq = @ + 1, !.digest = None, !.modified = FALSE]
  IN  /\ n \in Up /\ node[n].timer
      /\ Becomes(Send([State EXCEPT !.node[n] = r], n, Node, [Msg EXCEPT !.op = "ping", !.seq = r.seq]))
      /\ (Late(n) /\ UNCHANGED budget) \/ (~Late(n) /\ Spend("hurry"))
      /\ UNCHANGED <<side, clock>>

(* write_cib_async(), when the earlier process has ended *)
WriteCibAsync(n) ==
  /\ n \in Up /\ node[n].trigger /\ node[n].writer = None
  /\ OnlyNode(n, [node[n] EXCEPT !.trigger = FALSE, !.writer = Child(node[n].cib)])
  /\ UNCHANGED <<calls, side, clock, budget>>

Writing(n) == n \in Up /\ node[n].writer # None

(* The process that writes the CIB takes a step. *)
WriterStep(n) ==
  LET w == Write(node[n].disk, node[n].writer, clock)
  IN  /\ Writing(n) /\ node[n].writer.step # "exit"
      /\ OnlyNode(n, [node[n] EXCEPT !.disk = w.disk, !.writer = w.child])
      /\ UNCHANGED <<calls, side, clock, budget>>

(* write_cib_cb(): a failure disables further writes *)
WriteCibCb(n) ==
  LET w == node[n].writer
      r == [node[n] EXCEPT !.writer = None]
  IN  /\ Writing(n) /\ w.step = "exit"
      /\ OnlyNode(n, IF w.rc = 0
                     THEN [r EXCEPT !.saved = w.snap,
                                    !.unsaved = @ /\ (w.snap.config # r.cib.config \/ ~r.enabled)]
                     ELSE [r EXCEPT !.enabled = FALSE, !.unsaved = TRUE])
      /\ UNCHANGED <<calls, side, clock, budget>>

(* A file operation fails, or the process is killed: then writes stay      *)
(* enabled, because its exit code is 0.                                    *)
WriterFails(n) ==
  /\ Writing(n) /\ node[n].writer.step \notin {"exit", "unlink", "series"}
  /\ Spend("errors")
  /\ \E w \in WriteFails(node[n].writer) : OnlyNode(n, [node[n] EXCEPT !.writer = w])
  /\ UNCHANGED <<calls, side, clock>>

WriterKilled(n) ==
  /\ Writing(n) /\ Spend("kills")
  /\ OnlyNode(n, [node[n] EXCEPT !.writer = None, !.unsaved = TRUE])
  /\ UNCHANGED <<calls, side, clock>>

(* based_enable_writes() *)
EnableWrites(n) ==
  /\ n \in Up /\ ~node[n].enabled /\ Spend("signals")
  /\ OnlyNode(n, [node[n] EXCEPT !.enabled = TRUE])
  /\ UNCHANGED <<calls, side, clock>>

-----------------------------------------------------------------------------
(* Clients and the environment *)

InFlight(id) == \E n \in Up : \E i \in DOMAIN node[n].inbox : node[n].inbox[i].call = id

(* The number of a call: the first one that is not in use *)
Unused(id) == ~InFlight(id) /\ (id \in DOMAIN calls => calls[id].rc # "wait")
NewIds == {id \in 1..Len(calls) + 1 : Unused(id) /\ \A i \in 1..id - 1 : ~Unused(i)}

Ask(n, id, c, m) ==
  LET s == [State EXCEPT !.calls = IF id \in DOMAIN @ THEN [@ EXCEPT ![id] = c] ELSE Append(@, c)]
  IN  ProcessClientRequest(s, n, [m EXCEPT !.call = id])

(* The requests of clients.  The value each writes differs. *)
RequestOf(n, kind) ==
  LET v == Len(budget.ops)
      m == [Msg EXCEPT !.op = "modify"]
  IN  CASE kind = "config" -> [m EXCEPT !.data = [config |-> v]]
        [] kind = "status" -> [m EXCEPT !.data = [status |-> v]]
        [] kind = "obsolete" -> [m EXCEPT !.data = [admin |-> 1]]
        [] kind = "revert" -> [m EXCEPT !.data = [admin |-> 0, config |-> v]]
        [] kind = "create" -> [m EXCEPT !.op = "create", !.data = [status |-> v]]
        [] kind = "commit" ->
             [m EXCEPT !.op = "commit", !.data = << [config |-> v], [status |-> v] >>]
        [] kind = "bad commit" ->
             [m EXCEPT !.op = "commit", !.data = << [config |-> v], << >> >>]
        [] kind = "replace" ->
             [m EXCEPT !.op = "replace", !.cib = [node[n].cib EXCEPT !.config = v]]
        [] kind \in {"bump", "erase", "upgrade"} -> [m EXCEPT !.op = kind]

Request(n) ==
  /\ n \in Up /\ budget.ops # << >>
  /\ LET kind == Head(budget.ops)
         calm == kind = "upgrade" => \E d \in Part(n) : node[d].dc
     IN  \E id \in NewIds : Becomes(Ask(n, id, Call(n, kind, EmptyCib, calm), RequestOf(n, kind)))
  /\ budget' = [budget EXCEPT !.ops = Tail(@)]
  /\ UNCHANGED <<side, clock>>

Disturbed(cs) == [i \in DOMAIN cs |-> [cs[i] EXCEPT !.calm = @ /\ cs[i].rc # "wait"]]
Dcs(n) == {d \in Part(n) : node[d].dc}

(* The controller of n becomes DC (do_dc_takeover) or is DC no longer      *)
(* (do_dc_release), of a partition that has none or several.               *)
TakeOver(n) ==
  /\ n \in Up /\ Dcs(n) = {}
  /\ LET s == [node |-> [node EXCEPT ![n].join = TRUE], calls |-> Disturbed(calls)]
     IN  Becomes(ProcessClientRequest(s, n, [Msg EXCEPT !.op = "primary"]))
  /\ UNCHANGED <<side, clock, budget>>

StepDown(n) ==
  /\ n \in Up /\ node[n].dc /\ Dcs(n) # {n}
  /\ LET s == [node |-> [k \in Node |-> [node[k] EXCEPT !.join = k # n /\ (@ \/ k \in Dcs(n))]],
               calls |-> Disturbed(calls)]
     IN  Becomes(ProcessClientRequest(s, n, [Msg EXCEPT !.op = "secondary"]))
  /\ UNCHANGED <<side, clock, budget>>

(* do_dc_join_finalize(): the DC, once it is the only one, asks for the    *)
(* CIB of the node that has the best one, or sends its own.                *)
JoinSync(n) ==
  LET best == {m \in Part(n) : \A k \in Part(n) : ~Older(node[m].cib, node[k].cib)}
  IN  /\ n \in Up /\ node[n].join /\ Dcs(n) = {n}
      /\ \E m \in IF n \in best THEN {n} ELSE best : \E id \in NewIds :
           LET s == Ask(n, id, Call(n, "sync", node[m].cib, TRUE), [Msg EXCEPT !.op = "sync", !.host = m])
           IN  Becomes([s EXCEPT !.node[n].join = FALSE])
      /\ UNCHANGED <<side, clock, budget>>

(* A client gives up a call that nobody will answer.  The controller of    *)
(* the DC starts another join round.                                       *)
Timeout(id) ==
  /\ calls[id].rc = "wait"
  /\ ~InFlight(id)
  /\ calls' = [calls EXCEPT ![id] = Ended(@, "timeout")]
  /\ LET n == calls[id].node
     IN  OnlyNode(n, [node[n] EXCEPT !.join = @ \/ (calls[id].op = "sync" /\ node[n].dc)])
  /\ UNCHANGED <<side, clock, budget>>

(* A membership with new nodes: every DC starts a join round. *)
Joins(nodes) == [n \in Node |-> [node[n] EXCEPT !.join = @ \/ (n \in nodes /\ node[n].dc)]]

Fresh(c, disk) ==
  [up |-> TRUE, cib |-> c, dc |-> FALSE, timer |-> FALSE, seq |-> 0, digest |-> None,
   modified |-> FALSE, enabled |-> TRUE, trigger |-> TRUE, writer |-> None, disk |-> disk,
   saved |-> c, unsaved |-> FALSE, inbox |-> << >>, join |-> FALSE]

(* The daemon or the node dies, and with it the process that writes. *)
Crash(n) ==
  /\ n \in Up \cap budget.crashes /\ budget' = [budget EXCEPT !.crashes = @ \ {n}]
  /\ node' = [node EXCEPT ![n] = [@ EXCEPT !.up = FALSE, !.writer = None, !.dc = FALSE]]
  /\ calls' = [i \in DOMAIN calls |->
       IF calls[i].node = n /\ calls[i].rc = "wait" THEN Ended(calls[i], "gone")
       ELSE Disturbed(calls)[i]]
  /\ UNCHANGED <<side, clock>>

(* main() of pacemaker-based *)
Start(n) ==
  /\ n \in budget.starts \ Up /\ budget' = [budget EXCEPT !.starts = @ \ {n}]
  /\ \E c \in ReadCib(node[n].disk) :
       node' = [Joins(Part(n)) EXCEPT ![n] = Fresh(c, Archive(node[n].disk))]
  /\ calls' = Disturbed(calls)
  /\ UNCHANGED <<side, clock>>

(* The nodes in cut lose the others.  A node may miss what the other side  *)
(* has sent last.                                                          *)
Split ==
  /\ Spend("splits")
  /\ side' = [n \in Node |-> IF n \in budget.cut THEN 2 ELSE 1]
  /\ \E n \in Up : \E k \in 0..Len(node[n].inbox) :
       LET kept == {i \in DOMAIN node[n].inbox :
                      i <= k \/ side'[node[n].inbox[i].src] = side'[n]}
       IN  \E f \in [1..Cardinality(kept) -> kept] :
             /\ \A i, j \in DOMAIN f : i < j => f[i] < f[j]
             /\ OnlyNode(n, [node[n] EXCEPT !.inbox = [i \in DOMAIN f |-> @[f[i]]]])
  /\ calls' = Disturbed(calls)
  /\ UNCHANGED clock

(* The parts meet, when what was sent before has been delivered. *)
Merge ==
  /\ \E n \in Node : side[n] = 2
  /\ \A n \in Up : node[n].inbox = << >>
  /\ Spend("merges")
  /\ side' = [n \in Node |-> 1]
  /\ node' = Joins(Up) /\ calls' = Disturbed(calls)
  /\ UNCHANGED clock

Tick ==
  /\ Spend("ticks") /\ clock' = clock + 1
  /\ UNCHANGED <<node, calls, side>>

-----------------------------------------------------------------------------
Boot(b, n) ==
  LET c == b.cibs[n]
      saved == OnDisk(c)
      r == Fresh(c, [NoDisk EXCEPT !.cib = saved, !.sig = saved])
  IN  [r EXCEPT !.up = n \in b.booted, !.dc = n \in b.dcs, !.trigger = FALSE,
                !.enabled = b.writes, !.unsaved = ~b.writes, !.saved = saved]

Init ==
  /\ budget \in Scenarios
  /\ node = [n \in Node |-> Boot(budget, n)]
  /\ calls = << >>
  /\ side = [n \in Node |-> IF n \in budget.apart THEN 2 ELSE 1]
  /\ clock = 0

Daemon(n) ==
  Deliver(n) \/ DigestTimer(n) \/ WriteCibAsync(n) \/ WriterStep(n) \/ WriteCibCb(n)

Environment(n) ==
  \/ WriterFails(n) \/ WriterKilled(n) \/ EnableWrites(n)
  \/ Request(n) \/ TakeOver(n) \/ StepDown(n) \/ JoinSync(n)
  \/ Crash(n) \/ Start(n)

Next ==
  \/ \E n \in Node : Daemon(n) \/ Environment(n)
  \/ \E id \in DOMAIN calls : Timeout(id)
  \/ Split \/ Merge \/ Tick

Spec == Init /\ [][Next]_vars

-----------------------------------------------------------------------------
(* Properties *)

(* Nothing is left to happen but what the environment decides. *)
AtRest ==
  /\ \A n \in Up :
       /\ node[n].inbox = << >> /\ ~node[n].timer /\ ~node[n].join
       /\ ~node[n].trigger /\ node[n].writer = None
       /\ Cardinality(Dcs(n)) = 1
  /\ \A id \in DOMAIN calls : calls[id].rc # "wait"

(* Messages of certain operations *)
Form(ops, data, cibs) ==
  [op : ops, src : Node \cup {None}, host : Node \cup {None}, delegated : Node \cup {None},
   replyTo : Node \cup {None}, call : Nat, data : data, cib : cibs, update : BOOLEAN, seq : Nat,
   max : {0, EmptyCib.schema}, rc : Results]

Message ==
  Form({"modify"}, [config : Nat] \cup [status : Nat] \cup [admin : Nat]
                     \cup [admin : Nat, config : Nat], {None})
    \cup Form({"create"}, [status : Nat], {None})
    \cup Form({"commit"}, [config : Nat] \X ([status : Nat] \cup {<< >>}), {None})
    \cup Form({"replace"}, {<< >>}, CibType)
    \cup Form({"bump", "erase", "upgrade", "sync"}, {<< >>}, {None})
    \cup Form({"ping"}, {<< >>}, CibType \cup {None})

Manager ==
  [up : BOOLEAN, cib : CibType, dc : BOOLEAN, timer : BOOLEAN, seq : Nat,
   digest : CibType \cup {None}, modified : BOOLEAN, enabled : BOOLEAN, trigger : BOOLEAN,
   writer : Writer \cup {None}, disk : Disk, saved : CibType, unsaved : BOOLEAN,
   inbox : Seq(Message), join : BOOLEAN]

ClientCall ==
  [node : Node, op : Kinds \cup {"sync", "none"}, seen : CibType, calm : BOOLEAN,
   rc : Results]

(* The types of the state *)
TypeOK ==
  /\ node \in [Node -> Manager]
  /\ calls \in Seq(ClientCall)
  /\ side \in [Node -> {1, 2}]
  /\ clock \in Nat
  /\ budget \in Bounds

(* When everything has been delivered, written and checked, every node of  *)
(* a partition has the CIB of its DC, or one that is newer.  The order of  *)
(* the messages of CPG, the sync of a join and the digests that the DC     *)
(* asks for (digest_timer_cb, process_ping_reply) see to it, after any     *)
(* sequence of operations, lost messages, splits and merges.               *)
Agreed ==
  /\ TypeOK
  /\ AtRest => \A n \in Up : \A d \in Dcs(n) :
       node[n].cib = node[d].cib \/ Older(node[d].cib, node[n].cib)

(* A modification of the configuration that also sets a version number     *)
(* back, and one that n is about to process                                *)
Lowers(m, c) ==
  m.op = "modify" /\ {"admin", "config"} \subseteq DOMAIN m.data /\ m.data.admin < c.admin
SetsBack(n) == node[n].inbox # << >> /\ Lowers(Head(node[n].inbox), node[n].cib)

NoneOlder == \A n \in Up \cap Up' : ~Older(node'[n].cib, node[n].cib) \/ SetsBack(n)

(* The CIB of a daemon that runs is never exchanged for an older one       *)
(* (check_cib_versions, replace_cib), except by a client that changes the  *)
(* configuration and sets a version number back at the same time.          *)
Forward == [][NoneOlder]_vars

(* Whenever the daemon or the process that writes dies, or a file          *)
(* operation fails, the last CIB that was completely written, or a newer   *)
(* one, is still what based_read_cib() finds, unless other backups have    *)
(* the same change time.                                                   *)
Recoverable == \A n \in Node : \E c \in ReadCib(node[n].disk) : ~Older(c, node[n].saved)

(* An answer to a call is under way, unless the DC or the membership has   *)
(* changed since; a controller that is told that its CIB has been synced   *)
(* from another node has a CIB that is not older than that of the node was *)
(* when it asked; and what has been configured is on disk, unless the last *)
(* write failed.                                                           *)
Answered == \A id \in DOMAIN calls : calls[id].rc = "wait" /\ calls[id].calm => InFlight(id)
Synced ==
  [][\A id \in DOMAIN calls :
       calls[id].op = "sync" /\ calls'[id].rc = "ok"
         => ~Older(node'[calls[id].node].cib, calls[id].seen)]_vars
Saved == \A n \in Up : ~node[n].unsaved => node[n].saved.config = node[n].cib.config

(* The daemons, the processes that write, the controllers and the clients  *)
(* go on as long as something is left to do.                               *)
Fairness == <>[]~AtRest => []<><<TRUE>>_vars
FairSpec == Spec /\ Fairness

(* No call is lost, and a sync is not confirmed before it has happened     *)
(* (forward_request, send_peer_reply, do_local_notify); and the exchange   *)
(* of digests and CIBs comes to an end, with the configuration of every    *)
(* node on its disk (based_activate_cib, write_cib_async): a change while  *)
(* the CIB is being written is not forgotten.                              *)
Settles == []Answered /\ Synced /\ <>[](AtRest /\ Saved)
=============================================================================
