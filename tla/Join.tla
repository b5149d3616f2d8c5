---------------------------------- MODULE Join ----------------------------------
(***************************************************************************)
(* How the controllers of a cluster elect a designated controller (DC) and *)
(* how the DC joins them to its partition (daemons/controld).              *)
(*                                                                         *)
(* A controller is the record node[n]; every C function is an operator     *)
(* from record to record.  An event (a message or configuration change of  *)
(* the process group, a quorum notification, a timer, an answer of the CIB *)
(* manager) queues inputs for the finite state automaton (FSA), which then *)
(* runs until its queue is empty or it stalls.  Besides the fields that    *)
(* module Election describes a record has                                  *)
(*                                                                         *)
(*   fsa         fsa_state                                                 *)
(*   queue       fsa_message_queue                                         *)
(*   acts        fsa_actions                                               *)
(*   stalled     controld_fsa_is_stalled                                   *)
(*   trigger     the FSA trigger is set                                    *)
(*   seen        event sources that were dispatched since the FSA last ran *)
(*   dc          R_THE_DC                                                  *)
(*   dcName      dc_name, or None                                          *)
(*   known       R_MEMBERSHIP                                              *)
(*   member, procs, cache                                                  *)
(*               peer cache: cluster members, peers in the process group,  *)
(*               and all nodes that have an entry; view is the active ones *)
(*   membershipId, peerSeq, highestSeq                                     *)
(*               membership events: the one the offers are based on, the   *)
(*               latest, and the one for which a new join was asked        *)
(*   phase       join phase of each node                                   *)
(*   joinId      current_join_id                                           *)
(*   maxFrom, maxGen                                                       *)
(*               node with the best CIB of the round, and its generation   *)
(*   haveCib     R_HAVE_CIB                                                *)
(*   failed      failed_sync_nodes                                         *)
(*   timers      FSA timers that run: "dc" (election_timer), "integration", *)
(*               "finalization"                                            *)
(*   calls       calls of the CIB manager that are not answered            *)
(*   graph       transition_graph: "absent", "complete", or incomplete     *)
(*               ("running", or aborted and then to "wait" or "restart")   *)
(*   sched       an answer of the scheduler is expected                    *)
(*   staydown    R_STAYDOWN                                                *)
(*   faults      assertions that failed                                    *)
(*                                                                         *)
(* Left out: the shutdown of a node, nodes that are refused because of     *)
(* their feature set, fencing, and that the operations of the join itself  *)
(* change the CIB (of all nodes of the partition alike).                   *)
(***************************************************************************)
EXTENDS Election

LOCAL INSTANCE SequencesExt

CONSTANTS
  None,        \* no node
  Scenarios,   \* bounds on what the environment does, see Bounds
  MaxJoinId    \* INT_MAX

(* A scenario has the nodes of the cluster, those that are up and joined   *)
(* in the initial state, the generation of the CIB of each node,           *)
(* whether several events may be dispatched before the FSA runs, and       *)
(* bounds on: node and controller crashes, starts, partitions and their    *)
(* ends, timeouts while messages are in flight, failed CIB operations and  *)
(* changes of the CIB.                                                     *)
Bounds ==
  [cluster : SUBSET Node, booted : SUBSET Node, generations : [Node -> Nat], batch : BOOLEAN, crashes : Nat, deaths : Nat,
   starts : Nat, splits : Nat, merges : Nat, changes : Nat, hurry : Nat,
   early : Nat, failures : Nat]

ASSUME JoinAssumption ==
  /\ None \notin Node
  /\ Scenarios \subseteq Bounds
  /\ MaxJoinId \in Nat \ {0}

VARIABLES
  node,    \* the controller of each node
  ring,    \* the process group each controller belongs to, {} if it is down
  part,    \* the cluster membership of each node, {} if it is down
  seq,     \* number of the latest membership event
  inbox,   \* what CPG will deliver to each controller
  quorum,  \* quorum notifications for each controller
  cib,     \* generation of the CIB of each node
  budget   \* what the environment may still do

vars == <<node, ring, part, seq, inbox, quorum, cib, budget>>

-----------------------------------------------------------------------------
(* The tables of controld_matrix.c *)

Joined == {"S_IDLE", "S_POLICY_ENGINE", "S_TRANSITION_ENGINE"}
Joining == {"S_INTEGRATION", "S_FINALIZE_JOIN"}
Serving == Joined \cup Joining
Waiting == {"S_NOT_DC", "S_PENDING"}
States == Serving \cup Waiting \cup {"S_ELECTION", "S_RECOVERY", "S_RELEASE_DC",
                                     "S_STARTING", "S_TERMINATE"}

(* Input, states, and the state it leads to from them *)
ElectionTransitions ==
  {<<"I_DC_TIMEOUT", Waiting, "S_ELECTION">>,
   <<"I_DC_TIMEOUT", Serving \cup {"S_RELEASE_DC"}, "S_RECOVERY">>,
   <<"I_ELECTION", Serving \cup Waiting, "S_ELECTION">>,
   <<"I_PE_CALC", Joined, "S_POLICY_ENGINE">>,
   <<"I_PE_CALC", {"S_STARTING"}, "S_RECOVERY">>,
   <<"I_RELEASE_DC", Serving \cup {"S_ELECTION"}, "S_RELEASE_DC">>,
   <<"I_RELEASE_DC", {"S_STARTING"}, "S_RECOVERY">>,
   <<"I_ELECTION_DC", Serving \cup {"S_ELECTION", "S_NOT_DC"}, "S_INTEGRATION">>,
   <<"I_ELECTION_DC", {"S_STARTING"}, "S_RECOVERY">>,
   <<"I_ERROR", States \ {"S_TERMINATE"}, "S_RECOVERY">>}

JoinTransitions ==
  {<<"I_INTEGRATED", {"S_INTEGRATION"}, "S_FINALIZE_JOIN">>,
   <<"I_INTEGRATED", {"S_STARTING", "S_PENDING"}, "S_RECOVERY">>,
   <<"I_FINALIZED", {"S_FINALIZE_JOIN"}, "S_POLICY_ENGINE">>,
   <<"I_FINALIZED", {"S_STARTING", "S_PENDING"}, "S_RECOVERY">>,
   <<"I_NODE_JOIN", Serving, "S_INTEGRATION">>,
   <<"I_NODE_JOIN", {"S_STARTING"}, "S_RECOVERY">>,
   <<"I_NOT_DC", {"S_PENDING"}, "S_NOT_DC">>,
   <<"I_NOT_DC", Serving \cup {"S_STARTING"}, "S_RECOVERY">>,
   <<"I_RELEASE_SUCCESS", {"S_RELEASE_DC"}, "S_PENDING">>,
   <<"I_RELEASE_SUCCESS", Serving \cup {"S_STARTING"}, "S_RECOVERY">>,
   <<"I_TE_SUCCESS", {"S_TRANSITION_ENGINE"}, "S_IDLE">>,
   <<"I_TE_SUCCESS", {"S_STARTING"}, "S_RECOVERY">>}

RequestTransitions ==
  {<<"I_PE_SUCCESS", {"S_POLICY_ENGINE"}, "S_TRANSITION_ENGINE">>,
   <<"I_PE_SUCCESS", {"S_STARTING"}, "S_RECOVERY">>,
   <<"I_JOIN_OFFER", {"S_NOT_DC"}, "S_PENDING">>,
   <<"I_JOIN_REQUEST", Serving, "S_INTEGRATION">>,
   <<"I_JOIN_RESULT", Joined, "S_INTEGRATION">>,
   <<"I_JOIN_RESULT", {"S_NOT_DC"}, "S_PENDING">>,
   <<"I_JOIN_RESULT", {"S_STARTING"}, "S_RECOVERY">>,
   <<"I_PENDING", Serving \cup {"S_ELECTION", "S_NOT_DC", "S_STARTING"}, "S_PENDING">>}

Transitions ==
  ElectionTransitions \cup JoinTransitions \cup RequestTransitions
  \cup {<<"I_TERMINATE", States, "S_TERMINATE">>}

O_RELEASE == {"A_DC_TIMER_STOP", "A_DC_RELEASE", "A_DC_RELEASED", "A_TE_STOP"}
O_DC_TIMER_RESTART == {"A_DC_TIMER_STOP", "A_DC_TIMER_START"}

(* Input, states, and the actions it causes in them.  Logs and the         *)
(* connection to the scheduler are left out.                               *)
ElectionReactions ==
  {<<"I_DC_TIMEOUT", Waiting \cup {"S_ELECTION"}, {"A_ELECTION_VOTE"}>>,
   <<"I_DC_TIMEOUT", {"S_TRANSITION_ENGINE"}, {"A_TE_CANCEL"}>>,
   <<"I_ELECTION", Serving \cup Waiting \cup {"S_ELECTION"}, {"A_ELECTION_VOTE"}>>,
   <<"I_PE_CALC", Joined, {"A_PE_INVOKE"}>>,
   <<"I_RELEASE_DC", Serving \cup {"S_ELECTION", "S_RECOVERY", "S_RELEASE_DC"}, O_RELEASE>>,
   <<"I_ELECTION_DC", {"S_ELECTION"},
     {"A_DC_TAKEOVER", "A_TE_START", "A_DC_JOIN_OFFER_ALL", "A_DC_TIMER_STOP"}>>,
   <<"I_ELECTION_DC", Serving \cup {"S_RELEASE_DC", "S_NOT_DC"}, {"A_ELECTION_VOTE"}>>,
   <<"I_ELECTION_DC", Joining, {"A_DC_JOIN_OFFER_ALL"}>>,
   <<"I_ERROR", States \ {"S_RECOVERY", "S_TERMINATE"}, {"A_RECOVER"}>>,
   <<"I_ERROR", Serving \cup {"S_ELECTION", "S_RECOVERY"}, O_RELEASE>>,
   <<"I_ERROR", Serving, {"A_ELECTION_START"}>>}

JoinReactions ==
  {<<"I_INTEGRATED", {"S_INTEGRATION"}, {"A_DC_JOIN_FINALIZE"}>>,
   <<"I_FINALIZED", {"S_FINALIZE_JOIN"}, {"A_DC_JOIN_FINAL", "A_TE_CANCEL"}>>,
   <<"I_NODE_JOIN", Serving, {"A_DC_JOIN_OFFER_ONE"}>>,
   <<"I_NODE_JOIN", {"S_IDLE", "S_TRANSITION_ENGINE"}, {"A_TE_HALT"}>>,
   <<"I_NOT_DC", {"S_ELECTION"}, {"A_ELECTION_START", "A_DC_TIMER_STOP"}>>,
   <<"I_NOT_DC", {"S_PENDING"}, {"A_DC_TIMER_STOP"}>>,
   <<"I_NOT_DC", Serving \cup {"S_RECOVERY", "S_RELEASE_DC"}, O_RELEASE>>,
   <<"I_TE_SUCCESS", {"S_RECOVERY"}, {"A_RECOVER"}>>}

RequestReactions ==
  {<<"I_PE_SUCCESS", {"S_POLICY_ENGINE"}, {"A_TE_INVOKE"}>>,
   <<"I_PE_SUCCESS", {"S_RECOVERY"}, {"A_RECOVER"}>>,
   <<"I_JOIN_OFFER", Serving \cup Waiting \cup {"S_RECOVERY", "S_RELEASE_DC"},
     {"A_CL_JOIN_REQUEST"}>>,
   <<"I_JOIN_OFFER", Waiting \cup {"S_RECOVERY", "S_RELEASE_DC"}, {"A_DC_TIMER_STOP"}>>,
   <<"I_JOIN_OFFER", {"S_ELECTION"}, {"A_ELECTION_VOTE"}>>,
   <<"I_JOIN_REQUEST", Serving \ {"S_INTEGRATION"}, {"A_DC_JOIN_OFFER_ONE"}>>,
   <<"I_JOIN_REQUEST", {"S_INTEGRATION"}, {"A_DC_JOIN_PROCESS_REQ"}>>,
   <<"I_JOIN_RESULT", Joined, {"A_TE_HALT", "A_DC_JOIN_OFFER_ALL"}>>,
   <<"I_JOIN_RESULT", Joining, {"A_CL_JOIN_RESULT", "A_DC_JOIN_PROCESS_ACK"}>>,
   <<"I_JOIN_RESULT", {"S_NOT_DC"}, {"A_CL_JOIN_ANNOUNCE"}>>,
   <<"I_JOIN_RESULT", {"S_PENDING"}, {"A_CL_JOIN_RESULT"}>>,
   <<"I_PENDING", Serving \cup {"S_ELECTION"}, O_RELEASE \cup O_DC_TIMER_RESTART>>,
   <<"I_PENDING", Waiting \cup {"S_RELEASE_DC"}, O_DC_TIMER_RESTART>>,
   <<"I_PENDING", {"S_STARTING"}, {"A_DC_TIMER_START", "A_CL_JOIN_QUERY"}>>}

Reactions == ElectionReactions \cup JoinReactions \cup RequestReactions

Inputs == {"I_NULL", "I_WAIT_FOR_EVENT"} \cup {t[1] : t \in Transitions}

NextState ==
  [i \in Inputs |-> [s \in States |->
     LET moves == {t \in Transitions : t[1] = i /\ s \in t[2]}
     IN  IF moves = {} THEN s ELSE (CHOOSE t \in moves : TRUE)[3]]]

NewActions ==
  [i \in Inputs |-> [s \in States |->
     UNION {t[3] : t \in {r \in Reactions : r[1] = i /\ s \in r[2]}}]]

(* The order in which s_crmd_fsa_actions looks at the actions *)
Priority ==
  <<"A_TE_START", "A_DC_TIMER_STOP", "A_INTEGRATE_TIMER_STOP",
    "A_INTEGRATE_TIMER_START", "A_FINALIZE_TIMER_STOP", "A_FINALIZE_TIMER_START",
    "A_RECOVER", "A_CL_JOIN_RESULT", "A_CL_JOIN_REQUEST", "A_ELECTION_VOTE",
    "A_ELECTION_COUNT", "A_STARTED", "A_CL_JOIN_QUERY", "A_DC_TIMER_START",
    "A_DC_TAKEOVER", "A_DC_RELEASE", "A_DC_JOIN_FINAL", "A_ELECTION_CHECK",
    "A_ELECTION_START", "A_DC_JOIN_OFFER_ALL", "A_DC_JOIN_OFFER_ONE",
    "A_DC_JOIN_PROCESS_REQ", "A_DC_JOIN_PROCESS_ACK", "A_DC_JOIN_FINALIZE",
    "A_CL_JOIN_ANNOUNCE", "A_TE_HALT", "A_TE_CANCEL", "A_PE_INVOKE", "A_TE_INVOKE",
    "A_DC_RELEASED", "A_TE_STOP">>

Rank == [a \in {Priority[i] : i \in DOMAIN Priority} |->
           CHOOSE i \in DOMAIN Priority : Priority[i] = a]

First(acts) == CHOOSE a \in acts : \A b \in acts : Rank[a] <= Rank[b]

-----------------------------------------------------------------------------
(* Inputs of the FSA (controld_messages.c) *)

NoData == [type |-> "none"]

Msg(input, data, acts) == [input |-> input, data |-> data, acts |-> acts]

SetTrigger(s) == [s EXCEPT !.trigger = TRUE]

(* controld_fsa_append: I_PE_CALC is not queued twice in a row. *)
FsaAppend(s, input, data) ==
  IF input = "I_PE_CALC" /\ s.queue # <<>> /\ s.queue[Len(s.queue)].input = input
  THEN s
  ELSE SetTrigger([s EXCEPT !.queue = Append(@, Msg(input, data, {}))])

(* controld_fsa_prepend *)
FsaPrepend(s, input) ==
  SetTrigger([s EXCEPT !.queue = <<Msg(input, NoData, {})>> \o @])

(* register_fsa_error_adv: the pending actions wait behind the error. *)
FsaError(s, input, cur) ==
  LET saved == IF s.acts = {} THEN <<>> ELSE <<Msg("I_NULL", cur, s.acts)>>
  IN  FsaPrepend([s EXCEPT !.acts = {}, !.queue = saved \o @], input)

(* controld_fsa_stall: without data the actions stay pending, otherwise    *)
(* they go to the end of the queue together with the data.                 *)
FsaStall(s, action, cur) ==
  IF cur = NoData
  THEN [s EXCEPT !.stalled = TRUE, !.acts = @ \cup {action}]
  ELSE [s EXCEPT !.stalled = TRUE, !.acts = {},
                 !.queue = Append(@, Msg("I_WAIT_FOR_EVENT", cur, s.acts \cup {action}))]

(* CRM_LOG_ASSERT and pcmk__assert *)
Expect(s, holds, what) ==
  IF holds THEN s ELSE [s EXCEPT !.faults = @ \cup {what}]

-----------------------------------------------------------------------------
(* The DC and the transition graph *)

(* update_dc(NULL) *)
UnsetDc(s) == [s EXCEPT !.dcName = None]

(* update_dc: what a node says that calls itself the DC *)
DcIsValid(n, s, from) == (s.dc => from = n) /\ s.dcName \in {None, from}

UpdateDc(n, s, from) ==
  IF DcIsValid(n, s, from) THEN [s EXCEPT !.dcName = from]
  ELSE SetTrigger([s EXCEPT !.acts = @ \cup {"A_CL_JOIN_QUERY", "A_DC_TIMER_START"}])

Incomplete(s) == s.graph \in {"running", "wait", "restart"}

(* abort_transition_graph and update_abort_priority *)
AbortTransition(s, action) ==
  LET e == Expect(s, s.graph # "absent", "abort of an absent graph")
  IN  IF s.fsa \in {"S_STARTING", "S_PENDING", "S_NOT_DC", "S_TERMINATE"} THEN e
      ELSE IF Incomplete(s)
      THEN [e EXCEPT !.sched = FALSE, !.graph = IF @ = "restart" THEN @ ELSE action]
      ELSE FsaAppend([e EXCEPT !.sched = FALSE], "I_PE_CALC", NoData)

-----------------------------------------------------------------------------
(* The join protocol on the DC (controld_join_dc.c) *)

(* enum controld_join_phase *)
Nack == 0
NoPhase == 1
Welcomed == 2
Integrated == 3
Finalized == 4
Confirmed == 5

(* Calls of the CIB manager *)
QueryCall(id) == [op |-> "query", id |-> id]
SyncCall(from) == [op |-> "sync", from |-> from]
CommitCall == [op |-> "commit"]

Call(s, call) == [s EXCEPT !.calls = Append(@, call)]

In(s, phases) == {m \in s.cache : s.phase[m] \in phases}

(* crm_update_peer_join *)
UpdatePeerJoin(s, peer, phase) ==
  IF phase <= NoPhase \/ phase = s.phase[peer] + 1
  THEN [s EXCEPT !.phase[peer] = phase] ELSE s

(* Messages of the DC and to it, see crmd_ha_msg_filter *)
OfferMsg(n, id) == [type |-> "offer", from |-> n, id |-> id]
AckMsg(n, id, ack) == [type |-> "acknak", from |-> n, id |-> id, ack |-> ack]
NoopMsg(n) == [type |-> "noop", from |-> n]
AnnounceMsg(n) == [type |-> "announce", from |-> n]
RequestMsg(n, id, gen) == [type |-> "request", from |-> n, id |-> id, gen |-> gen]
ConfirmMsg(n, id) == [type |-> "confirm", from |-> n, id |-> id]

FromDc == {"offer", "acknak", "noop"}
ToDc == {"announce", "request", "confirm"}

(* check_join_state, and whether it returns TRUE *)
CheckJoinState(s) ==
  IF s.membershipId # s.peerSeq
  THEN IF s.highestSeq < s.peerSeq
       THEN FsaPrepend([s EXCEPT !.highestSeq = s.peerSeq], "I_NODE_JOIN") ELSE s
  ELSE IF s.fsa = "S_INTEGRATION" /\ In(s, {Welcomed}) = {}
  THEN FsaPrepend(s, "I_INTEGRATED")
  ELSE IF /\ s.fsa = "S_FINALIZE_JOIN" /\ s.haveCib
          /\ In(s, {Welcomed, Integrated, Finalized}) = {}
  THEN FsaAppend(s, "I_FINALIZED", NoData) ELSE s

JoinChecked(s) ==
  /\ s.membershipId = s.peerSeq
  /\ \/ s.fsa = "S_INTEGRATION" /\ In(s, {Welcomed}) = {}
     \/ /\ s.fsa = "S_FINALIZE_JOIN"
        /\ s.haveCib => In(s, {Welcomed, Integrated, Finalized}) = {}

(* join_make_offer to each of a set of nodes *)
MakeOffers(n, s, peers) ==
  LET to == peers \cap s.view
  IN  IF to = {} THEN s
      ELSE [Send(s, to, OfferMsg(n, s.joinId)) EXCEPT
              !.membershipId = s.peerSeq,
              !.phase = [m \in Node |-> IF m \in to THEN Welcomed ELSE @[m]]]

(* The offer to nodes that have none yet; the membership event counts as   *)
(* handled when there is an active node at all.                            *)
MakeNewOffers(n, s) ==
  LET known == s.cache \cap s.view
  IN  IF known = {} THEN s
      ELSE MakeOffers(n, [s EXCEPT !.membershipId = s.peerSeq],
                      {m \in known : s.phase[m] <= NoPhase})

DoDcJoinOfferAll(n, s) ==
  MakeOffers(n,
    [UnsetDc(s) EXCEPT !.joinId = IF @ >= MaxJoinId THEN 1 ELSE @ + 1,
                       !.phase = [m \in Node |-> NoPhase], !.maxFrom = None,
                       !.maxGen = 0, !.haveCib = FALSE],
    s.cache)

DoDcJoinOfferOne(n, s, cur) ==
  IF cur = NoData THEN CheckJoinState(MakeNewOffers(n, s))
  ELSE AbortTransition(
         MakeOffers(n, [s EXCEPT !.phase[cur.from] = NoPhase], {cur.from, n}),
         "restart")

(* Mutant: the first CIB is taken for the best one. *)
FirstIsBest(n, s, cur) ==
  LET from == cur.from
      rejected == from \in s.failed \/ from \notin s.view
  IN  IF cur.id # s.joinId THEN CheckJoinState(s)
      ELSE IF rejected THEN CheckJoinState(UpdatePeerJoin(s, from, Nack))
      ELSE CheckJoinState(UpdatePeerJoin(
             IF s.maxFrom = None THEN [s EXCEPT !.maxFrom = from, !.maxGen = cur.gen] ELSE s,
             from, Integrated))

(* do_dc_join_filter_offer *)
DoDcJoinFilterOffer(n, s, cur) ==
  LET from == cur.from
      best == \/ s.maxFrom = None
              \/ s.maxGen < cur.gen
              \/ s.maxGen = cur.gen /\ from = n
      rejected == from \in s.failed \/ from \notin s.view
  IN  IF cur.id # s.joinId THEN CheckJoinState(s)
      ELSE IF rejected THEN CheckJoinState(UpdatePeerJoin(s, from, Nack))
      ELSE CheckJoinState(UpdatePeerJoin(
             IF best THEN [s EXCEPT !.maxFrom = from, !.maxGen = cur.gen] ELSE s,
             from, Integrated))

(* finalize_join_for each node: one that the cluster layer does not know   *)
(* of is left waiting.                                                     *)
FinalizeJoin(n, s) ==
  LET acked == In(s, {Integrated}) \cap s.view
      nacked == In(s, {Nack}) \cap s.view
  IN  [Send(Send(s, acked, AckMsg(n, s.joinId, TRUE)), nacked,
            AckMsg(n, s.joinId, FALSE))
       EXCEPT !.phase = [m \in Node |-> IF m \in acked THEN Finalized ELSE @[m]]]

(* Mutant: the DC sends its own CIB to nobody. *)
LocalNotSynced(n, s, cur) ==
  LET local == s.maxFrom \in {None, n}
      ready == Expect([s EXCEPT !.haveCib = local], s.graph # "absent",
                      "join without a graph")
  IN  IF In(s, {Welcomed}) # {} THEN s
      ELSE IF In(s, {Integrated, Nack}) = {} THEN CheckJoinState(s)
      ELSE IF Incomplete(s) THEN FsaStall(ready, "A_DC_JOIN_FINALIZE", cur)
      ELSE IF local THEN FinalizeJoin(n, ready) ELSE Call(ready, SyncCall(s.maxFrom))

(* do_dc_join_finalize *)
DoDcJoinFinalize(n, s, cur) ==
  LET local == s.maxFrom \in {None, n}
      ready == Expect([s EXCEPT !.haveCib = local], s.graph # "absent",
                      "join without a graph")
  IN  IF In(s, {Welcomed}) # {} THEN s
      ELSE IF In(s, {Integrated, Nack}) = {} THEN CheckJoinState(s)
      ELSE IF Incomplete(s) THEN FsaStall(ready, "A_DC_JOIN_FINALIZE", cur)
      ELSE Call(ready, SyncCall(IF local THEN n ELSE s.maxFrom))

(* finalize_sync_callback.  A node that sent old data is not recorded in   *)
(* failed_sync_nodes.                                                      *)
FinalizeSyncCallback(n, s, from, rc) ==
  IF rc = "old" THEN FsaError(s, "I_ELECTION_DC", NoData)
  ELSE IF rc = "failed"
  THEN FsaError([Expect(s, from \notin s.failed, "sync failed before")
                 EXCEPT !.failed = @ \cup {from}], "I_ELECTION_DC", NoData)
  ELSE IF ~s.dc \/ s.fsa # "S_FINALIZE_JOIN" THEN s
  ELSE LET have == [s EXCEPT !.haveCib = TRUE]
       IN  IF JoinChecked(have) THEN CheckJoinState(have)
           ELSE FinalizeJoin(n, CheckJoinState(have))

(* do_dc_join_ack *)
DoDcJoinAck(n, s, cur) ==
  IF cur.type # "confirm" \/ s.phase[cur.from] # Finalized THEN s
  ELSE IF cur.id # s.joinId THEN UpdatePeerJoin(s, cur.from, Nack)
  ELSE Call(UpdatePeerJoin(s, cur.from, Confirmed), CommitCall)

(* join_node_state_commit_callback *)
CommitCallback(s, ok) ==
  CheckJoinState(IF ok THEN s ELSE FsaError(s, "I_ERROR", NoData))

-----------------------------------------------------------------------------
(* The join protocol on a joining node (controld_join_client.c) *)

(* do_cl_join_query *)
DoClJoinQuery(n, s) == Send(UnsetDc(s), Node, AnnounceMsg(n))

(* do_cl_join_announce *)
DoClJoinAnnounce(n, s) ==
  IF s.fsa # "S_PENDING" THEN s ELSE Send(UnsetDc(s), Node, AnnounceMsg(n))

(* do_cl_join_offer_respond: the answer of an earlier query is ignored. *)
DoClJoinOfferRespond(n, s, cur) ==
  LET cancelled == [s EXCEPT !.calls = SelectSeq(@, LAMBDA c : c.op # "query")]
  IN  IF ~DcIsValid(n, s, cur.from) THEN UpdateDc(n, cancelled, cur.from)
      ELSE SetTrigger([Call(UpdateDc(n, cancelled, cur.from), QueryCall(cur.id))
                       EXCEPT !.acts = @ \cup {"A_DC_TIMER_STOP"}])

(* join_query_callback *)
JoinQueryCallback(n, s, id, gen) ==
  IF s.dcName = None THEN s ELSE Send(s, {s.dcName}, RequestMsg(n, id, gen))

(* do_cl_join_finalize_respond *)
DoClJoinFinalizeRespond(n, s, cur) ==
  IF cur.type # "acknak" THEN s
  ELSE IF ~cur.ack THEN [FsaError(s, "I_ERROR", cur) EXCEPT !.staydown = TRUE]
  ELSE IF ~s.dc /\ cur.from = n THEN s
  ELSE IF ~DcIsValid(n, s, cur.from) THEN UpdateDc(n, s, cur.from)
  ELSE LET s1 == Send(UpdateDc(n, s, cur.from), {cur.from}, ConfirmMsg(n, cur.id))
       IN  IF s.dc THEN s1 ELSE FsaPrepend(s1, "I_NOT_DC")

-----------------------------------------------------------------------------
(* Elections (controld_election.c) *)

(* do_election_vote *)
DoElectionVote(n, s) ==
  IF s.fsa \in {"S_STARTING", "S_RECOVERY"}
  THEN FsaAppend(s, IF s.dc THEN "I_RELEASE_DC" ELSE "I_PENDING", NoData)
  ELSE ElectionVote(n,
         Expect(s, s.fsa \in {"S_ELECTION", "S_INTEGRATION", "S_RELEASE_DC"},
                "vote in an unexpected state"))

(* election_complete and election_win_cb *)
ElectionComplete(s) ==
  ElectionReset(FsaAppend(ElectionWon(s), "I_ELECTION_DC", NoData))

(* do_election_check *)
DoElectionCheck(s) ==
  IF s.fsa = "S_ELECTION" /\ AllVoted(s) THEN ElectionComplete(s) ELSE s

(* do_election_count_vote.  A late message counts like the one that ended  *)
(* the election.                                                           *)
DoElectionCountVote(n, s, cur) ==
  LET canWin == s.fsa # "S_STARTING"
      c == CountVote(n, s, cur, canWin)
      lost == UnsetDc(c)
  IN  IF CountError(n, s, cur, canWin) THEN c
      ELSE IF c.state = "start" THEN FsaAppend(ElectionReset(c), "I_ELECTION", NoData)
      ELSE IF c.state # "lost" THEN c
      ELSE IF s.dc THEN FsaAppend(lost, "I_RELEASE_DC", NoData)
      ELSE IF canWin THEN FsaAppend(lost, "I_PENDING", NoData) ELSE lost

(* do_dc_takeover *)
DoDcTakeover(s) == ElectionReset([s EXCEPT !.dc = TRUE])

(* controld_remove_voter *)
RemoveVoter(s, peer) ==
  LET r == ElectionRemove(s, peer)
  IN  IF s.dcName = peer THEN ElectionClearDampening(r) ELSE r

-----------------------------------------------------------------------------
(* The FSA (controld_fsa.c) *)

(* do_timer_control for A_DC_TIMER_START *)
DoDcTimerStart(s) ==
  LET started == [s EXCEPT !.timers = @ \cup {"dc"}]
  IN  IF s.dc THEN FsaAppend(started, "I_ELECTION", NoData) ELSE started

(* do_started *)
DoStarted(s) ==
  IF s.fsa # "S_STARTING" THEN s
  ELSE IF ~s.known THEN FsaStall(s, "A_STARTED", NoData)
  ELSE FsaAppend(s, "I_PENDING", NoData)

(* do_te_invoke for A_TE_CANCEL and A_TE_HALT *)
DoTeStop(s, action, next, cur) ==
  LET e == AbortTransition(s, next)
  IN  IF ~s.dc THEN s ELSE IF Incomplete(e) THEN FsaStall(e, action, cur) ELSE e

(* Mutant: no graph is the one that the DC waits for. *)
GraphNotExpected(s) ==
  IF ~s.dc \/ s.fsa # "S_TRANSITION_ENGINE" THEN s
  ELSE IF Incomplete(s) THEN AbortTransition(s, "restart")
  ELSE [AbortTransition(s, "restart") EXCEPT !.graph = "running"]

(* do_te_invoke for A_TE_INVOKE *)
DoTeInvoke(s) ==
  IF ~s.dc \/ s.fsa # "S_TRANSITION_ENGINE" THEN s
  ELSE IF Incomplete(s) THEN AbortTransition(s, "restart")
  ELSE [s EXCEPT !.graph = "running"]

(* Actions that use the message that caused them assert that it is there. *)
Needs(a) ==
  CASE a = "A_CL_JOIN_RESULT" -> {"acknak", "confirm"}
    [] a = "A_DC_JOIN_PROCESS_ACK" -> {"acknak", "confirm"}
    [] a = "A_CL_JOIN_REQUEST" -> {"offer"}
    [] a = "A_DC_JOIN_PROCESS_REQ" -> {"request"}
    [] a = "A_ELECTION_COUNT" -> {"vote", "no-vote"}

NeedsData == {"A_CL_JOIN_RESULT", "A_DC_JOIN_PROCESS_ACK", "A_CL_JOIN_REQUEST",
              "A_DC_JOIN_PROCESS_REQ", "A_ELECTION_COUNT"}

Perform(n, s, a, cur) ==
  CASE a = "A_DC_TIMER_STOP" -> [s EXCEPT !.timers = @ \ {"dc"}]
    [] a = "A_DC_TIMER_START" -> DoDcTimerStart(s)
    [] a = "A_INTEGRATE_TIMER_STOP" -> [s EXCEPT !.timers = @ \ {"integration"}]
    [] a = "A_INTEGRATE_TIMER_START" -> [s EXCEPT !.timers = @ \cup {"integration"}]
    [] a = "A_FINALIZE_TIMER_STOP" -> [s EXCEPT !.timers = @ \ {"finalization"}]
    [] a = "A_FINALIZE_TIMER_START" -> [s EXCEPT !.timers = @ \cup {"finalization"}]
    [] a = "A_RECOVER" -> FsaAppend(s, "I_TERMINATE", NoData)
    [] a = "A_STARTED" -> DoStarted(s)
    [] a \in {"A_ELECTION_VOTE", "A_ELECTION_START"} -> DoElectionVote(n, s)
    [] a = "A_ELECTION_COUNT" -> DoElectionCountVote(n, s, cur)
    [] a = "A_ELECTION_CHECK" -> DoElectionCheck(s)
    [] a = "A_DC_TAKEOVER" -> DoDcTakeover(s)
    [] a = "A_DC_RELEASE" -> [s EXCEPT !.dc = FALSE, !.sched = FALSE]
    [] a = "A_DC_RELEASED" -> FsaAppend(s, "I_RELEASE_SUCCESS", NoData)
    [] a = "A_DC_JOIN_OFFER_ALL" -> DoDcJoinOfferAll(n, s)
    [] a = "A_DC_JOIN_OFFER_ONE" -> DoDcJoinOfferOne(n, s, cur)
    [] a = "A_DC_JOIN_PROCESS_REQ" -> DoDcJoinFilterOffer(n, s, cur)
    [] a = "A_DC_JOIN_FINALIZE" -> DoDcJoinFinalize(n, s, cur)
    [] a = "A_DC_JOIN_PROCESS_ACK" -> DoDcJoinAck(n, s, cur)
    [] a = "A_DC_JOIN_FINAL" -> s
    [] a = "A_CL_JOIN_QUERY" -> DoClJoinQuery(n, s)
    [] a = "A_CL_JOIN_ANNOUNCE" -> DoClJoinAnnounce(n, s)
    [] a = "A_CL_JOIN_REQUEST" -> DoClJoinOfferRespond(n, s, cur)
    [] a = "A_CL_JOIN_RESULT" -> DoClJoinFinalizeRespond(n, s, cur)
    [] a = "A_TE_START" -> IF s.graph = "absent" THEN [s EXCEPT !.graph = "complete"] ELSE s
    [] a = "A_TE_STOP" -> [s EXCEPT !.graph = "absent"]
    [] a = "A_TE_HALT" -> DoTeStop(s, a, "wait", cur)
    [] a = "A_TE_CANCEL" -> DoTeStop(s, a, "restart", cur)
    [] a = "A_PE_INVOKE" -> [s EXCEPT !.sched = @ \/ (s.dc /\ s.fsa = "S_POLICY_ENGINE")]
    [] a = "A_TE_INVOKE" -> DoTeInvoke(s)

RECURSIVE FsaActions(_, _, _)
(* s_crmd_fsa_actions *)
FsaActions(n, s, cur) ==
  IF s.acts = {} \/ s.stalled THEN s
  ELSE LET a == First(s.acts)
           r == [s EXCEPT !.acts = @ \ {a}]
       IN  IF a \in NeedsData /\ cur.type \notin Needs(a)
           THEN FsaActions(n, Expect(r, FALSE, "no data"), cur)
           ELSE FsaActions(n, Perform(n, r, a, cur), cur)

(* check_join_counts *)
CheckJoinCounts(s) ==
  LET confirmed == Cardinality(In(s, {Confirmed}))
      active == Cardinality(s.view)
  IN  IF In(s, {Finalized}) # {} \/ confirmed = active THEN s
      ELSE IF confirmed > active THEN FsaAppend(s, "I_ELECTION", NoData)
      ELSE IF s.membershipId # s.peerSeq THEN FsaPrepend(s, "I_NODE_JOIN") ELSE s

(* do_state_transition *)
StateTransition(s, from) ==
  LET to == s.fsa
      timers == {IF to = "S_INTEGRATION" THEN "A_INTEGRATE_TIMER_START"
                 ELSE "A_INTEGRATE_TIMER_STOP",
                 IF to = "S_FINALIZE_JOIN" THEN "A_FINALIZE_TIMER_START"
                 ELSE "A_FINALIZE_TIMER_STOP"}
                \cup (IF to = "S_PENDING" THEN {} ELSE {"A_DC_TIMER_STOP"})
      recover == IF to = "S_RECOVERY" THEN s.acts \cup {"A_RECOVER"}
                 ELSE IF to = "S_PENDING" THEN s.acts ELSE s.acts \ {"A_RECOVER"}
      r == [s EXCEPT !.timer = @ /\ (to = "S_ELECTION" \/ from = "S_RELEASE_DC"),
                     !.acts = recover \cup timers]
  IN  CASE to \in {"S_PENDING", "S_ELECTION"} -> UnsetDc(r)
        [] to = "S_NOT_DC" -> Expect(r, s.dcName # None, "S_NOT_DC without a DC")
        [] to \in {"S_FINALIZE_JOIN", "S_IDLE"} -> Expect(r, s.dc, "not the DC")
        [] to = "S_POLICY_ENGINE" -> CheckJoinCounts(Expect(r, s.dc, "not the DC"))
        [] OTHER -> r

RECURSIVE FsaLoop(_, _)
(* The loop of s_crmd_fsa *)
FsaLoop(n, s) ==
  IF s.queue = <<>> \/ s.stalled \/ s.fsa = "S_TERMINATE" THEN s
  ELSE LET m == Head(s.queue)
           r == [s EXCEPT !.queue = Tail(@), !.fsa = NextState[m.input][@],
                          !.acts = @ \cup m.acts \cup NewActions[m.input][s.fsa]]
           t == IF r.fsa = s.fsa THEN r ELSE StateTransition(r, s.fsa)
       IN  FsaLoop(n, IF t.fsa = "S_TERMINATE" THEN t ELSE FsaActions(n, t, m.data))

RECURSIVE Fsa(_, _)
(* s_crmd_fsa, as often as it is triggered *)
Fsa(n, s) ==
  IF ~s.trigger \/ s.fsa = "S_TERMINATE" THEN s
  ELSE LET r == [s EXCEPT !.trigger = FALSE, !.stalled = FALSE, !.seen = {}]
       IN  Fsa(n, FsaLoop(n, IF r.queue = <<>> /\ r.acts # {}
                             THEN [r EXCEPT !.queue = <<Msg("I_NULL", NoData, {})>>]
                             ELSE r))

-----------------------------------------------------------------------------
(* Membership (controld_callbacks.c, controld_membership.c) *)

Order == SetToSortSeq(Node, LAMBDA a, b : NameRank[a] < NameRank[b])

ForEach(op(_, _), s, nodes) ==
  FoldLeft(op, s, SelectSeq(Order, LAMBDA m : m \in nodes))

SetPeer(s, member, procs) ==
  [s EXCEPT !.member = member, !.procs = procs, !.view = member \cap procs,
            !.cache = @ \cup member \cup procs]

(* Mutant: nodes that are not the DC act on the loss of a peer, too. *)
AllAct(s, peer, appeared) ==
  IF appeared
  THEN IF s.dc /\ peer \in s.view THEN FsaPrepend(s, "I_NODE_JOIN") ELSE SetTrigger(s)
  ELSE SetTrigger(AbortTransition(CheckJoinState(UpdatePeerJoin(s, peer, NoPhase)),
                                  "restart"))

(* The end of peer_update_callback *)
PeerUpdated(s, peer, appeared) ==
  IF ~s.dc THEN SetTrigger(s)
  ELSE IF appeared
  THEN IF peer \in s.view THEN FsaPrepend(s, "I_NODE_JOIN") ELSE SetTrigger(s)
  ELSE SetTrigger(AbortTransition(CheckJoinState(UpdatePeerJoin(s, peer, NoPhase)),
                                  "restart"))

PeerLost(s, peer) == RemoveVoter([s EXCEPT !.failed = @ \ {peer}], peer)

(* peer_update_callback for the process of a peer *)
PeerProcess(s, peer, appeared) ==
  LET r == SetPeer(s, s.member, IF appeared THEN s.procs \cup {peer} ELSE s.procs \ {peer})
      u == IF appeared THEN r ELSE PeerLost(r, peer)
      e == IF u.dcName = peer /\ peer \notin u.view
           THEN FsaAppend(u, "I_ELECTION", NoData) ELSE u
  IN  PeerUpdated(e, peer, appeared)

(* peer_update_callback for the state of a cluster node *)
PeerState(s, peer, appeared) ==
  LET r == SetPeer(s, IF appeared THEN s.member \cup {peer} ELSE s.member \ {peer}, s.procs)
  IN  PeerUpdated(IF appeared THEN r ELSE PeerLost(r, peer), peer, appeared)

(* reap_dead_nodes *)
ReapDeadNode(n, s, peer) ==
  LET r == UpdatePeerJoin(s, peer, NoPhase)
      e == IF peer = n THEN FsaAppend(r, "I_ERROR", NoData)
           ELSE IF ~s.dc /\ s.dcName = peer THEN FsaAppend(r, "I_ELECTION", NoData) ELSE r
  IN  IF s.fsa \in Joining THEN CheckJoinState(e) ELSE e

(* post_cache_update.  The message of a node that is not the DC has no     *)
(* effect.                                                                 *)
PostCacheUpdate(n, s, id) ==
  LET seen == [s EXCEPT !.peerSeq = id]
      r == ForEach(LAMBDA t, peer : ReapDeadNode(n, t, peer), seen, s.cache \ s.view)
      e == SetTrigger([r EXCEPT !.known = TRUE, !.acts = @ \cup {"A_ELECTION_CHECK"}])
  IN  IF s.dc THEN Send(e, Node, NoopMsg(n)) ELSE e

(* quorum_notification_cb *)
QuorumNotification(n, s, event) ==
  LET new == ForEach(LAMBDA t, peer : PeerState(t, peer, TRUE), s, event.members \ s.member)
      old == ForEach(LAMBDA t, peer : PeerState(t, peer, FALSE), new,
                     s.member \ event.members)
  IN  PostCacheUpdate(n, old, event.id)

(* pcmk__cpg_confchg_cb *)
JoinedMsg(members) == [type |-> "joined", members |-> members]
LeftMsg(members) == [type |-> "left", members |-> members]

ConfigChange(s, m) ==
  IF m.type = "left"
  THEN ForEach(LAMBDA t, peer : PeerProcess(t, peer, FALSE), s, m.members \cap s.procs)
  ELSE ForEach(LAMBDA t, peer : PeerProcess(t, peer, TRUE), s, m.members \ s.procs)

(* crmd_cs_dispatch, crmd_ha_msg_filter, route_message, handle_request *)
InputOf == [offer |-> "I_JOIN_OFFER", acknak |-> "I_JOIN_RESULT",
            announce |-> "I_NODE_JOIN", request |-> "I_JOIN_REQUEST",
            confirm |-> "I_JOIN_RESULT"]

Receive(n, s, m) ==
  IF s.dc /\ m.type \in FromDc /\ m.from # n
  THEN SetTrigger(IF s.fsa = "S_ELECTION" THEN s ELSE FsaError(s, "I_ELECTION", NoData))
  ELSE IF ~s.dc /\ m.type \in ToDc THEN s
  ELSE IF m.type \in {"vote", "no-vote"}
  THEN SetTrigger([s EXCEPT !.queue = Append(@, Msg("I_NULL", m,
                              {"A_ELECTION_COUNT", "A_ELECTION_CHECK"}))])
  ELSE IF m.type = "noop" THEN SetTrigger(s)
  ELSE FsaAppend(s, InputOf[m.type], m)

HandleMessage(n, s, m) ==
  Receive(n, IF m.from \in s.procs THEN s ELSE PeerProcess(s, m.from, TRUE), m)

(* crm_timer_popped *)
TimerPopped(s, timer) ==
  LET r == SetTrigger([s EXCEPT !.timers = @ \ {timer}])
  IN  CASE timer = "dc" -> FsaAppend(r, "I_DC_TIMEOUT", NoData)
        [] timer = "integration" ->
             IF In(s, {Welcomed}) = {} THEN FsaError(r, "I_ELECTION", NoData)
             ELSE FsaPrepend(r, "I_INTEGRATED")
        [] timer = "finalization" ->
             IF s.fsa # "S_FINALIZE_JOIN" THEN r
             ELSE FsaAppend(r, "I_ELECTION", NoData)

(* notify_crmd, when the last action of the graph is done *)
NotifyCrmd(s) ==
  LET r == SetTrigger([s EXCEPT !.graph = "complete"])
  IN  IF s.fsa = "S_TRANSITION_ENGINE"
      THEN FsaAppend(r, IF s.graph = "restart" THEN "I_PE_CALC" ELSE "I_TE_SUCCESS", NoData)
      ELSE IF s.graph = "restart" /\ s.fsa = "S_POLICY_ENGINE"
      THEN [r EXCEPT !.acts = @ \cup {"A_PE_INVOKE"}] ELSE r

-----------------------------------------------------------------------------
(* A controller as it is when it has connected to everything: it waits for *)
(* the first quorum notification.                                          *)
Process(n, age) ==
  [view |-> {}, state |-> "start", count |-> 0, voted |-> {}, timer |-> FALSE,
   dampened |-> FALSE, age |-> age, out |-> [m \in Node |-> <<>>],
   fsa |-> "S_STARTING", queue |-> <<>>, acts |-> {"A_STARTED"}, stalled |-> TRUE,
   trigger |-> FALSE, seen |-> {}, dc |-> FALSE, dcName |-> None, known |-> FALSE,
   member |-> {}, procs |-> {n}, cache |-> {n}, membershipId |-> 0, peerSeq |-> 0,
   highestSeq |-> 0, phase |-> [m \in Node |-> NoPhase], joinId |-> 0,
   maxFrom |-> None, maxGen |-> 0, haveCib |-> FALSE, failed |-> {}, timers |-> {},
   calls |-> <<>>, graph |-> "absent",
   sched |-> FALSE, staydown |-> FALSE, faults |-> {}]

(* A controller of a group that w has joined.  The number of the next      *)
(* round starts over.                                                      *)
Settled(n, w, group) ==
  LET s == [Process(n, CHOOSE a \in Ages : TRUE) EXCEPT
              !.acts = {}, !.stalled = FALSE, !.known = TRUE, !.member = group,
              !.procs = group, !.view = group, !.cache = group, !.peerSeq = 1,
              !.dcName = w]
  IN  IF n # w THEN [s EXCEPT !.fsa = "S_NOT_DC", !.state = "lost"]
      ELSE [s EXCEPT !.fsa = "S_IDLE", !.state = "won", !.dc = TRUE, !.membershipId = 1,
                     !.phase = [m \in Node |-> IF m \in group THEN Confirmed ELSE NoPhase],
                     !.joinId = MaxJoinId, !.maxFrom = w, !.haveCib = TRUE, !.graph = "complete"]

Init ==
  /\ budget \in Scenarios
  /\ LET up == budget.booted
     IN  \E w \in (IF up = {} THEN {None} ELSE up) :
           /\ node = [n \in Node |-> IF n \in up THEN Settled(n, w, up)
                                     ELSE Process(n, CHOOSE a \in Ages : TRUE)]
           /\ ring = [n \in Node |-> IF n \in up THEN up ELSE {}]
           /\ part = ring
  /\ seq = 1
  /\ inbox = [n \in Node |-> <<>>]
  /\ quorum = [n \in Node |-> <<>>]
  /\ cib = budget.generations

Running(n) == ring[n] # {}
Up == {n \in Node : Running(n)}

(* The inboxes when the controller of n has sent r.out, given that the     *)
(* inboxes are box.                                                        *)
Sent(n, r, box) ==
  [m \in Node |-> IF m \in ring[n] THEN box[m] \o r.out[m] ELSE box[m]]

(* The process group without n *)
Gone(n, box) ==
  /\ ring' = [m \in Node |-> IF m = n THEN {} ELSE ring[m] \ {n}]
  /\ inbox' = [m \in Node |-> IF m = n THEN <<>>
                              ELSE IF n \in ring[m] THEN Append(box[m], LeftMsg({n}))
                              ELSE box[m]]

Dead(n, staydown) ==
  [Process(n, CHOOSE a \in Ages : TRUE) EXCEPT !.staydown = staydown]

(* The end of an event: the controller sends its messages and, when it is  *)
(* in S_TERMINATE, exits.                                                  *)
Commit(n, r, box, notes) ==
  IF r.fsa = "S_TERMINATE"
  THEN /\ node' = [node EXCEPT ![n] = Dead(n, r.staydown)]
       /\ Gone(n, Sent(n, r, box))
       /\ quorum' = [notes EXCEPT ![n] = <<>>]
  ELSE /\ node' = [node EXCEPT ![n] = [r EXCEPT !.out = [m \in Node |-> <<>>]]]
       /\ inbox' = Sent(n, r, box)
       /\ quorum' = notes
       /\ UNCHANGED ring

(* The main loop dispatches each source that is ready once before the FSA  *)
(* runs.                                                                   *)
Handled(n, source, s, box, notes) ==
  /\ source \notin node[n].seen
  /\ Commit(n, IF budget.batch THEN [s EXCEPT !.seen = @ \cup {source}] ELSE Fsa(n, s),
            box, notes)

RunFsa(n) ==
  /\ Running(n) /\ budget.batch /\ node[n].trigger
  /\ Commit(n, Fsa(n, node[n]), inbox, quorum)
  /\ UNCHANGED <<part, seq, cib, budget>>

Deliver(n) ==
  /\ Running(n) /\ inbox[n] # <<>>
  /\ LET m == Head(inbox[n])
     IN  Handled(n, "cpg", IF m.type \in {"joined", "left"} THEN ConfigChange(node[n], m)
                           ELSE HandleMessage(n, node[n], m),
                 [inbox EXCEPT ![n] = Tail(@)], quorum)
  /\ UNCHANGED <<part, seq, cib, budget>>

NotifyQuorum(n) ==
  /\ Running(n) /\ quorum[n] # <<>>
  /\ Handled(n, "quorum", QuorumNotification(n, node[n], Head(quorum[n])), inbox,
             [quorum EXCEPT ![n] = Tail(@)])
  /\ UNCHANGED <<part, seq, cib, budget>>

-----------------------------------------------------------------------------
(* Timers.  They are longer than everything else takes, except where the   *)
(* scenario says so.                                                       *)

Busy(n) ==
  \/ inbox[n] # <<>> \/ quorum[n] # <<>> \/ node[n].trigger
  \/ node[n].calls # <<>> \/ node[n].sched \/ Incomplete(node[n])

Quiet == \A n \in Node : Running(n) => ~Busy(n)

Expires ==
  IF Quiet THEN UNCHANGED budget
  ELSE budget.early > 0 /\ budget' = [budget EXCEPT !.early = @ - 1]

TimerPops(n, timer) ==
  /\ Running(n) /\ timer \in node[n].timers /\ Expires
  /\ Handled(n, timer, TimerPopped(node[n], timer), inbox, quorum)
  /\ UNCHANGED <<part, seq, cib>>

ElectionTimeout(n) ==
  /\ Running(n) /\ node[n].timer /\ Expires
  /\ Handled(n, "election", ElectionComplete(node[n]), inbox, quorum)
  /\ UNCHANGED <<part, seq, cib>>

(* LOSS_DAMPEN seconds have passed. *)
DampeningEnds(n) ==
  /\ Running(n) /\ node[n].dampened /\ Expires
  /\ node' = [node EXCEPT ![n].dampened = FALSE]
  /\ UNCHANGED <<ring, part, seq, inbox, quorum, cib>>

-----------------------------------------------------------------------------
(* Answers of the CIB manager, the scheduler and the transition engine *)

Fails ==
  budget.failures > 0 /\ budget' = [budget EXCEPT !.failures = @ - 1]

(* The CIB manager processes local calls in their order, and then sends on *)
(* those that concern other nodes.                                         *)
Local(n, call) == call.op = "query" \/ (call.op = "sync" /\ call.from = n)

Answerable(n, i) ==
  \A j \in 1..(i - 1) :
    LET earlier == node[n].calls[j]
    IN  ~Local(n, earlier) /\ (earlier = CommitCall => node[n].calls[i] # CommitCall)

Answered(n, s) == Handled(n, "cib", s, inbox, quorum) /\ UNCHANGED <<part, seq>>

QueryAnswered(n, s, call) ==
  /\ call.op = "query"
  /\ Answered(n, JoinQueryCallback(n, s, call.id, cib[n]))
  /\ UNCHANGED <<cib, budget>>

(* The CIB manager of the source sends its CIB to all of the partition,    *)
(* which takes it unless it is older than the one that is there.           *)
SyncDone(n, s, call) ==
  /\ call.op = "sync" /\ call.from \in part[n]
  /\ cib' = [m \in Node |-> IF m \in part[n] /\ cib[m] < cib[call.from]
                            THEN cib[call.from] ELSE cib[m]]
  /\ Answered(n, FinalizeSyncCallback(n, s, call.from,
                                      IF cib[call.from] < cib[n] THEN "old" ELSE "ok"))
  /\ UNCHANGED budget

(* The operation fails on another node, or that node is gone and it times  *)
(* out.                                                                    *)
SyncFails(n, s, call) ==
  /\ call.op = "sync" /\ call.from # n
  /\ IF call.from \in part[n] \/ inbox[n] # <<>> \/ quorum[n] # <<>>
     THEN Fails ELSE UNCHANGED budget
  /\ Answered(n, FinalizeSyncCallback(n, s, call.from, "failed"))
  /\ UNCHANGED cib

Committed(n, s, call) ==
  /\ call.op = "commit"
  /\ \E ok \in BOOLEAN :
       /\ IF ok THEN UNCHANGED budget ELSE Fails
       /\ Answered(n, CommitCallback(s, ok))
  /\ UNCHANGED cib

CibAnswers(n) ==
  /\ Running(n)
  /\ \E i \in DOMAIN node[n].calls :
       LET call == node[n].calls[i]
           s == [node[n] EXCEPT !.calls = RemoveAt(@, i)]
       IN  /\ Answerable(n, i)
           /\ \/ QueryAnswered(n, s, call) \/ SyncDone(n, s, call)
              \/ SyncFails(n, s, call) \/ Committed(n, s, call)

SchedulerReply(n) ==
  /\ Running(n) /\ node[n].sched
  /\ Handled(n, "scheduler",
             FsaAppend([node[n] EXCEPT !.sched = FALSE], "I_PE_SUCCESS", NoData),
             inbox, quorum)
  /\ UNCHANGED <<part, seq, cib, budget>>

TransitionDone(n) ==
  /\ Running(n) /\ Incomplete(node[n])
  /\ Handled(n, "graph", NotifyCrmd(node[n]), inbox, quorum)
  /\ UNCHANGED <<part, seq, cib, budget>>

-----------------------------------------------------------------------------
(* The environment *)

Spend(what) ==
  /\ budget[what] > 0
  /\ IF Quiet THEN budget' = [budget EXCEPT ![what] = @ - 1]
     ELSE /\ budget.hurry > 0
          /\ budget' = [budget EXCEPT ![what] = @ - 1, !.hurry = @ - 1]

(* Corosync forms new partitions and tells the controllers among hears. *)
NewMembership(groups, down, hears, notes) ==
  LET of(m) == CHOOSE g \in groups : m \in g
  IN  /\ seq' = seq + 1
      /\ part' = [m \in Node |-> IF m \in down THEN {}
                                 ELSE IF m \in UNION groups THEN of(m) ELSE part[m]]
      /\ quorum' = [m \in Node |->
           IF m \in down THEN <<>>
           ELSE IF m \in hears \cap UNION groups
           THEN Append(notes[m], [id |-> seq + 1, members |-> of(m)]) ELSE notes[m]]

(* The process crashes or is killed. *)
ControllerDies(n) ==
  /\ Running(n) /\ Spend("deaths")
  /\ node' = [node EXCEPT ![n] = Dead(n, FALSE)]
  /\ Gone(n, inbox)
  /\ quorum' = [quorum EXCEPT ![n] = <<>>]
  /\ UNCHANGED <<part, seq, cib>>

Crash(n) ==
  /\ part[n] # {} /\ Spend("crashes")
  /\ node' = [node EXCEPT ![n] = Dead(n, FALSE)]
  /\ Gone(n, inbox)
  /\ NewMembership({part[n] \ {n}}, {n}, Up, quorum)
  /\ UNCHANGED cib

(* The controller of n joins the process group of the partition. *)
Joins(n, age, group) ==
  LET members == (group \cap Up) \cup {n}
  IN  /\ node' = [node EXCEPT ![n] = Process(n, age)]
      /\ ring' = [m \in Node |-> IF m \in members THEN members ELSE ring[m]]
      /\ inbox' = [m \in Node |-> IF m = n THEN <<JoinedMsg(members)>>
                                  ELSE IF m \in members THEN Append(inbox[m], JoinedMsg({n}))
                                  ELSE inbox[m]]

Partitions == {part[m] : m \in Node} \ {{}}

StartNode(n) ==
  /\ n \in budget.cluster /\ part[n] = {} /\ Spend("starts")
  /\ \E group \in (IF Partitions = {} THEN {{}} ELSE Partitions), age \in Ages :
       /\ Joins(n, age, group)
       /\ NewMembership({group \cup {n}}, {}, Up \cup {n}, quorum)
  /\ UNCHANGED cib

(* pacemakerd starts the controller again. *)
RestartController(n) ==
  /\ part[n] # {} /\ ~Running(n) /\ ~node[n].staydown
  /\ \E age \in Ages : Joins(n, age, part[n])
  /\ quorum' = [quorum EXCEPT ![n] = <<[id |-> seq, members |-> part[n]]>>]
  /\ UNCHANGED <<part, seq, cib, budget>>

(* The network splits the partition of n, or heals. *)
Split(n) ==
  /\ part[n] # {} /\ Spend("splits")
  /\ \E side \in SUBSET part[n] :
       LET other == part[n] \ side
       IN  /\ n \in side /\ other # {}
           /\ NewMembership({side, other}, {}, Up, quorum)
           /\ ring' = [m \in Node |-> IF m \in side THEN ring[m] \ other
                                      ELSE IF m \in other THEN ring[m] \ side ELSE ring[m]]
           /\ inbox' = [m \in Node |->
                LET lost == ring[m] \ ring'[m]
                IN  IF lost = {} THEN inbox[m] ELSE Append(inbox[m], LeftMsg(lost))]
  /\ UNCHANGED <<node, cib>>

Merge(n, m) ==
  /\ part[n] # {} /\ part[m] # {} /\ part[n] # part[m] /\ Spend("merges")
  /\ LET both == part[n] \cup part[m]
     IN  /\ NewMembership({both}, {}, Up, quorum)
         /\ ring' = [k \in Node |-> IF k \in both \cap Up THEN both \cap Up ELSE ring[k]]
         /\ inbox' = [k \in Node |->
              LET new == ring'[k] \ ring[k]
              IN  IF new = {} THEN inbox[k] ELSE Append(inbox[k], JoinedMsg(new))]
  /\ UNCHANGED <<node, cib>>

(* A client changes the CIB: every CIB manager of the partition does. *)
CibChange(n) ==
  /\ part[n] # {} /\ Spend("changes")
  /\ cib' = [m \in Node |-> IF m \in part[n] THEN cib[m] + 1 ELSE cib[m]]
  /\ UNCHANGED <<node, ring, part, seq, inbox, quorum>>

Environment(n) ==
  \/ ControllerDies(n) \/ Crash(n) \/ StartNode(n) \/ RestartController(n)
  \/ Split(n) \/ CibChange(n) \/ \E m \in Node : Merge(n, m)

Controller(n) ==
  \/ RunFsa(n) \/ Deliver(n) \/ NotifyQuorum(n) \/ ElectionTimeout(n) \/ DampeningEnds(n)
  \/ CibAnswers(n) \/ SchedulerReply(n)
  \/ TransitionDone(n) \/ \E timer \in {"dc", "integration", "finalization"} : TimerPops(n, timer)

Next == \E n \in Node : Controller(n) \/ Environment(n)

Spec == Init /\ [][Next]_vars

-----------------------------------------------------------------------------
(* Properties *)

(* Nothing is left to happen but what the environment decides.  A node     *)
(* that was told to stay down does.                                        *)
AtRest ==
  /\ Quiet
  /\ \A n \in Up : ~node[n].timer /\ node[n].timers = {}
  /\ \A n \in Node : part[n] # {} => Running(n) \/ node[n].staydown

(* w is the DC of the group and idle, the others have joined it and know   *)
(* it, and all have the same CIB.                                          *)
JoinedTo(w, group) ==
  /\ node[w].dc /\ node[w].fsa = "S_IDLE" /\ In(node[w], {Confirmed}) = group
  /\ \A m \in group \ {w} :
       node[m].fsa = "S_NOT_DC" /\ node[m].dcName = w /\ ~node[m].dc
  /\ \A m \in group : cib[m] = cib[w]

AllJoined == \A n \in Up : \E w \in ring[n] : JoinedTo(w, ring[n])

TypeOK ==
  /\ \A n \in Node :
       /\ node[n].fsa \in States
       /\ node[n].phase \in [Node -> Nack..Confirmed]
       /\ node[n].dcName \in Node \cup {None}
       /\ node[n].maxFrom \in Node \cup {None}
       /\ node[n].joinId \in 0..MaxJoinId
       /\ node[n].view \subseteq node[n].cache
       /\ ring[n] \subseteq part[n]
  /\ budget \in Bounds

(* When everything has been delivered and no timer runs, each partition    *)
(* has one DC, which has confirmed exactly the controllers of the          *)
(* partition; the others are in S_NOT_DC and know it; and all have the     *)
(* same CIB.  No order of messages, membership events, crashes, partitions *)
(* and failed CIB calls leaves a controller waiting for something that     *)
(* nobody will send (peer_update_callback, check_join_state, the timers).  *)
RestIsJoined == TypeOK /\ (AtRest => AllJoined)

(* No controller meets one of the assertions on the way: an action of the  *)
(* FSA finds the message it is about (fsa_typed_data_adv), a vote happens  *)
(* only in states that can have one, S_NOT_DC is entered with a known DC   *)
(* and the states of a DC only by the DC (do_state_transition), and the    *)
(* graph is there when it is aborted.  Two calls to sync from the same     *)
(* node that both fail are left to the CIB manager.                        *)
NoAssert == \A n \in Node : node[n].faults \subseteq {"sync failed before"}

(* When the DC goes on to the scheduler, no node that it confirmed has a   *)
(* newer CIB than its own, unless the CIB manager still owes it the result *)
(* of a sync or the node is one from which a sync failed                   *)
(* (do_dc_join_filter_offer, do_dc_join_finalize).                         *)
DcHasBestCib ==
  \A w \in Up :
    /\ node[w].dc /\ node[w].fsa \in Joined
    /\ \A i \in DOMAIN node[w].calls : node[w].calls[i].op # "sync"
    => \A m \in (In(node[w], {Confirmed}) \cap ring[w]) \ node[w].failed : cib[m] <= cib[w]

(* As long as something is left to happen, something does: processes run,  *)
(* messages arrive, timers pop, calls are answered, and pacemakerd starts  *)
(* a controller again.                                                     *)
Fairness == <>[]~AtRest => []<><<TRUE>>_vars

FairSpec == Spec /\ Fairness

(* The partitions are joined again and again: elections, offers and        *)
(* restarted rounds do not go on forever once the environment is quiet.    *)
Converges == []<>AllJoined
=============================================================================
