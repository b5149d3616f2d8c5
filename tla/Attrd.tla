--------------------------------- MODULE Attrd ---------------------------------
(***************************************************************************)
(* The attribute managers of a cluster (daemons/attrd): who is the writer, *)
(* how values spread, and what the writer puts into the CIB.               *)
(*                                                                         *)
(* A process is a record node[n]; every C function is an operator from     *)
(* record to record, and a handler is a composition of them.  Besides the  *)
(* fields that module Election describes it has                            *)
(*                                                                         *)
(*   writer    peer_writer, or None                                        *)
(*   proto     the nodes whose protocol version (a private attribute) is   *)
(*             known                                                       *)
(*   values    value of the (one) ordinary attribute for each node         *)
(*   removed   removed_peers                                               *)
(*   shutting  attrd.shutting_down                                         *)
(*   cib       the local copy of the values in the CIB                     *)
(*                                                                         *)
(* Corosync process groups (CPG) deliver messages and membership changes   *)
(* in one agreed order.  A broadcast is therefore appended at once to the  *)
(* inboxes of all members: a message that is ordered later than it is sent *)
(* commutes with what others do before they receive it.                    *)
(***************************************************************************)
EXTENDS Election

CONSTANTS
  None,       \* no writer is known
  Scenarios   \* bounds on what the environment does, see Bounds

(* A scenario has nodes that run the daemon at some time, those of them    *)
(* that are up, with a writer, in the initial state, and bounds on client  *)
(* updates, crashes and shutdowns, starts, partitions and their ends, and   *)
(* on election timeouts while messages are in flight.                      *)
Bounds ==
  [hosts : SUBSET Node, booted : SUBSET Node, updates : Nat, leaves : Nat,
   starts : Nat, early : Nat, splits : Nat, merges : Nat]

ASSUME AttrdAssumption ==
  /\ None \notin Node
  /\ Scenarios \subseteq Bounds

VARIABLES
  node,    \* state of the process on each node
  ring,    \* the CPG membership each node belongs to, {} if it is down
  inbox,   \* what CPG will deliver to each node
  budget   \* what the environment may still do

vars == <<node, ring, inbox, budget>>

(* An entry of a->values may exist without a value. *)
NoEntry == 0
Unset == 1
Current(value) == IF value = NoEntry THEN Unset ELSE value

NoValues == [h \in Node |-> NoEntry]
EmptyCib == [h \in Node |-> Unset]
NoMail == [m \in Node |-> <<>>]

Up == {n \in Node : ring[n] # {}}

-----------------------------------------------------------------------------
(* Messages *)

(* CPG configuration changes *)
JoinedMsg(members) == [type |-> "joined", members |-> members]
LeftMsg(members, begun) == [type |-> "left", members |-> members, begun |-> begun]

ProtocolMsg(n, set) == [type |-> "protocol", from |-> n, set |-> set]

UpdateMsg(n, value) == [type |-> "update", from |-> n, value |-> value]

(* Mutant: the election state of the sender is not added. *)
SyncMsgAnonymous(n, s, proto, values) ==
  [type |-> "sync", from |-> n, won |-> FALSE, proto |-> proto, values |-> values]

(* Every message carries the election state of its sender                  *)
(* (attrd_xml_add_writer); only synchronizations make use of it.           *)
SyncMsg(n, s, proto, values) ==
  [type |-> "sync", from |-> n, won |-> s.state = "won",
   proto |-> proto, values |-> values]

(* attrd_peer_sync *)
PeerSync(n, s, to) == Send(s, to, SyncMsg(n, s, s.proto, s.values))

-----------------------------------------------------------------------------
(* The writer (attrd_elections.c, attrd_cib.c) *)

(* write_attribute: all values of the attribute.  Private attributes are   *)
(* not written.                                                            *)
WriteAttribute(s) ==
  [s EXCEPT !.cib = [h \in Node |-> IF s.values[h] = NoEntry THEN @[h]
                                    ELSE Current(s.values[h])]]

EraseTransientAttrs(s, hosts) ==
  [s EXCEPT !.cib = [h \in Node |-> IF h \in hosts THEN Unset ELSE @[h]]]

EraseRemovedPeerAttributes(s) ==
  [EraseTransientAttrs(s, s.removed) EXCEPT !.removed = {}]

(* Mutant: the winner does not erase the attributes of removed peers. *)
ElectionCbNoErase(n, s) == WriteAttribute(PeerSync(n, [s EXCEPT !.writer = n], Node))

(* attrd_election_cb *)
ElectionCb(n, s) ==
  WriteAttribute(
    EraseRemovedPeerAttributes(PeerSync(n, [s EXCEPT !.writer = n], Node)))

(* election_complete *)
ElectionComplete(n, s) == ElectionReset(ElectionCb(n, ElectionWon(s)))

ElectionCheck(n, s) == IF AllVoted(s) THEN ElectionComplete(n, s) ELSE s

(* attrd_start_election_if_needed *)
StartElectionIfNeeded(n, s) ==
  IF s.writer = None /\ s.state # "in_progress" /\ ~s.shutting
  THEN ElectionVote(n, s) ELSE s

(* attrd_write_or_elect_attribute, and the same for a private attribute *)
WriteOrElect(n, s) ==
  IF s.state = "won" THEN WriteAttribute(s) ELSE StartElectionIfNeeded(n, s)

Elect(n, s) == IF s.state = "won" THEN s ELSE StartElectionIfNeeded(n, s)

(* Mutant: that the writer has left is not noted. *)
RemoveVoterKeepsWriter(n, s, peer) ==
  LET r == ElectionRemove(s, peer)
  IN  IF s.state = "in_progress" THEN ElectionCheck(n, r) ELSE r

(* attrd_remove_voter *)
RemoveVoter(n, s, peer) ==
  LET r == ElectionRemove(s, peer)
  IN  IF s.writer = peer
      THEN StartElectionIfNeeded(n,
             ElectionClearDampening([r EXCEPT !.writer = None]))
      ELSE IF s.state = "in_progress" THEN ElectionCheck(n, r) ELSE r

(* attrd_check_for_new_writer *)
CheckForNewWriter(n, s, m) ==
  IF ~m.won THEN s
  ELSE IF s.state = "won" /\ m.from # n THEN ElectionVote(n, s)
  ELSE [s EXCEPT !.writer = m.from]

(* attrd_handle_election_op *)
HandleElectionOp(n, s, m) ==
  LET c == CountVote(n, s, m, ~s.shutting)
  IN  IF CountError(n, s, m, ~s.shutting) THEN c
      ELSE IF c.state = "start" THEN ElectionVote(n, [c EXCEPT !.writer = None])
      ELSE IF c.state = "in_progress" THEN ElectionCheck(n, c)
      ELSE IF c.state = "lost" /\ (s.writer = None \/ s.state # "lost")
      THEN [c EXCEPT !.writer = m.from] ELSE c

-----------------------------------------------------------------------------
(* Values (attrd_corosync.c) *)

(* update_attr_on_host for the protocol version of the sender *)
HandleProtocol(n, s, m) ==
  LET r == [s EXCEPT !.removed = @ \ {m.from},
                     !.proto = IF m.set THEN @ \cup {m.from} ELSE @ \ {m.from}]
  IN  IF r.proto = s.proto THEN r ELSE Elect(n, r)

(* update_attr_on_host for the ordinary attribute of the sender *)
HandleUpdate(n, s, m) ==
  LET r == [s EXCEPT !.removed = @ \ {m.from}, !.values[m.from] = m.value]
  IN  IF Current(s.values[m.from]) = Current(m.value) THEN r ELSE WriteOrElect(n, r)

(* The values of a synchronization, with filter set: what it says of the   *)
(* local node does not replace the local value, which is broadcast again   *)
(* if they differ.                                                         *)
ApplySync(n, s, m) ==
  LET listed == {h \in Node : m.values[h] # NoEntry}
      merged == [h \in Node |->
                  IF h \notin listed THEN s.values[h]
                  ELSE IF h # n THEN m.values[h]
                  ELSE IF s.values[n] = NoEntry THEN Unset ELSE s.values[n]]
      differ == {h \in listed : Current(m.values[h]) # Current(s.values[h])}
      learned == m.proto \ s.proto
      r == [s EXCEPT !.removed = @ \ (m.proto \cup listed),
                     !.proto = @ \cup (m.proto \ {n}), !.values = merged]
      p == IF n \in learned THEN Send(r, Node, ProtocolMsg(n, FALSE)) ELSE r
      q == IF n \in differ THEN Send(p, Node, UpdateMsg(n, merged[n])) ELSE p
      w == IF differ \subseteq {n} THEN q ELSE WriteOrElect(n, q)
  IN  IF learned \subseteq {n} THEN w ELSE Elect(n, w)

(* Mutant: local values that the writer does not know are not sent. *)
BroadcastUnseenNot(n, s, m) == s

(* broadcast_unseen_local_values *)
BroadcastUnseen(n, s, m) ==
  LET proto == {n} \cap (s.proto \ m.proto)
      value == IF m.values[n] = NoEntry THEN s.values[n] ELSE NoEntry
  IN  IF ~m.won \/ (proto = {} /\ value = NoEntry) THEN s
      ELSE Send(s, Node, SyncMsg(n, s, proto, [NoValues EXCEPT ![n] = value]))

(* handle_sync_response_request, attrd_peer_sync_response *)
HandleSync(n, s, m) ==
  LET w == CheckForNewWriter(n, s, m)
  IN  IF m.from = n THEN w ELSE BroadcastUnseen(n, ApplySync(n, w, m), m)

(* attrd_peer_remove *)
PeerRemove(n, s, host) ==
  LET r == [s EXCEPT !.proto = @ \ {host}, !.values[host] = NoEntry]
  IN  IF s.state = "won" THEN EraseTransientAttrs(r, {host})
      ELSE StartElectionIfNeeded(n, [r EXCEPT !.removed = @ \cup {host}])

-----------------------------------------------------------------------------
(* Membership (pcmk__cpg_confchg_cb, attrd_peer_change_cb) *)

(* The process of the peer is gone, then its node is lost. *)
PeerLeft(n, s, peer) ==
  RemoveVoter(n,
    PeerRemove(n, RemoveVoter(n, [s EXCEPT !.view = @ \ {peer}], peer), peer),
    peer)

PeersJoined(n, s, members) ==
  LET new == members \ s.view
      r == [s EXCEPT !.view = @ \cup new]
  IN  IF new = {} THEN r
      ELSE IF s.state = "won" THEN PeerSync(n, r, new)
      ELSE Send(r, new, ProtocolMsg(n, TRUE))

(* attrd_cpg_dispatch, attrd_peer_message *)
Handle(n, s, m) ==
  IF m.type = "joined" THEN PeersJoined(n, s, m.members)
  ELSE IF m.type \in {"vote", "no-vote"} THEN HandleElectionOp(n, s, m)
  ELSE IF s.shutting THEN s
  ELSE IF m.type = "protocol" THEN HandleProtocol(n, s, m)
  ELSE IF m.type = "update" THEN HandleUpdate(n, s, m)
  ELSE HandleSync(n, s, m)

-----------------------------------------------------------------------------
(* Actions *)

(* Process n ends a handler in state s: what it sent is delivered to its   *)
(* group, and the CIB managers of the group apply what it wrote.           *)
Commit(n, s, boxes) ==
  /\ inbox' = [m \in Node |-> IF m \in ring[n] THEN boxes[m] \o s.out[m]
                              ELSE boxes[m]]
  /\ node' = [m \in Node |-> IF m = n THEN [s EXCEPT !.out = NoMail]
                             ELSE IF m \in ring[n] THEN [node[m] EXCEPT !.cib = s.cib]
                             ELSE node[m]]

(* pcmk__cpg_confchg_cb is in its loop over the members that left. *)
Looping(n) == inbox[n] # <<>> /\ Head(inbox[n]).type = "left" /\ Head(inbox[n]).begun

Running(n) == n \in Up /\ node[n].ready /\ ~Looping(n)

Deliver(n) ==
  /\ Running(n) /\ inbox[n] # <<>> /\ Head(inbox[n]).type # "left"
  /\ Commit(n, Handle(n, node[n], Head(inbox[n])), [inbox EXCEPT ![n] = Tail(@)])
  /\ UNCHANGED <<ring, budget>>

(* The members that left are handled one by one, and nothing else by n     *)
(* before the last of them.                                                *)
DeliverLeft(n, peer) ==
  /\ n \in Up /\ node[n].ready /\ inbox[n] # <<>> /\ Head(inbox[n]).type = "left"
  /\ LET gone == Head(inbox[n]).members
         rest == IF gone = {peer} THEN <<>> ELSE <<LeftMsg(gone \ {peer}, TRUE)>>
     IN  /\ peer \in gone
         /\ Commit(n, PeerLeft(n, node[n], peer),
                   [inbox EXCEPT ![n] = rest \o Tail(@)])
  /\ UNCHANGED <<ring, budget>>

Quiet == \A n \in Up : node[n].ready /\ ~node[n].shutting /\ inbox[n] = <<>>

(* election_timer_cb.  The timeout is two minutes, so that messages are    *)
(* usually delivered by then.                                              *)
ElectionTimeout(n) ==
  /\ Running(n) /\ node[n].timer
  /\ \/ Quiet /\ UNCHANGED budget
     \/ ~Quiet /\ budget.early > 0 /\ budget' = [budget EXCEPT !.early = @ - 1]
  /\ Commit(n, ElectionComplete(n, node[n]), inbox)
  /\ UNCHANGED ring

(* LOSS_DAMPEN seconds have passed. *)
DampeningEnds(n) ==
  /\ Running(n) /\ node[n].dampened
  /\ node' = [node EXCEPT ![n].dampened = FALSE]
  /\ UNCHANGED <<ring, inbox, budget>>

(* attrd_client_update: a client sets the attribute of the local node. *)
ClientUpdate(n) ==
  /\ Running(n) /\ ~node[n].shutting /\ budget.updates > 0
  /\ budget' = [budget EXCEPT !.updates = @ - 1]
  /\ Commit(n, Send(node[n], Node, UpdateMsg(n, Unset + budget.updates)), inbox)
  /\ UNCHANGED ring

Process(view, age, cib) ==
  [view |-> view, state |-> "start", count |-> 0, voted |-> {}, timer |-> FALSE,
   dampened |-> FALSE, age |-> age, writer |-> None, proto |-> {},
   values |-> NoValues, removed |-> {}, shutting |-> FALSE, ready |-> FALSE,
   cib |-> cib, out |-> NoMail]

Down == Process({}, 0, EmptyCib)

(* attrd_cluster_connect: the daemon joins the process group of the nodes  *)
(* its node can reach.                                                     *)
Join(n, group, age, cib) ==
  LET members == group \cup {n}
  IN  /\ n \in budget.hosts \ Up /\ budget.starts > 0
      /\ budget' = [budget EXCEPT !.starts = @ - 1]
      /\ ring' = [m \in Node |-> IF m \in members THEN members ELSE ring[m]]
      /\ inbox' = [m \in Node |-> IF m \in group THEN Append(inbox[m], JoinedMsg(members))
                                  ELSE IF m = n THEN <<JoinedMsg(members)>> ELSE inbox[m]]
      /\ node' = [node EXCEPT ![n] = Process({n}, age, cib)]

(* The status section starts empty with the cluster. *)
StartFirst(n, age) == Up = {} /\ Join(n, {}, age, EmptyCib)

StartWith(n, peer, age) == peer \in Up /\ Join(n, ring[peer], age, node[peer].cib)

(* The end of main(): the local node has become a member, and the protocol *)
(* version is sent once for that and once to everybody.                    *)
Announce(n) ==
  /\ n \in Up /\ ~node[n].ready
  /\ Commit(n, Send(Send([node[n] EXCEPT !.ready = TRUE], {n}, ProtocolMsg(n, TRUE)),
                    Node, ProtocolMsg(n, TRUE)), inbox)
  /\ UNCHANGED <<ring, budget>>

(* attrd_shutdown *)
Shutdown(n) ==
  /\ Running(n) /\ ~node[n].shutting /\ budget.leaves > 0
  /\ budget' = [budget EXCEPT !.leaves = @ - 1]
  /\ node' = [node EXCEPT ![n].shutting = TRUE]
  /\ UNCHANGED <<ring, inbox>>

(* Process n exits or crashes. *)
Gone(n) ==
  /\ ring' = [m \in Node |-> IF m = n THEN {} ELSE ring[m] \ {n}]
  /\ inbox' = [m \in Node |-> IF m = n THEN <<>>
                              ELSE IF m \in ring[n] THEN Append(inbox[m], LeftMsg({n}, FALSE))
                              ELSE inbox[m]]
  /\ node' = [node EXCEPT ![n] = Down]

Exit(n) == Running(n) /\ node[n].shutting /\ Gone(n) /\ UNCHANGED budget

Crash(n) ==
  /\ n \in Up /\ ~node[n].shutting /\ budget.leaves > 0
  /\ Gone(n)
  /\ budget' = [budget EXCEPT !.leaves = @ - 1]

(* The cluster splits: each node sees those of the other part leave. *)
Split(n, part) ==
  LET rest == ring[n] \ part
      Lost(m) == IF m \in part THEN rest ELSE part
  IN  /\ n \in Up /\ part \subseteq ring[n] /\ n \in part /\ rest # {}
      /\ budget.splits > 0
      /\ budget' = [budget EXCEPT !.splits = @ - 1]
      /\ ring' = [m \in Node |-> IF m \in ring[n] THEN ring[n] \ Lost(m) ELSE ring[m]]
      /\ inbox' = [m \in Node |-> IF m \in ring[n]
                                  THEN Append(inbox[m], LeftMsg(Lost(m), FALSE))
                                  ELSE inbox[m]]
      /\ UNCHANGED node

(* Two parts meet again.  One of their CIBs replaces the other. *)
Merge(n, peer) ==
  LET members == ring[n] \cup ring[peer]
  IN  /\ n \in Up /\ peer \in Up /\ ring[n] # ring[peer]
      /\ budget.merges > 0
      /\ budget' = [budget EXCEPT !.merges = @ - 1]
      /\ ring' = [m \in Node |-> IF m \in members THEN members ELSE ring[m]]
      /\ inbox' = [m \in Node |-> IF m \in members THEN Append(inbox[m], JoinedMsg(members))
                                  ELSE inbox[m]]
      /\ node' = [m \in Node |-> IF m \in members THEN [node[m] EXCEPT !.cib = node[n].cib]
                                 ELSE node[m]]

-----------------------------------------------------------------------------
(* Specification *)

(* A settled group: w is the writer, and all know each other. *)
Settled(n, w, age, group) ==
  [Process(group, age, EmptyCib) EXCEPT
     !.state = IF n = w THEN "won" ELSE "lost", !.writer = w, !.proto = group,
     !.ready = TRUE]

Init ==
  /\ budget \in Scenarios
  /\ \E ages \in [budget.booted -> Ages],
        w \in IF budget.booted = {} THEN {None} ELSE budget.booted :
       node = [n \in Node |-> IF n \in budget.booted
                              THEN Settled(n, w, ages[n], budget.booted) ELSE Down]
  /\ ring = [n \in Node |-> IF n \in budget.booted THEN budget.booted ELSE {}]
  /\ inbox = [n \in Node |-> <<>>]

Leaves(n) == \E peer \in Node : DeliverLeft(n, peer)

Starts(n) ==
  \E age \in Ages : \/ StartFirst(n, age)
                    \/ \E peer \in Node : StartWith(n, peer, age)

Splits(n) ==
  \/ \E part \in SUBSET Node : Split(n, part)
  \/ \E peer \in Node : Merge(n, peer)

Next ==
  \E n \in Node :
    \/ Deliver(n) \/ Leaves(n) \/ ElectionTimeout(n) \/ DampeningEnds(n) \/ ClientUpdate(n)
    \/ Starts(n) \/ Announce(n) \/ Shutdown(n) \/ Exit(n) \/ Crash(n) \/ Splits(n)

Spec == Init /\ [][Next]_vars

(* Process n is starting, or has a message, a signal or an expired timer   *)
(* to handle.                                                              *)
Due(n) ==
  /\ n \in Up
  /\ \/ ~node[n].ready \/ inbox[n] # <<>> \/ node[n].shutting \/ node[n].dampened
     \/ node[n].timer /\ Quiet

(* The main loop of each daemon dispatches what CPG delivers, an expired   *)
(* timer and a signal; a split lasts no longer than the budget of the      *)
(* environment.                                                            *)
Fairness ==
  \A n \in Node :
    /\ WF_vars(Deliver(n)) /\ WF_vars(Leaves(n)) /\ WF_vars(Announce(n))
    /\ WF_vars(ElectionTimeout(n)) /\ WF_vars(DampeningEnds(n)) /\ WF_vars(Exit(n))
    /\ WF_vars(\E peer \in Node : Merge(n, peer))

FairSpec == Spec /\ Fairness

(* Less than that: some daemon goes on as long as there is something to    *)
(* handle, and each comes to a signal.                                     *)
Progress ==
  /\ <>[](\/ \E n \in Node : Due(n)
          \/ budget.merges > 0 /\ \E n, m \in Up : ring[n] # ring[m])
       => []<><<TRUE>>_vars
  /\ \A n \in Node : []<>(~node[n].shutting)

ProgressSpec == Spec /\ Progress

-----------------------------------------------------------------------------
(* Properties *)

(* What the daemons send, and what node n receives: it does not see itself *)
(* leave.                                                                  *)
Sent ==
  [type : {"vote"}, from : Node, owner : Node, id : Nat, age : Nat]
    \cup [type : {"no-vote"}, from : Node, owner : Node, id : Nat]
    \cup [type : {"protocol"}, from : Node, set : BOOLEAN]
    \cup [type : {"update"}, from : Node, value : Nat]
    \cup [type : {"sync"}, from : Node, won : BOOLEAN, proto : SUBSET Node,
         values : [Node -> Nat]]

Deliverable(n) ==
  Sent \cup [type : {"joined"}, members : SUBSET Node]
       \cup [type : {"left"}, members : SUBSET (Node \ {n}), begun : BOOLEAN]

ProcessState ==
  [view : SUBSET Node, state : ElectionStates, count : Nat, voted : SUBSET Node,
   timer : BOOLEAN, dampened : BOOLEAN, age : Nat, writer : Node \cup {None},
   proto : SUBSET Node, values : [Node -> Nat], removed : SUBSET Node,
   shutting : BOOLEAN, ready : BOOLEAN, cib : [Node -> Nat],
   out : [Node -> Seq(Sent)]]

(* Types of the state of the attribute managers; between two events they   *)
(* have nothing left to send.                                              *)
TypeOK ==
  /\ node \in [Node -> ProcessState]
  /\ ring \in [Node -> SUBSET Node]
  /\ inbox = [n \in Node |-> inbox[n]]
  /\ budget \in Bounds
  /\ \A n \in Node : inbox[n] \in Seq(Deliverable(n)) /\ node[n].out = NoMail

(* The state of an election is consistent: the timer runs exactly while it  *)
(* is in progress (election_vote() starts it, and whatever ends the         *)
(* election stops it), only then are votes recorded, and only votes of      *)
(* active peers; and a node that has won considers itself the writer        *)
(* (attrd_declare_winner), whatever messages come in.                       *)
ElectionConsistent ==
  \A n \in Node :
    /\ node[n].timer <=> node[n].state = "in_progress"
    /\ node[n].voted # {} => node[n].timer
    /\ node[n].voted \subseteq node[n].view
    /\ node[n].state = "won" => node[n].writer = n

(* When everything has been delivered, a node that has won is the writer   *)
(* for all members of its group, so that there is only one, whatever        *)
(* elections overlapped (attrd_check_for_new_writer).                       *)
OneWriter ==
  Quiet => \A n, m \in Up :
             node[n].state = "won" /\ ring[n] = ring[m] => node[m].writer = n

(* When everything has been delivered, all members have the value that     *)
(* each member has for itself (update_attr_on_host: "This ensures a node's *)
(* values for itself take precedence and all peers are kept in sync"), and *)
(* nobody knows values of nodes that have left, private attributes         *)
(* included (attrd_peer_change_cb: "Remove all attribute values associated *)
(* with lost nodes").                                                      *)
ValuesAgree ==
  Quiet =>
    /\ \A n, m \in Up : ring[n] = ring[m] =>
         Current(node[m].values[n]) = Current(node[n].values[n])
    /\ \A n \in Up : /\ node[n].proto \subseteq ring[n]
                     /\ \A h \in Node \ ring[n] : Current(node[n].values[h]) = Unset

(* A writer that has nothing left to handle has brought the CIB to what it *)
(* knows: no value is missing, and what nodes that left, or an earlier     *)
(* incarnation of a member, had there is erased (attrd_peer_remove: "Make  *)
(* sure the attributes get erased from the CIB eventually").               *)
CibAgrees ==
  Quiet => \A n \in Up : node[n].state = "won" =>
             \A h \in Node : node[n].cib[h] = Current(node[n].values[h])

(* In the end every group has a writer. *)
WriterElected ==
  []<>(\A n \in Up : \E m \in ring[n] : node[m].state = "won")
=============================================================================
