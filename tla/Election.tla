------------------------------- MODULE Election -------------------------------
(***************************************************************************)
(* The election library (lib/cluster/election.c), which the controller     *)
(* uses to choose the DC and the attribute manager to choose the writer.   *)
(*                                                                         *)
(* It has no main loop of its own: each function is an operator on the     *)
(* record s of the process that calls it.  The fields of s it uses are     *)
(*                                                                         *)
(*   view      the active nodes of the peer cache                          *)
(*   state     enum election_result of the current election                *)
(*   count     how many times the node has voted                           *)
(*   voted     the nodes whose votes are recorded                          *)
(*   timer     whether the election timer is running                       *)
(*   dampened  whether an election was lost within LOSS_DAMPEN             *)
(*   age       the (cached) uptime of the process                          *)
(*   out       what the process sends to each node                         *)
(*                                                                         *)
(* The time of the last loss is only compared with LOSS_DAMPEN, so a       *)
(* Boolean that time clears stands for it.                                 *)
(***************************************************************************)
EXTENDS Naturals, FiniteSets, Sequences

CONSTANTS
  Node,        \* the cluster nodes
  NameRank,    \* order of the node names, as strcasecmp() sees them
  FeatureSet,  \* CRM_FEATURE_SET of the software on each node
  Ages,        \* uptimes that can be told apart
  Rounds       \* the vote counter wraps after this many rounds

ASSUME ElectionAssumption ==
  /\ NameRank \in [Node -> Nat]
  /\ \A n, m \in Node : NameRank[n] = NameRank[m] => n = m
  /\ FeatureSet \in [Node -> Nat]
  /\ Ages \subseteq Nat /\ Ages # {}
  /\ Rounds \in Nat \ {0}

ElectionStates == {"start", "in_progress", "lost", "won"}

-----------------------------------------------------------------------------
(* Sending (pcmk__cluster_send_message) to a set of nodes *)

Send(s, to, msg) ==
  [s EXCEPT !.out = [m \in Node |-> IF m \in to THEN Append(@[m], msg) ELSE @[m]]]

ElectionReset(s) == [s EXCEPT !.timer = FALSE, !.voted = {}]

ElectionRemove(s, peer) == [s EXCEPT !.voted = @ \ {peer}]

ElectionClearDampening(s) == [s EXCEPT !.dampened = FALSE]

VoteMsg(n, s) ==
  [type |-> "vote", from |-> n, owner |-> n, id |-> s.count, age |-> s.age]

NoVoteMsg(n, vote) ==
  [type |-> "no-vote", from |-> n, owner |-> vote.owner, id |-> vote.id]

(* Offer the local node as a candidate. *)
ElectionVote(n, s) ==
  IF n \notin s.view THEN s
  ELSE LET v == [ElectionReset(s) EXCEPT !.state = "in_progress",
                                         !.count = (@ + 1) % Rounds]
       IN  [Send(v, Node, VoteMsg(n, v)) EXCEPT !.timer = TRUE]

(* election_check() finds votes of as many nodes as are active.  The caller *)
(* then runs its callback on ElectionWon(s) and ends with ElectionReset.    *)
AllVoted(s) ==
  /\ s.voted # {}
  /\ Cardinality(s.voted) >= Cardinality(s.view)

ElectionWon(s) == [s EXCEPT !.state = "won"]

-----------------------------------------------------------------------------
(* Counting a vote (election_count_vote) *)

Eligible(n, s, canWin) == canWin /\ n \in s.view

Superseded(n, s, m) == m.owner = n /\ m.id # s.count

(* A no-vote, or our own vote, is a vote for us. *)
ForUs(n, m) == m.type = "no-vote" \/ m.from = n

Ignored(n, s, m) == Superseded(n, s, m) \/ m.from \notin s.view

(* The lower feature set wins, then the greater uptime, then the name that *)
(* sorts first.                                                            *)
Preferred(n, s, m) ==
  \/ FeatureSet[m.from] > FeatureSet[n]
  \/ /\ FeatureSet[m.from] = FeatureSet[n]
     /\ \/ s.age > m.age
        \/ s.age = m.age /\ NameRank[n] <= NameRank[m.from]

Records(n, s, m, canWin) ==
  /\ Eligible(n, s, canWin) /\ ~Ignored(n, s, m) /\ ForUs(n, m)
  /\ m.owner = n /\ s.state = "in_progress"

Contested(n, s, m, canWin) ==
  Eligible(n, s, canWin) /\ ~Ignored(n, s, m) /\ ~ForUs(n, m)

Passes(n, s, m, canWin) ==
  Contested(n, s, m, canWin) /\ Preferred(n, s, m) /\ ~s.dampened

Loses(n, s, m, canWin) ==
  \/ ~Eligible(n, s, canWin)
  \/ Contested(n, s, m, canWin) /\ (Preferred(n, s, m) => s.dampened)

RecordVote(s, m) == [s EXCEPT !.voted = @ \cup {m.from}]

PassElection(s) ==
  [s EXCEPT !.dampened = FALSE, !.timer = FALSE, !.state = "start"]

(* Mutant: the timer of the lost election keeps running. *)
LoseElectionKeepsTimer(n, s, m) ==
  [Send([s EXCEPT !.dampened = TRUE], {m.from}, NoVoteMsg(n, m))
   EXCEPT !.state = "lost"]

LoseElection(n, s, m) ==
  [Send([ElectionReset(s) EXCEPT !.dampened = TRUE], {m.from}, NoVoteMsg(n, m))
   EXCEPT !.state = "lost"]

CountVote(n, s, m, canWin) ==
  IF Loses(n, s, m, canWin) THEN LoseElection(n, s, m)
  ELSE IF Passes(n, s, m, canWin) THEN PassElection(s)
  ELSE IF Records(n, s, m, canWin) THEN RecordVote(s, m)
  ELSE s

(* Only a no-vote of an election somebody else started is an error. *)
CountError(n, s, m, canWin) ==
  /\ Eligible(n, s, canWin) /\ ~Ignored(n, s, m) /\ ForUs(n, m)
  /\ m.owner # n
=============================================================================
