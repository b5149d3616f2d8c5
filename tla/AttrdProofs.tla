------------------------------ MODULE AttrdProofs ------------------------------
(***************************************************************************)
(* Proofs about Attrd: the types of the state and of the messages, and the *)
(* consistency of elections, for any number of nodes and any scenario.     *)
(*                                                                         *)
(* Good(n, s) says that record s is a well-typed and consistent state of   *)
(* the process on node n.  There is one lemma for each operator from       *)
(* record to record, in the order of the module.                           *)
(***************************************************************************)
EXTENDS Attrd, TLAPS

Good(n, s) ==
  /\ s \in ProcessState
  /\ s.timer <=> s.state = "in_progress"
  /\ s.voted # {} => s.timer
  /\ s.voted \subseteq s.view
  /\ s.state = "won" => s.writer = n

(* s and t agree in the fields that Good(n, s) relates. *)
Same(s, t) ==
  /\ t.view = s.view /\ t.voted = s.voted /\ t.state = s.state
  /\ t.timer = s.timer /\ t.writer = s.writer

(* Fields that the rest of a handler looks at are kept by Send. *)
LEMMA SendType ==
  ASSUME NEW s \in ProcessState, NEW to, NEW msg \in Sent
  PROVE  /\ Send(s, to, msg) \in ProcessState
         /\ Same(s, Send(s, to, msg))
<1>. DEFINE o == [m \in Node |-> IF m \in to THEN Append(s.out[m], msg) ELSE s.out[m]]
<1>1. o \in [Node -> Seq(Sent)]
  BY DEF ProcessState
<1>2. Send(s, to, msg) = [s EXCEPT !.out = o]
  BY DEF Send
<1>. HIDE DEF o
<1>. QED
  BY <1>1, <1>2 DEF ProcessState, Same

(* What does not touch the fields of the election keeps a record good. *)
LEMMA SameGood ==
  ASSUME NEW n, NEW s, Good(n, s), NEW t \in ProcessState, Same(s, t)
  PROVE  Good(n, t)
BY DEF Good, Same

LEMMA SendGood ==
  ASSUME NEW n, NEW s, Good(n, s), NEW to, NEW msg \in Sent
  PROVE  Good(n, Send(s, to, msg))
<1>1. s \in ProcessState
  BY DEF Good
<1>. QED
  BY <1>1, SendType, SameGood

LEMMA MessageTypes ==
  ASSUME NEW n \in Node, NEW s \in ProcessState
  PROVE  /\ VoteMsg(n, s) \in Sent
         /\ \A set \in BOOLEAN : ProtocolMsg(n, set) \in Sent
         /\ \A value \in Nat : UpdateMsg(n, value) \in Sent
         /\ \A proto \in SUBSET Node, values \in [Node -> Nat] :
              SyncMsg(n, s, proto, values) \in Sent
<1>1. VoteMsg(n, s) \in Sent
  BY DEF VoteMsg, ProcessState, Sent
<1>2. \A set \in BOOLEAN : ProtocolMsg(n, set) \in Sent
  BY DEF ProtocolMsg, Sent
<1>3. \A value \in Nat : UpdateMsg(n, value) \in Sent
  BY DEF UpdateMsg, Sent
<1>4. \A proto \in SUBSET Node, values \in [Node -> Nat] :
        SyncMsg(n, s, proto, values) \in Sent
  BY DEF SyncMsg, Sent
<1>. QED
  BY <1>1, <1>2, <1>3, <1>4

-----------------------------------------------------------------------------
(* Elections *)

LEMMA VoteGood ==
  ASSUME NEW n \in Node, NEW s \in ProcessState, n \in s.view \/ Good(n, s)
  PROVE  Good(n, ElectionVote(n, s))
<1>1. CASE n \notin s.view
  BY <1>1 DEF ElectionVote
<1>2. CASE n \in s.view
  <2>. DEFINE v == [ElectionReset(s) EXCEPT !.state = "in_progress",
                                            !.count = (@ + 1) % Rounds]
              w == Send(v, Node, VoteMsg(n, v))
  <2>1. (s.count + 1) % Rounds \in Nat
    BY ElectionAssumption DEF ProcessState
  <2>2. v \in ProcessState /\ v.voted = {} /\ v.state = "in_progress"
    BY <2>1 DEF ElectionReset, ProcessState, ElectionStates
  <2>3. VoteMsg(n, v) \in Sent
    BY <2>2, MessageTypes
  <2>4. w \in ProcessState /\ Same(v, w)
    BY <2>2, <2>3, SendType
  <2>5. ElectionVote(n, s) = [w EXCEPT !.timer = TRUE]
    BY <1>2 DEF ElectionVote
  <2>. HIDE DEF v, w
  <2>. QED
    BY <2>2, <2>4, <2>5 DEF Good, Same, ProcessState
<1>. QED
  BY <1>1, <1>2

LEMMA WriteType ==
  ASSUME NEW s \in ProcessState
  PROVE  WriteAttribute(s) \in ProcessState /\ Same(s, WriteAttribute(s))
BY DEF WriteAttribute, Current, Unset, NoEntry, ProcessState, Same

LEMMA EraseType ==
  ASSUME NEW s \in ProcessState, NEW hosts
  PROVE  /\ EraseTransientAttrs(s, hosts) \in ProcessState
         /\ Same(s, EraseTransientAttrs(s, hosts))
BY DEF EraseTransientAttrs, Unset, ProcessState, Same

LEMMA PeerSyncType ==
  ASSUME NEW n \in Node, NEW s \in ProcessState, NEW to
  PROVE  PeerSync(n, s, to) \in ProcessState /\ Same(s, PeerSync(n, s, to))
<1>1. SyncMsg(n, s, s.proto, s.values) \in Sent
  BY MessageTypes DEF ProcessState
<1>. QED
  BY <1>1, SendType DEF PeerSync

LEMMA CompleteGood ==
  ASSUME NEW n \in Node, NEW s \in ProcessState
  PROVE  Good(n, ElectionComplete(n, s))
<1>. DEFINE a == [ElectionWon(s) EXCEPT !.writer = n]
            b == PeerSync(n, a, Node)
            c == EraseTransientAttrs(b, b.removed)
            d == [c EXCEPT !.removed = {}]
            e == WriteAttribute(d)
<1>1. a \in ProcessState /\ a.state = "won" /\ a.writer = n
  BY DEF ElectionWon, ProcessState, ElectionStates
<1>2. b \in ProcessState /\ Same(a, b)
  BY <1>1, PeerSyncType
<1>3. c \in ProcessState /\ Same(b, c)
  BY <1>2, EraseType
<1>4. d \in ProcessState /\ Same(c, d)
  BY <1>3 DEF ProcessState, Same
<1>5. e \in ProcessState /\ Same(d, e)
  BY <1>4, WriteType
<1>6. e.state = "won" /\ e.writer = n
  BY <1>1, <1>2, <1>3, <1>4, <1>5 DEF Same
<1>7. ElectionComplete(n, s) = ElectionReset(e)
  BY DEF ElectionComplete, ElectionCb, EraseRemovedPeerAttributes
<1>. HIDE DEF e
<1>. QED
  BY <1>5, <1>6, <1>7 DEF ElectionReset, Good, ProcessState

LEMMA CheckGood ==
  ASSUME NEW n \in Node, NEW s, Good(n, s)
  PROVE  Good(n, ElectionCheck(n, s))
BY CompleteGood DEF ElectionCheck, Good

LEMMA StartGood ==
  ASSUME NEW n \in Node, NEW s, Good(n, s)
  PROVE  Good(n, StartElectionIfNeeded(n, s))
BY VoteGood DEF StartElectionIfNeeded, Good

LEMMA ElectGood ==
  ASSUME NEW n \in Node, NEW s, Good(n, s)
  PROVE  Good(n, WriteOrElect(n, s)) /\ Good(n, Elect(n, s))
<1>1. Good(n, WriteAttribute(s))
  BY WriteType, SameGood DEF Good
<1>. QED
  BY <1>1, StartGood DEF WriteOrElect, Elect

(* Only the vote of a peer that has left may be recorded beyond the view. *)
GoodBut(n, s, peer) ==
  /\ s \in ProcessState
  /\ s.timer <=> s.state = "in_progress"
  /\ s.voted # {} => s.timer
  /\ s.voted \subseteq s.view \cup {peer}
  /\ s.state = "won" => s.writer = n

LEMMA RemoveVoterGood ==
  ASSUME NEW n \in Node, NEW peer \in Node, peer # n, NEW s, GoodBut(n, s, peer)
  PROVE  Good(n, RemoveVoter(n, s, peer))
<1>. DEFINE r == ElectionRemove(s, peer)
            q == ElectionClearDampening([r EXCEPT !.writer = None])
<1>1. Good(n, r) /\ r.state = s.state
  BY DEF GoodBut, Good, ElectionRemove, ProcessState
<1>2. CASE s.writer = peer
  <2>1. r.state # "won"
    BY <1>1, <1>2 DEF GoodBut
  <2>2. Good(n, q)
    BY <1>1, <2>1 DEF Good, ElectionClearDampening, ProcessState
  <2>3. RemoveVoter(n, s, peer) = StartElectionIfNeeded(n, q)
    BY <1>2 DEF RemoveVoter
  <2>. HIDE DEF q
  <2>. QED
    BY <2>2, <2>3, StartGood
<1>3. CASE s.writer # peer
  <2>1. RemoveVoter(n, s, peer) = IF s.state = "in_progress" THEN ElectionCheck(n, r) ELSE r
    BY <1>3 DEF RemoveVoter
  <2>. HIDE DEF r
  <2>. QED
    BY <1>1, <2>1, CheckGood
<1>. QED
  BY <1>2, <1>3

LEMMA WriterGood ==
  ASSUME NEW n, NEW s, Good(n, s), NEW w \in Node, s.state = "won" => w = n
  PROVE  Good(n, [s EXCEPT !.writer = w])
BY DEF Good, ProcessState

LEMMA NewWriterGood ==
  ASSUME NEW n \in Node, NEW s, Good(n, s), NEW m, m.from \in Node
  PROVE  Good(n, CheckForNewWriter(n, s, m))
<1>1. CASE ~m.won
  BY <1>1 DEF CheckForNewWriter
<1>2. CASE m.won /\ s.state = "won" /\ m.from # n
  BY <1>2, VoteGood DEF CheckForNewWriter, Good
<1>3. CASE m.won /\ (s.state = "won" => m.from = n)
  <2>1. CheckForNewWriter(n, s, m) = [s EXCEPT !.writer = m.from]
    BY <1>3 DEF CheckForNewWriter
  <2>. QED
    BY <1>3, <2>1, WriterGood
<1>. QED
  BY <1>1, <1>2, <1>3

-----------------------------------------------------------------------------
(* Votes *)

Ballot(m) == m.from \in Node /\ m.owner \in Node /\ m.id \in Nat

LEMMA LoseGood ==
  ASSUME NEW n \in Node, NEW s \in ProcessState, NEW m, Ballot(m)
  PROVE  Good(n, LoseElection(n, s, m)) /\ LoseElection(n, s, m).state = "lost"
<1>. DEFINE a == [ElectionReset(s) EXCEPT !.dampened = TRUE]
            b == Send(a, {m.from}, NoVoteMsg(n, m))
<1>1. a \in ProcessState /\ a.voted = {} /\ a.timer = FALSE
  BY DEF ElectionReset, ProcessState
<1>2. NoVoteMsg(n, m) \in Sent
  BY DEF NoVoteMsg, Ballot, Sent
<1>3. b \in ProcessState /\ Same(a, b)
  BY <1>1, <1>2, SendType
<1>4. LoseElection(n, s, m) = [b EXCEPT !.state = "lost"]
  BY DEF LoseElection
<1>. HIDE DEF a, b
<1>5. b.voted = {} /\ b.timer = FALSE
  BY <1>1, <1>3 DEF Same
<1>. QED
  BY <1>3, <1>4, <1>5 DEF Good, ProcessState, ElectionStates

LEMMA RecordGood ==
  ASSUME NEW n, NEW s, Good(n, s), NEW v \in SUBSET s.view, s.state = "in_progress"
  PROVE  Good(n, [s EXCEPT !.voted = v])
BY DEF Good, ProcessState

(* Counting a vote leaves a good record, unless the node passes the        *)
(* election: then it is about to vote itself.                              *)
LEMMA CountGood ==
  ASSUME NEW n \in Node, NEW s, Good(n, s), NEW m, Ballot(m), NEW canWin \in BOOLEAN
  PROVE  LET c == CountVote(n, s, m, canWin)
         IN  \/ Good(n, c)
             \/ /\ c \in ProcessState /\ c.state = "start" /\ n \in c.view
                /\ ~CountError(n, s, m, canWin)
<1>. DEFINE c == CountVote(n, s, m, canWin)
<1>1. CASE Loses(n, s, m, canWin)
  <2>1. c = LoseElection(n, s, m)
    BY <1>1 DEF CountVote
  <2>. QED
    BY <2>1, LoseGood DEF Good
<1>2. CASE ~Loses(n, s, m, canWin) /\ Passes(n, s, m, canWin)
  <2>1. c = PassElection(s)
    BY <1>2 DEF CountVote
  <2>2. n \in s.view /\ ~CountError(n, s, m, canWin)
    BY <1>2 DEF Passes, Contested, Eligible, CountError
  <2>3. c \in ProcessState /\ c.state = "start" /\ c.view = s.view
    BY <2>1 DEF PassElection, Good, ProcessState, ElectionStates
  <2>. QED
    BY <2>2, <2>3
<1>3. CASE ~Loses(n, s, m, canWin) /\ ~Passes(n, s, m, canWin) /\ Records(n, s, m, canWin)
  <2>1. c = RecordVote(s, m)
    BY <1>3 DEF CountVote
  <2>2. m.from \in s.view /\ s.state = "in_progress"
    BY <1>3 DEF Records, Ignored
  <2>3. c = [s EXCEPT !.voted = s.voted \cup {m.from}]
    BY <2>1 DEF RecordVote
  <2>4. s.voted \cup {m.from} \in SUBSET s.view
    BY <2>2 DEF Good
  <2>. QED
    BY <2>2, <2>3, <2>4, RecordGood
<1>4. CASE ~Loses(n, s, m, canWin) /\ ~Passes(n, s, m, canWin) /\ ~Records(n, s, m, canWin)
  BY <1>4 DEF CountVote
<1>. QED
  BY <1>1, <1>2, <1>3, <1>4

LEMMA ElectionOpGood ==
  ASSUME NEW n \in Node, NEW s, Good(n, s), NEW m, Ballot(m)
  PROVE  Good(n, HandleElectionOp(n, s, m))
<1>. DEFINE c == CountVote(n, s, m, ~s.shutting)
            error == CountError(n, s, m, ~s.shutting)
            h == HandleElectionOp(n, s, m)
<1>0. (~s.shutting) \in BOOLEAN
  OBVIOUS
<1>1. \/ Good(n, c)
      \/ c \in ProcessState /\ c.state = "start" /\ n \in c.view /\ ~error
  BY <1>0, CountGood
<1>2. h = IF error THEN c
          ELSE IF c.state = "start" THEN ElectionVote(n, [c EXCEPT !.writer = None])
          ELSE IF c.state = "in_progress" THEN ElectionCheck(n, c)
          ELSE IF c.state = "lost" /\ (s.writer = None \/ s.state # "lost")
          THEN [c EXCEPT !.writer = m.from] ELSE c
  BY DEF HandleElectionOp
<1>3. SUFFICES Good(n, h)
  OBVIOUS
<1>. HIDE DEF c, error, h
<1>4. CASE error
  BY <1>1, <1>2, <1>4
<1>5. CASE ~error /\ c.state = "start"
  <2>. DEFINE d == [c EXCEPT !.writer = None]
  <2>1. h = ElectionVote(n, d)
    BY <1>2, <1>5
  <2>2. d \in ProcessState /\ (n \in d.view \/ Good(n, d))
    BY <1>1, <1>5 DEF Good, ProcessState
  <2>. HIDE DEF d
  <2>. QED
    BY <2>1, <2>2, VoteGood
<1>6. CASE ~error /\ c.state = "in_progress"
  <2>1. h = ElectionCheck(n, c)
    BY <1>2, <1>6
  <2>. QED
    BY <1>1, <1>6, <2>1, CheckGood
<1>7. CASE ~error /\ c.state \notin {"start", "in_progress"}
  <2>1. h = c \/ (c.state = "lost" /\ h = [c EXCEPT !.writer = m.from])
    BY <1>2, <1>7
  <2>2. Good(n, c)
    BY <1>1, <1>7
  <2>. QED
    BY <2>1, <2>2 DEF Good, Ballot, ProcessState
<1>. QED
  BY <1>4, <1>5, <1>6, <1>7

-----------------------------------------------------------------------------
(* Values *)

LEMMA ProtocolGood ==
  ASSUME NEW n \in Node, NEW s, Good(n, s), NEW m, m.from \in Node
  PROVE  Good(n, HandleProtocol(n, s, m))
<1>. DEFINE p == IF m.set THEN s.proto \cup {m.from} ELSE s.proto \ {m.from}
            d == s.removed \ {m.from}
            r == [s EXCEPT !.removed = d, !.proto = p]
<1>1. p \in SUBSET Node /\ d \in SUBSET Node
  BY DEF Good, ProcessState
<1>2. HandleProtocol(n, s, m) = IF r.proto = s.proto THEN r ELSE Elect(n, r)
  BY DEF HandleProtocol
<1>3. Good(n, r)
  <2>. HIDE DEF p, d
  <2>1. r \in ProcessState /\ Same(s, r)
    BY <1>1 DEF Good, ProcessState, Same
  <2>. QED
    BY <2>1, SameGood
<1>. HIDE DEF r
<1>. QED
  BY <1>2, <1>3, ElectGood

LEMMA UpdateGood ==
  ASSUME NEW n \in Node, NEW s, Good(n, s), NEW m, m.from \in Node, m.value \in Nat
  PROVE  Good(n, HandleUpdate(n, s, m))
<1>. DEFINE v == [s.values EXCEPT ![m.from] = m.value]
            d == s.removed \ {m.from}
            r == [s EXCEPT !.removed = d, !.values = v]
            same == Current(s.values[m.from]) = Current(m.value)
<1>1. v \in [Node -> Nat] /\ d \in SUBSET Node
  BY DEF Good, ProcessState
<1>2. HandleUpdate(n, s, m) = IF same THEN r ELSE WriteOrElect(n, r)
  BY DEF HandleUpdate
<1>3. Good(n, r)
  <2>. HIDE DEF v, d
  <2>1. r \in ProcessState /\ Same(s, r)
    BY <1>1 DEF Good, ProcessState, Same
  <2>. QED
    BY <2>1, SameGood
<1>. HIDE DEF r, same
<1>. QED
  BY <1>2, <1>3, ElectGood

LEMMA ApplySyncGood ==
  ASSUME NEW n \in Node, NEW s, Good(n, s), NEW m,
         m.proto \in SUBSET Node, m.values \in [Node -> Nat]
  PROVE  Good(n, ApplySync(n, s, m))
<1>. DEFINE listed == {h \in Node : m.values[h] # NoEntry}
            merged == [h \in Node |->
                        IF h \notin listed THEN s.values[h]
                        ELSE IF h # n THEN m.values[h]
                        ELSE IF s.values[n] = NoEntry THEN Unset ELSE s.values[n]]
            differ == {h \in listed : Current(m.values[h]) # Current(s.values[h])}
            learned == m.proto \ s.proto
            gone == s.removed \ (m.proto \cup listed)
            known == s.proto \cup (m.proto \ {n})
            r == [s EXCEPT !.removed = gone, !.proto = known, !.values = merged]
            p == IF n \in learned THEN Send(r, Node, ProtocolMsg(n, FALSE)) ELSE r
            q == IF n \in differ THEN Send(p, Node, UpdateMsg(n, merged[n])) ELSE p
            w == IF differ \subseteq {n} THEN q ELSE WriteOrElect(n, q)
<1>1. ApplySync(n, s, m) = IF learned \subseteq {n} THEN w ELSE Elect(n, w)
  BY DEF ApplySync
<1>2. /\ merged \in [Node -> Nat]
      /\ gone \in SUBSET Node /\ known \in SUBSET Node
  BY DEF Good, ProcessState, Unset
<1>3. /\ ProtocolMsg(n, FALSE) \in Sent
      /\ UpdateMsg(n, merged[n]) \in Sent
  BY <1>2, MessageTypes DEF Good
<1>. HIDE DEF listed, merged, differ, learned, gone, known
<1>4. Good(n, r)
  <2>1. r \in ProcessState /\ Same(s, r)
    BY <1>2 DEF Good, ProcessState, Same
  <2>. QED
    BY <2>1, SameGood
<1>. HIDE DEF r
<1>5. Good(n, p)
  BY <1>3, <1>4, SendGood
<1>. HIDE DEF p
<1>6. Good(n, q)
  BY <1>3, <1>5, SendGood
<1>. HIDE DEF q
<1>7. Good(n, w)
  BY <1>6, ElectGood
<1>. HIDE DEF w
<1>. QED
  BY <1>1, <1>7, ElectGood

LEMMA BroadcastGood ==
  ASSUME NEW n \in Node, NEW s, Good(n, s), NEW m, m.values \in [Node -> Nat]
  PROVE  Good(n, BroadcastUnseen(n, s, m))
<1>. DEFINE proto == {n} \cap (s.proto \ m.proto)
            value == IF m.values[n] = NoEntry THEN s.values[n] ELSE NoEntry
            values == [NoValues EXCEPT ![n] = value]
            b == BroadcastUnseen(n, s, m)
<1>1. b = s \/ b = Send(s, Node, SyncMsg(n, s, proto, values))
  BY DEF BroadcastUnseen
<1>2. proto \in SUBSET Node
  OBVIOUS
<1>3. value \in Nat
  BY DEF Good, ProcessState, NoEntry
<1>4. values \in [Node -> Nat]
  BY <1>3 DEF NoValues, NoEntry
<1>. HIDE DEF proto, value, values, b
<1>5. SyncMsg(n, s, proto, values) \in Sent
  BY <1>2, <1>4, MessageTypes DEF Good
<1>6. Good(n, b)
  BY <1>1, <1>5, SendGood
<1>. QED
  BY <1>6 DEF b

LEMMA SyncGood ==
  ASSUME NEW n \in Node, NEW s, Good(n, s), NEW m, m.from \in Node,
         m.proto \in SUBSET Node, m.values \in [Node -> Nat]
  PROVE  Good(n, HandleSync(n, s, m))
<1>. DEFINE w == CheckForNewWriter(n, s, m)
            a == ApplySync(n, w, m)
<1>1. Good(n, w)
  BY NewWriterGood
<1>2. HandleSync(n, s, m) = IF m.from = n THEN w ELSE BroadcastUnseen(n, a, m)
  BY DEF HandleSync
<1>. HIDE DEF w
<1>3. Good(n, a)
  BY <1>1, ApplySyncGood
<1>. HIDE DEF a
<1>. QED
  BY <1>1, <1>2, <1>3, BroadcastGood

-----------------------------------------------------------------------------
(* Membership *)

LEMMA PeerRemoveGood ==
  ASSUME NEW n \in Node, NEW s, Good(n, s), NEW host \in Node
  PROVE  Good(n, PeerRemove(n, s, host))
<1>. DEFINE v == [s.values EXCEPT ![host] = NoEntry]
            d == s.proto \ {host}
            r == [s EXCEPT !.proto = d, !.values = v]
            q == [r EXCEPT !.removed = @ \cup {host}]
<1>1. v \in [Node -> Nat] /\ d \in SUBSET Node
  BY DEF Good, ProcessState, NoEntry
<1>2. PeerRemove(n, s, host) = IF s.state = "won" THEN EraseTransientAttrs(r, {host})
                               ELSE StartElectionIfNeeded(n, q)
  BY DEF PeerRemove
<1>. HIDE DEF v, d
<1>3. r \in ProcessState /\ Same(s, r)
  BY <1>1 DEF Good, ProcessState, Same
<1>4. Good(n, r)
  BY <1>3, SameGood
<1>. HIDE DEF r
<1>5. q \in ProcessState /\ Same(r, q)
  BY <1>3 DEF ProcessState, Same
<1>6. Good(n, q)
  BY <1>4, <1>5, SameGood
<1>7. Good(n, EraseTransientAttrs(r, {host}))
  BY <1>3, <1>4, EraseType, SameGood
<1>. HIDE DEF q
<1>. QED
  BY <1>2, <1>6, <1>7, StartGood

LEMMA PeerLeftGood ==
  ASSUME NEW n \in Node, NEW s, Good(n, s), NEW peer \in Node, peer # n
  PROVE  Good(n, PeerLeft(n, s, peer))
<1>. DEFINE a == [s EXCEPT !.view = @ \ {peer}]
            b == RemoveVoter(n, a, peer)
            c == PeerRemove(n, b, peer)
<1>1. GoodBut(n, a, peer)
  BY DEF Good, GoodBut, ProcessState
<1>2. PeerLeft(n, s, peer) = RemoveVoter(n, c, peer)
  BY DEF PeerLeft
<1>. HIDE DEF a
<1>3. Good(n, b)
  BY <1>1, RemoveVoterGood
<1>. HIDE DEF b
<1>4. Good(n, c)
  BY <1>3, PeerRemoveGood
<1>. HIDE DEF c
<1>5. GoodBut(n, c, peer)
  BY <1>4 DEF Good, GoodBut
<1>. QED
  BY <1>2, <1>5, RemoveVoterGood

LEMMA PeersJoinedGood ==
  ASSUME NEW n \in Node, NEW s, Good(n, s), NEW members \in SUBSET Node
  PROVE  Good(n, PeersJoined(n, s, members))
<1>. DEFINE new == members \ s.view
            r == [s EXCEPT !.view = @ \cup new]
<1>1. PeersJoined(n, s, members) =
        IF new = {} THEN r
        ELSE IF s.state = "won" THEN PeerSync(n, r, new)
        ELSE Send(r, new, ProtocolMsg(n, TRUE))
  BY DEF PeersJoined
<1>2. Good(n, r)
  BY DEF Good, ProcessState
<1>. HIDE DEF r, new
<1>3. r \in ProcessState
  BY <1>2 DEF Good
<1>4. Good(n, PeerSync(n, r, new))
  BY <1>2, <1>3, PeerSyncType, SameGood
<1>5. ProtocolMsg(n, TRUE) \in Sent
  BY <1>3, MessageTypes
<1>6. Good(n, Send(r, new, ProtocolMsg(n, TRUE)))
  BY <1>2, <1>5, SendGood
<1>. QED
  BY <1>1, <1>2, <1>4, <1>6

LEMMA HandleGood ==
  ASSUME NEW n \in Node, NEW s, Good(n, s), NEW m \in Deliverable(n), m.type # "left"
  PROVE  Good(n, Handle(n, s, m))
<1>1. CASE m.type = "joined"
  <2>1. m.members \in SUBSET Node
    BY <1>1 DEF Deliverable, Sent
  <2>. QED
    BY <1>1, <2>1, PeersJoinedGood DEF Handle
<1>2. CASE m.type \in {"vote", "no-vote"}
  <2>1. Ballot(m)
    BY <1>2 DEF Deliverable, Sent, Ballot
  <2>2. Handle(n, s, m) = HandleElectionOp(n, s, m)
    BY <1>2 DEF Handle
  <2>. QED
    BY <2>1, <2>2, ElectionOpGood
<1>3. CASE m.type = "protocol"
  <2>1. m.from \in Node
    BY <1>3 DEF Deliverable, Sent
  <2>2. Handle(n, s, m) = s \/ Handle(n, s, m) = HandleProtocol(n, s, m)
    BY <1>3 DEF Handle
  <2>. QED
    BY <2>1, <2>2, ProtocolGood
<1>4. CASE m.type = "update"
  <2>1. m.from \in Node /\ m.value \in Nat
    BY <1>4 DEF Deliverable, Sent
  <2>2. Handle(n, s, m) = s \/ Handle(n, s, m) = HandleUpdate(n, s, m)
    BY <1>4 DEF Handle
  <2>. QED
    BY <2>1, <2>2, UpdateGood
<1>5. CASE m.type = "sync"
  <2>1. m.from \in Node /\ m.proto \in SUBSET Node /\ m.values \in [Node -> Nat]
    BY <1>5 DEF Deliverable, Sent
  <2>2. Handle(n, s, m) = s \/ Handle(n, s, m) = HandleSync(n, s, m)
    BY <1>5 DEF Handle
  <2>. QED
    BY <2>1, <2>2, SyncGood
<1>. QED
  BY <1>1, <1>2, <1>3, <1>4, <1>5 DEF Deliverable, Sent

-----------------------------------------------------------------------------
(* Steps *)

Procs(f) ==
  /\ f \in [Node -> ProcessState]
  /\ \A n \in Node : Good(n, f[n]) /\ f[n].out = NoMail

Boxes(b) ==
  /\ b = [n \in Node |-> b[n]]
  /\ \A n \in Node : b[n] \in Seq(Deliverable(n))

(* The inductive invariant: TypeOK and ElectionConsistent together. *)
Inv == Procs(node) /\ ring \in [Node -> SUBSET Node] /\ Boxes(inbox) /\ budget \in Bounds

LEMMA InvImplies == Inv => TypeOK /\ ElectionConsistent
BY DEF Inv, Procs, Boxes, Good, TypeOK, ElectionConsistent

LEMMA NoMailType == NoMail \in [Node -> Seq(Sent)]
BY DEF NoMail

LEMMA ProcessGood ==
  ASSUME NEW n, NEW view \in SUBSET Node, NEW age \in Nat, NEW cib \in [Node -> Nat]
  PROVE  /\ Good(n, Process(view, age, cib))
         /\ Process(view, age, cib).out = NoMail
<1>1. NoValues \in [Node -> Nat]
  BY DEF NoValues, NoEntry
<1>. QED
  BY <1>1, NoMailType DEF Process, Good, ProcessState, ElectionStates

LEMMA DownGood ==
  ASSUME NEW n
  PROVE  Good(n, Down) /\ Down.out = NoMail
<1>1. EmptyCib \in [Node -> Nat]
  BY DEF EmptyCib, Unset
<1>. QED
  BY <1>1, ProcessGood DEF Down

LEMMA SettledGood ==
  ASSUME NEW n, NEW w \in Node, NEW age \in Nat, NEW group \in SUBSET Node
  PROVE  Good(n, Settled(n, w, age, group)) /\ Settled(n, w, age, group).out = NoMail
<1>. DEFINE p == Process(group, age, EmptyCib)
            st == IF n = w THEN "won" ELSE "lost"
<1>1. EmptyCib \in [Node -> Nat]
  BY DEF EmptyCib, Unset
<1>2. Good(n, p) /\ p.out = NoMail /\ p.voted = {} /\ p.timer = FALSE
  BY <1>1, ProcessGood DEF Process
<1>3. st \in ElectionStates /\ st # "in_progress" /\ (st = "won" => w = n)
  BY DEF ElectionStates
<1>4. Settled(n, w, age, group) =
        [p EXCEPT !.state = st, !.writer = w, !.proto = group, !.ready = TRUE]
  BY DEF Settled
<1>. HIDE DEF p, st
<1>. QED
  BY <1>2, <1>3, <1>4 DEF Good, ProcessState

LEMMA CibGood ==
  ASSUME NEW n, NEW s, Good(n, s), NEW cib \in [Node -> Nat]
  PROVE  Good(n, [s EXCEPT !.cib = cib]) /\ [s EXCEPT !.cib = cib].out = s.out
<1>1. [s EXCEPT !.cib = cib] \in ProcessState /\ Same(s, [s EXCEPT !.cib = cib])
  BY DEF Good, ProcessState, Same
<1>. QED
  BY <1>1, SameGood DEF Good, ProcessState

LEMMA MailedGood ==
  ASSUME NEW n, NEW s, Good(n, s)
  PROVE  Good(n, [s EXCEPT !.out = NoMail]) /\ [s EXCEPT !.out = NoMail].out = NoMail
<1>1. /\ [s EXCEPT !.out = NoMail] \in ProcessState
      /\ Same(s, [s EXCEPT !.out = NoMail])
  BY NoMailType DEF Good, ProcessState, Same
<1>. QED
  BY <1>1, SameGood DEF Good, ProcessState

LEMMA ProcsFrom ==
  ASSUME NEW f, f = [n \in Node |-> f[n]],
         \A n \in Node : Good(n, f[n]) /\ f[n].out = NoMail
  PROVE  Procs(f)
BY DEF Procs, Good

LEMMA MailDelivered ==
  ASSUME NEW n, NEW m \in Node, NEW box \in Seq(Deliverable(m)), NEW s, Good(n, s)
  PROVE  box \o s.out[m] \in Seq(Deliverable(m))
<1>1. s.out[m] \in Seq(Sent)
  BY DEF Good, ProcessState
<1>2. Sent \subseteq Deliverable(m)
  BY DEF Deliverable
<1>3. s.out[m] \in Seq(Deliverable(m))
  BY <1>1, <1>2
<1>. QED
  BY <1>3

LEMMA CommitInv ==
  ASSUME NEW n \in Node, Procs(node), NEW s, Good(n, s), NEW boxes, Boxes(boxes),
         Commit(n, s, boxes)
  PROVE  Procs(node') /\ Boxes(inbox')
<1>1. Boxes(inbox')
  <2>1. inbox' = [m \in Node |-> IF m \in ring[n] THEN boxes[m] \o s.out[m] ELSE boxes[m]]
    BY DEF Commit
  <2>2. \A m \in Node : inbox'[m] \in Seq(Deliverable(m))
    BY <2>1, MailDelivered DEF Boxes
  <2>. QED
    BY <2>1, <2>2 DEF Boxes
<1>2. Procs(node')
  <2>1. s.cib \in [Node -> Nat]
    BY DEF Good, ProcessState
  <2>2. node' = [m \in Node |-> IF m = n THEN [s EXCEPT !.out = NoMail]
                                ELSE IF m \in ring[n] THEN [node[m] EXCEPT !.cib = s.cib]
                                ELSE node[m]]
    BY DEF Commit
  <2>3. ASSUME NEW m \in Node
        PROVE  Good(m, node'[m]) /\ node'[m].out = NoMail
    <3>1. Good(m, node[m]) /\ node[m].out = NoMail
      BY DEF Procs
    <3>2. CASE m = n
      BY <2>2, <3>2, MailedGood
    <3>3. CASE m # n /\ m \in ring[n]
      BY <2>1, <2>2, <3>1, <3>3, CibGood
    <3>4. CASE m # n /\ m \notin ring[n]
      BY <2>2, <3>1, <3>4
    <3>. QED
      BY <3>2, <3>3, <3>4
  <2>. QED
    BY <2>2, <2>3, ProcsFrom
<1>. QED
  BY <1>1, <1>2

LEMMA InitInv == Init => Inv
<1>. SUFFICES ASSUME Init PROVE Inv
  OBVIOUS
<1>1. budget \in Bounds
  BY AttrdAssumption DEF Init
<1>2. budget.booted \in SUBSET Node
  BY <1>1 DEF Bounds
<1>3. ring \in [Node -> SUBSET Node]
  BY <1>2 DEF Init
<1>4. Boxes(inbox)
  BY DEF Init, Boxes
<1>5. PICK ages \in [budget.booted -> Ages],
           w \in IF budget.booted = {} THEN {None} ELSE budget.booted :
        node = [n \in Node |-> IF n \in budget.booted
                               THEN Settled(n, w, ages[n], budget.booted) ELSE Down]
  BY DEF Init
<1>6. ASSUME NEW n \in Node
      PROVE  Good(n, node[n]) /\ node[n].out = NoMail
  <2>1. CASE n \in budget.booted
    <3>1. ages[n] \in Nat
      BY <2>1, ElectionAssumption
    <3>2. w \in Node
      BY <1>2, <1>5, <2>1
    <3>3. node[n] = Settled(n, w, ages[n], budget.booted)
      BY <1>5, <2>1
    <3>. QED
      BY <1>2, <3>1, <3>2, <3>3, SettledGood
  <2>2. CASE n \notin budget.booted
    BY <1>5, <2>2, DownGood
  <2>. QED
    BY <2>1, <2>2
<1>7. Procs(node)
  BY <1>5, <1>6, ProcsFrom
<1>. QED
  BY <1>1, <1>3, <1>4, <1>7 DEF Inv

LEMMA DeliverInv ==
  ASSUME Inv, NEW n \in Node, Deliver(n)
  PROVE  Inv'
<1>. DEFINE m == Head(inbox[n])
            boxes == [inbox EXCEPT ![n] = Tail(@)]
            s == Handle(n, node[n], m)
<1>1. inbox[n] \in Seq(Deliverable(n)) /\ inbox[n] # <<>>
  BY DEF Inv, Boxes, Deliver
<1>2. m \in Deliverable(n) /\ m.type # "left" /\ Tail(inbox[n]) \in Seq(Deliverable(n))
  BY <1>1 DEF Deliver
<1>3. Boxes(boxes)
  BY <1>2 DEF Inv, Boxes
<1>4. Good(n, node[n])
  BY DEF Inv, Procs
<1>5. Commit(n, s, boxes)
  BY DEF Deliver
<1>. HIDE DEF m, boxes
<1>6. Good(n, s)
  BY <1>2, <1>4, HandleGood
<1>. HIDE DEF s
<1>7. Procs(node') /\ Boxes(inbox')
  BY <1>3, <1>5, <1>6, CommitInv DEF Inv
<1>. QED
  BY <1>7 DEF Inv, Deliver

LEMMA LeftType ==
  ASSUME NEW n, NEW members \in SUBSET (Node \ {n}), NEW begun \in BOOLEAN
  PROVE  LeftMsg(members, begun) \in Deliverable(n)
BY DEF LeftMsg, Deliverable

LEMMA LeavesInv ==
  ASSUME Inv, NEW n \in Node, NEW peer \in Node, DeliverLeft(n, peer)
  PROVE  Inv'
<1>. DEFINE gone == Head(inbox[n]).members
            rest == IF gone = {peer} THEN <<>> ELSE <<LeftMsg(gone \ {peer}, TRUE)>>
            box == rest \o Tail(inbox[n])
            boxes == [inbox EXCEPT ![n] = rest \o Tail(@)]
            s == PeerLeft(n, node[n], peer)
<1>1. inbox[n] \in Seq(Deliverable(n)) /\ inbox[n] # <<>>
  BY DEF Inv, Boxes, DeliverLeft
<1>2. Head(inbox[n]) \in Deliverable(n) /\ Tail(inbox[n]) \in Seq(Deliverable(n))
  BY <1>1
<1>3. gone \in SUBSET (Node \ {n}) /\ peer \in gone
  BY <1>2 DEF DeliverLeft, Deliverable, Sent
<1>4. LeftMsg(gone \ {peer}, TRUE) \in Deliverable(n)
  <2>. DEFINE left == gone \ {peer}
  <2>1. left \in SUBSET (Node \ {n})
    BY <1>3
  <2>. HIDE DEF left
  <2>2. LeftMsg(left, TRUE) \in Deliverable(n)
    BY <2>1, LeftType
  <2>. QED
    BY <2>2 DEF left
<1>5. rest \in Seq(Deliverable(n))
  <2>. DEFINE msg == LeftMsg(gone \ {peer}, TRUE)
  <2>1. msg \in Deliverable(n)
    BY <1>4
  <2>2. rest = <<>> \/ rest = <<msg>>
    OBVIOUS
  <2>. HIDE DEF msg, rest
  <2>3. <<>> \in Seq(Deliverable(n)) /\ <<msg>> \in Seq(Deliverable(n))
    BY <2>1
  <2>. QED
    BY <2>2, <2>3
<1>6. boxes = [inbox EXCEPT ![n] = box]
  BY DEF Inv, Boxes
<1>7. Commit(n, s, boxes)
  BY DEF DeliverLeft
<1>. HIDE DEF boxes, rest
<1>8. Boxes(boxes)
  <2>1. box \in Seq(Deliverable(n))
    BY <1>2, <1>5
  <2>. HIDE DEF box
  <2>. QED
    BY <1>6, <2>1 DEF Inv, Boxes
<1>9. Good(n, node[n])
  BY DEF Inv, Procs
<1>10. Good(n, s)
  BY <1>3, <1>9, PeerLeftGood
<1>. HIDE DEF s
<1>11. Procs(node') /\ Boxes(inbox')
  BY <1>7, <1>8, <1>10, CommitInv DEF Inv
<1>. QED
  BY <1>11 DEF Inv, DeliverLeft

LEMMA EventsInv ==
  ASSUME Inv, NEW n \in Node,
         ElectionTimeout(n) \/ ClientUpdate(n) \/ Announce(n)
  PROVE  Inv'
<1>1. Good(n, node[n]) /\ node[n] \in ProcessState
  BY DEF Inv, Procs
<1>2. CASE ElectionTimeout(n)
  <2>1. Good(n, ElectionComplete(n, node[n]))
    BY <1>1, CompleteGood
  <2>2. Procs(node') /\ Boxes(inbox')
    BY <1>2, <2>1, CommitInv DEF Inv, ElectionTimeout
  <2>3. budget' \in Bounds
    BY <1>2 DEF Inv, ElectionTimeout, Bounds
  <2>. QED
    BY <1>2, <2>2, <2>3 DEF Inv, ElectionTimeout
<1>3. CASE ClientUpdate(n)
  <2>. DEFINE v == Unset + budget.updates
              s == Send(node[n], Node, UpdateMsg(n, v))
  <2>1. v \in Nat
    BY DEF Inv, Bounds, Unset
  <2>2. Commit(n, s, inbox)
    BY <1>3 DEF ClientUpdate
  <2>. HIDE DEF v
  <2>3. UpdateMsg(n, v) \in Sent
    BY <1>1, <2>1, MessageTypes
  <2>4. Good(n, s)
    BY <1>1, <2>3, SendGood
  <2>. HIDE DEF s
  <2>5. Procs(node') /\ Boxes(inbox')
    BY <2>2, <2>4, CommitInv DEF Inv
  <2>6. budget' \in Bounds
    BY <1>3 DEF Inv, ClientUpdate, Bounds
  <2>. QED
    BY <1>3, <2>5, <2>6 DEF Inv, ClientUpdate
<1>4. CASE Announce(n)
  <2>. DEFINE a == [node[n] EXCEPT !.ready = TRUE]
              b == Send(a, {n}, ProtocolMsg(n, TRUE))
              c == Send(b, Node, ProtocolMsg(n, TRUE))
  <2>1. Commit(n, c, inbox)
    BY <1>4 DEF Announce
  <2>2. ProtocolMsg(n, TRUE) \in Sent
    BY <1>1, MessageTypes
  <2>3. Good(n, a)
    BY <1>1 DEF Good, ProcessState
  <2>. HIDE DEF a
  <2>4. Good(n, b)
    BY <2>2, <2>3, SendGood
  <2>. HIDE DEF b
  <2>5. Good(n, c)
    BY <2>2, <2>4, SendGood
  <2>. HIDE DEF c
  <2>6. Procs(node') /\ Boxes(inbox')
    BY <2>1, <2>5, CommitInv DEF Inv
  <2>. QED
    BY <1>4, <2>6 DEF Inv, Announce
<1>. QED
  BY <1>2, <1>3, <1>4

(* Steps that change one process without a message *)
LEMMA FlagsInv ==
  ASSUME Inv, NEW n \in Node, DampeningEnds(n) \/ Shutdown(n)
  PROVE  Inv'
<1>. DEFINE d == [node[n] EXCEPT !.dampened = FALSE]
            t == [node[n] EXCEPT !.shutting = TRUE]
<1>1. Good(n, node[n]) /\ node[n].out = NoMail
  BY DEF Inv, Procs
<1>2. Good(n, d) /\ d.out = NoMail /\ Good(n, t) /\ t.out = NoMail
  BY <1>1 DEF Good, ProcessState
<1>3. node' = [node EXCEPT ![n] = d] \/ node' = [node EXCEPT ![n] = t]
  BY DEF DampeningEnds, Shutdown
<1>. HIDE DEF d, t
<1>4. \A m \in Node : Good(m, node'[m]) /\ node'[m].out = NoMail
  BY <1>2, <1>3 DEF Inv, Procs
<1>5. node' = [m \in Node |-> node'[m]]
  BY <1>3 DEF Inv, Procs
<1>6. Procs(node')
  BY <1>4, <1>5, ProcsFrom
<1>7. budget' \in Bounds
  BY DEF Inv, DampeningEnds, Shutdown, Bounds
<1>. QED
  BY <1>6, <1>7 DEF Inv, DampeningEnds, Shutdown

LEMMA ProcReplaced ==
  ASSUME Procs(node), NEW n \in Node, NEW s, Good(n, s), s.out = NoMail,
         node' = [node EXCEPT ![n] = s]
  PROVE  Procs(node')
<1>1. \A m \in Node : Good(m, node'[m]) /\ node'[m].out = NoMail
  BY DEF Procs
<1>2. node' = [m \in Node |-> node'[m]]
  BY DEF Procs
<1>. QED
  BY <1>1, <1>2, ProcsFrom

LEMMA JoinedType ==
  ASSUME NEW n, NEW members \in SUBSET Node
  PROVE  JoinedMsg(members) \in Deliverable(n)
BY DEF JoinedMsg, Deliverable

LEMMA JoinInv ==
  ASSUME Inv, NEW n \in Node, NEW group \in SUBSET Node, NEW age \in Nat,
         NEW cib \in [Node -> Nat], Join(n, group, age, cib)
  PROVE  Inv'
<1>. DEFINE members == group \cup {n}
            msg == JoinedMsg(members)
<1>1. members \in SUBSET Node
  OBVIOUS
<1>2. Procs(node')
  <2>1. Good(n, Process({n}, age, cib)) /\ Process({n}, age, cib).out = NoMail
    BY ProcessGood
  <2>. QED
    BY <2>1, ProcReplaced DEF Inv, Join
<1>3. \A m \in Node : msg \in Deliverable(m)
  BY <1>1, JoinedType
<1>4. inbox' = [m \in Node |-> IF m \in group THEN Append(inbox[m], msg)
                               ELSE IF m = n THEN <<msg>> ELSE inbox[m]]
  BY DEF Join
<1>5. ring' = [m \in Node |-> IF m \in members THEN members ELSE ring[m]]
  BY DEF Join
<1>. HIDE DEF msg, members
<1>6. Boxes(inbox')
  BY <1>3, <1>4 DEF Inv, Boxes
<1>7. ring' \in [Node -> SUBSET Node]
  BY <1>1, <1>5 DEF Inv
<1>8. budget' \in Bounds
  <2>1. budget.starts > 0 /\ budget' = [budget EXCEPT !.starts = @ - 1]
    BY DEF Join
  <2>. QED
    BY <2>1 DEF Inv, Bounds
<1>. QED
  BY <1>2, <1>6, <1>7, <1>8 DEF Inv

LEMMA StartsInv ==
  ASSUME Inv, NEW n \in Node, Starts(n)
  PROVE  Inv'
<1>1. PICK age \in Ages : \/ StartFirst(n, age)
                          \/ \E peer \in Node : StartWith(n, peer, age)
  BY DEF Starts
<1>2. age \in Nat
  BY ElectionAssumption
<1>3. CASE StartFirst(n, age)
  <2>1. EmptyCib \in [Node -> Nat] /\ {} \in SUBSET Node
    BY DEF EmptyCib, Unset
  <2>. QED
    BY <1>2, <1>3, <2>1, JoinInv DEF StartFirst
<1>4. ASSUME NEW peer \in Node, StartWith(n, peer, age)
      PROVE  Inv'
  <2>1. node[peer].cib \in [Node -> Nat] /\ ring[peer] \in SUBSET Node
    BY DEF Inv, Procs, ProcessState
  <2>. QED
    BY <1>2, <1>4, <2>1, JoinInv DEF StartWith
<1>. QED
  BY <1>1, <1>3, <1>4

LEMMA GoneInv ==
  ASSUME Inv, NEW n \in Node, Gone(n), budget' \in Bounds
  PROVE  Inv'
<1>1. Procs(node')
  BY DownGood, ProcReplaced DEF Inv, Gone
<1>2. ring' \in [Node -> SUBSET Node]
  BY DEF Inv, Gone
<1>3. ASSUME NEW m \in Node, m # n
      PROVE  LeftMsg({n}, FALSE) \in Deliverable(m)
  BY <1>3, LeftType
<1>. DEFINE msg == LeftMsg({n}, FALSE)
<1>4. inbox' = [m \in Node |-> IF m = n THEN <<>>
                               ELSE IF m \in ring[n] THEN Append(inbox[m], msg)
                               ELSE inbox[m]]
  BY DEF Gone
<1>5. \A m \in Node : m # n => msg \in Deliverable(m)
  BY <1>3
<1>. HIDE DEF msg
<1>6. Boxes(inbox')
  BY <1>4, <1>5 DEF Inv, Boxes
<1>. QED
  BY <1>1, <1>2, <1>6 DEF Inv

LEMMA LeaveInv ==
  ASSUME Inv, NEW n \in Node, Exit(n) \/ Crash(n)
  PROVE  Inv'
<1>1. Gone(n)
  BY DEF Exit, Crash
<1>2. budget' \in Bounds
  BY DEF Inv, Exit, Crash, Bounds
<1>. QED
  BY <1>1, <1>2, GoneInv

LEMMA SplitInv ==
  ASSUME Inv, NEW n \in Node, NEW part \in SUBSET Node, Split(n, part)
  PROVE  Inv'
<1>. DEFINE rest == ring[n] \ part
            Lost(m) == IF m \in part THEN rest ELSE part
<1>1. Procs(node')
  BY DEF Inv, Split
<1>2. budget' \in Bounds
  <2>1. budget.splits > 0 /\ budget' = [budget EXCEPT !.splits = @ - 1]
    BY DEF Split
  <2>. QED
    BY <2>1 DEF Inv, Bounds
<1>3. ring[n] \in SUBSET Node
  BY DEF Inv
<1>4. ring' = [m \in Node |-> IF m \in ring[n] THEN ring[n] \ Lost(m) ELSE ring[m]]
  BY DEF Split
<1>5. inbox' = [m \in Node |-> IF m \in ring[n] THEN Append(inbox[m], LeftMsg(Lost(m), FALSE))
                               ELSE inbox[m]]
  BY DEF Split
<1>6. ring' \in [Node -> SUBSET Node]
  BY <1>3, <1>4 DEF Inv
<1>7. ASSUME NEW m \in ring[n]
      PROVE  LeftMsg(Lost(m), FALSE) \in Deliverable(m)
  <2>1. Lost(m) \in SUBSET (Node \ {m})
    BY <1>3
  <2>. HIDE DEF Lost
  <2>. QED
    BY <2>1, LeftType
<1>. HIDE DEF Lost
<1>8. ASSUME NEW m \in Node
      PROVE  inbox'[m] \in Seq(Deliverable(m))
  <2>1. inbox[m] \in Seq(Deliverable(m))
    BY DEF Inv, Boxes
  <2>2. CASE m \in ring[n]
    <3>. DEFINE msg == LeftMsg(Lost(m), FALSE)
    <3>1. msg \in Deliverable(m)
      BY <1>7, <2>2
    <3>2. inbox'[m] = Append(inbox[m], msg)
      BY <1>5, <2>2
    <3>. HIDE DEF msg
    <3>. QED
      BY <2>1, <3>1, <3>2
  <2>3. CASE m \notin ring[n]
    BY <1>5, <2>1, <2>3
  <2>. QED
    BY <2>2, <2>3
<1>9. Boxes(inbox')
  BY <1>5, <1>8 DEF Boxes
<1>. QED
  BY <1>1, <1>2, <1>6, <1>9 DEF Inv

LEMMA MergeInv ==
  ASSUME Inv, NEW n \in Node, NEW peer \in Node, Merge(n, peer)
  PROVE  Inv'
<1>. DEFINE members == ring[n] \cup ring[peer]
            msg == JoinedMsg(members)
            cib == node[n].cib
<1>1. members \in SUBSET Node
  BY DEF Inv
<1>2. cib \in [Node -> Nat]
  BY DEF Inv, Procs, ProcessState
<1>3. \A m \in Node : msg \in Deliverable(m)
  BY <1>1, JoinedType
<1>4. ring' = [m \in Node |-> IF m \in members THEN members ELSE ring[m]]
  BY DEF Merge
<1>5. inbox' = [m \in Node |-> IF m \in members THEN Append(inbox[m], msg) ELSE inbox[m]]
  BY DEF Merge
<1>6. node' = [m \in Node |-> IF m \in members THEN [node[m] EXCEPT !.cib = cib]
                              ELSE node[m]]
  BY DEF Merge
<1>. HIDE DEF members, msg, cib
<1>7. ring' \in [Node -> SUBSET Node]
  BY <1>1, <1>4 DEF Inv
<1>8. Boxes(inbox')
  BY <1>3, <1>5 DEF Inv, Boxes
<1>9. \A m \in Node : Good(m, node'[m]) /\ node'[m].out = NoMail
  BY <1>2, <1>6, CibGood DEF Inv, Procs
<1>10. Procs(node')
  BY <1>6, <1>9, ProcsFrom
<1>11. budget' \in Bounds
  <2>1. budget.merges > 0 /\ budget' = [budget EXCEPT !.merges = @ - 1]
    BY DEF Merge
  <2>. QED
    BY <2>1 DEF Inv, Bounds
<1>. QED
  BY <1>7, <1>8, <1>10, <1>11 DEF Inv

LEMMA NextInv == Inv /\ [Next]_vars => Inv'
<1>. SUFFICES ASSUME Inv, [Next]_vars PROVE Inv'
  OBVIOUS
<1>1. CASE UNCHANGED vars
  BY <1>1 DEF vars, Inv
<1>2. ASSUME NEW n \in Node,
             \/ Deliver(n) \/ Leaves(n) \/ ElectionTimeout(n) \/ DampeningEnds(n)
             \/ ClientUpdate(n) \/ Starts(n) \/ Announce(n) \/ Shutdown(n) \/ Exit(n)
             \/ Crash(n) \/ Splits(n)
      PROVE  Inv'
  <2>1. CASE Deliver(n)
    BY <2>1, DeliverInv
  <2>2. CASE Leaves(n)
    BY <2>2, LeavesInv DEF Leaves
  <2>3. CASE ElectionTimeout(n) \/ ClientUpdate(n) \/ Announce(n)
    BY <2>3, EventsInv
  <2>4. CASE DampeningEnds(n) \/ Shutdown(n)
    BY <2>4, FlagsInv
  <2>5. CASE Starts(n)
    BY <2>5, StartsInv
  <2>6. CASE Exit(n) \/ Crash(n)
    BY <2>6, LeaveInv
  <2>7. CASE Splits(n)
    BY <2>7, SplitInv, MergeInv DEF Splits
  <2>. QED
    BY <1>2, <2>1, <2>2, <2>3, <2>4, <2>5, <2>6, <2>7
<1>. QED
  BY <1>1, <1>2 DEF Next

(* The state and all messages have their types, and no daemon keeps a      *)
(* message back, in every cluster and for everything its nodes do.         *)
THEOREM AttrdTypeCorrect == Spec => []TypeOK
BY InitInv, NextInv, InvImplies, PTL DEF Spec

(* An election is never in a state from which it cannot go on: in progress *)
(* without a timer, with votes of nodes that are gone or of an election    *)
(* that is over, or won by a node that takes another one for the writer.   *)
THEOREM ElectionsConsistent == Spec => []ElectionConsistent
BY InitInv, NextInv, InvImplies, PTL DEF Spec
=============================================================================
