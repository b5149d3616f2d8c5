----------------------------- MODULE FencerProofs -----------------------------
(***************************************************************************)
(* Proofs about Fencer for any number of nodes, operations and devices and *)
(* every configuration.                                                    *)
(***************************************************************************)
EXTENDS Fencer, TLAPS

-----------------------------------------------------------------------------
(* The inductive invariant *)

(* No level has two devices, so that no reboot is remapped to off and on. *)
SingleDevices == \A l \in 1..Levels : Len(conf.levels[l]) <= 1

(* A reboot is remapped only at a level, and only if that has two devices; *)
(* nobody was told of an operation that is not in the table.               *)
Regular(r) ==
  /\ SingleDevices => r.phase = "requested"
  /\ r.phase # "requested" => r.level \in 1..Levels
  /\ r.state = "none" => r.told = "nothing"

(* The invariant is stated for the daemons f, what CPG will deliver to     *)
(* them b, the nodes L whose daemon runs and the operations F after whose  *)
(* request the target was without power, so that a step of the system can  *)
(* be taken apart.                                                         *)

TypeOf(f, b, L, F) ==
  /\ f \in [Node -> Process] /\ b \in [Node -> Seq(Message)]
  /\ L \in SUBSET Node /\ F \in SUBSET Op
  /\ \A n \in Node : f[n].out = NoMail /\ \A o \in Op : Regular(f[n].ops[o])

(* What waits at node n to be handled *)
Elems(q) == {q[i] : i \in 1..Len(q)}
Pending(f, b, n) == Elems(b[n]) \cup f[n].work

(* An operation that anybody knows of, or that a message is about, is in   *)
(* the table of its originator.                                            *)
Rooted(f, o) == o \in Requested /\ o \in Known(f[conf.at[o]])

Originated(f, b) ==
  \A n \in Node :
    /\ \A o \in Known(f[n]) : Rooted(f, o)
    /\ \A m \in Pending(f, b, n) : m.type # "left" => Rooted(f, m.op)
    /\ \A p \in Op : \A o \in f[n].ops[p].duplicates : {o, p} \subseteq Known(f[n])

(* Operations that may be reported as a success: they and those they stand *)
(* for got the target without power.                                       *)
Sound(f, F) ==
  {o \in F : \A p \in Requested : p \in f[conf.at[p]].ops[o].duplicates => p \in F}

Honest(m, S) ==
  /\ m.type = "fence" => m.action = "reboot"
  /\ m.type \in {"fence-reply", "broadcast"} /\ m.result = "ok" => m.op \in S

Truthful(f, b, F) ==
  \A n \in Node :
    /\ \A m \in Pending(f, b, n) : Honest(m, Sound(f, F))
    /\ \A o \in Op : f[n].ops[o].told = "ok" =>
         IF Owner(n, o) THEN o \in F ELSE F # {}

(* Every daemon knows operation o or is about to be queried for it. *)
Queried(f, b, L, o) ==
  \A n \in L : o \in Known(f[n]) \/ QueryMsg(o) \in Elems(b[n])

Timed(r) == r.queryTimer \/ r.totalTimer \/ r.oneTimer # "none"

QueriedFirst(f, b, L) ==
  \A n \in Node :
    /\ \A o \in Op : Timed(f[n].ops[o]) => Queried(f, b, L, o)
    /\ \A m \in Pending(f, b, n) :
         m.type \notin {"left", "broadcast"} => Queried(f, b, L, m.op)

(* A failure is announced only to daemons that were queried before. *)
Failure(m) == m.type = "broadcast" /\ m.result # "ok"

PreparedBy(q, K) ==
  \A i \in 1..Len(q) : Failure(q[i]) =>
    q[i].op \in K \/ \E j \in 1..(i - 1) : q[j] = QueryMsg(q[i].op)

Prepared(f, b, L) == \A n \in L : PreparedBy(b[n], Known(f[n]))

Announces(m, o) == m.type = "broadcast" /\ m.op = o

Says(m) == IF m.result = "ok" THEN "ok" ELSE "failure"

FirstSays(q, o, v) ==
  \E i \in 1..Len(q) : /\ Announces(q[i], o) /\ Says(q[i]) = v
                       /\ \A j \in 1..(i - 1) : ~Announces(q[j], o)

(* What clients on node n were told of o, or will be told next *)
Verdict(f, b, n, o, v) ==
  \/ f[n].ops[o].told = v
  \/ f[n].ops[o].told = "nothing" /\ FirstSays(b[n], o, v)

Agreed(f, b, L) ==
  \A o \in Op : \A n, p \in Node : \A v \in {"ok", "failure"} :
    ~Merged(f[n], o) /\ ~Merged(f[p], o) =>
      /\ p \in L /\ Verdict(f, b, n, o, v) => Verdict(f, b, p, o, v)
      /\ f[n].ops[o].told = v => f[p].ops[o].told \in {"nothing", v}

InvOf(f, b, L, F) ==
  /\ TypeOf(f, b, L, F) /\ Originated(f, b)
  /\ SingleDevices => Truthful(f, b, F)
  /\ QueriedFirst(f, b, L) /\ Prepared(f, b, L) /\ Agreed(f, b, L)

Inv ==
  /\ conf \in Config /\ off \in SUBSET (Device \cup {NoDev})
  /\ InvOf(fencer, inbox, live, fenced)

-----------------------------------------------------------------------------
(* Numbers and sequences *)

(* What the model relies on of numbers and the sizes of sets: the least    *)
(* element of a set of numbers is one of them, there is a number of nodes, *)
(* and a set of positions in a list is no larger than the list.  Shown     *)
(* with the theorems (CountingHolds).                                      *)
Counting ==
  /\ \A S \in SUBSET Nat : S # {} => Min(S) \in S /\ \A x \in S : Min(S) <= x
  /\ \A S \in SUBSET Node : Cardinality(S) \in Nat
  /\ \A k \in Nat : \A S \in SUBSET (1..k) : Cardinality(S) \in 0..k

(* A sequence with an element inserted (add_result) *)
LEMMA InsertType ==
    ASSUME NEW T, NEW q \in Seq(T), NEW e \in T, NEW k \in 0..Len(q)
    PROVE  SubSeq(q, 1, k) \o <<e>> \o SubSeq(q, k + 1, Len(q)) \in Seq(T)
  <1>1. SubSeq(q, 1, k) \in Seq(T)
    <2>1. \A j \in 1..k : j \in 1..Len(q)
      OBVIOUS
    <2> QED
      BY <2>1
  <1>2. SubSeq(q, k + 1, Len(q)) \in Seq(T)
    OBVIOUS
  <1> QED
    BY <1>1, <1>2

-----------------------------------------------------------------------------
(* Operations *)

(* What functions of the originator do to operation r: they never tell     *)
(* clients themselves, nor merge or forget it.                             *)
Moves(r, q) ==
  /\ q \in OpRecord /\ q.told = r.told /\ q.duplicates = r.duplicates
  /\ q.state = "none" => r.state = "none"
  /\ Regular(r) => Regular(q)

(* find_best_peer returns a peer that has answered the query. *)
LEMMA FindBestPeerType ==
    ASSUME Counting, NEW r \in OpRecord, NEW v, NEW hosts
    PROVE  FindBestPeer(r, v, hosts) \in Node \cup {NoPeer}
  <1> DEFINE I == {i \in 1..Len(r.results) :
                     /\ r.results[i] \in hosts
                     /\ <<r.results[i], CurrentDevice(r), r.phase>> \notin r.used
                     /\ LET devices == IF v THEN conf.verified[r.results[i]]
                                             ELSE conf.has[r.results[i]]
                        IN  IF Topology THEN CurrentDevice(r) \in devices ELSE devices # {}}
  <1>1. r.results \in Seq(Node)
    BY DEF OpRecord
  <1>2. FindBestPeer(r, v, hosts) = IF I = {} THEN NoPeer ELSE r.results[Min(I)]
    BY Zenon DEF FindBestPeer
  <1>3. I \in SUBSET Nat /\ I \subseteq 1..Len(r.results)
    BY <1>1
  <1>4. CASE I # {}
    <2>1. Min(I) \in 1..Len(r.results)
      <3> HIDE DEF I
      <3> QED
        BY <1>3, <1>4, Zenon DEF Counting
    <2> HIDE DEF I
    <2> QED
      BY <1>1, <1>2, <1>4, <2>1
  <1>5. CASE I = {}
    <2> HIDE DEF I
    <2> QED
      BY <1>2, <1>5
  <1> QED
    BY <1>4, <1>5

(* stonith_choose_peer returns a peer or nobody. *)
LEMMA BestPeerType ==
    ASSUME Counting, NEW s, NEW r \in OpRecord
    PROVE  BestPeer(s, r) \in Node \cup {NoPeer}
  BY FindBestPeerType, Zenon DEF BestPeer

(* advance_topology_level *)
LEMMA AtLevelMoves ==
    ASSUME conf \in Config, Topology, NEW r \in OpRecord, NEW l \in Nat, l > 0
    PROVE  /\ Moves(r, AtLevel(r, l))
           /\ AtLevel(r, l).state = r.state /\ AtLevel(r, l).result = r.result
           /\ AtLevel(r, l).queryTimer = r.queryTimer
           /\ AtLevel(r, l).totalTimer = r.totalTimer /\ AtLevel(r, l).oneTimer = r.oneTimer
  <1>1. /\ conf.levels \in Seq(Seq(Device)) /\ Levels \in Nat \ {0}
        /\ \A k \in 1..Levels : conf.levels[k] \in Seq(Device)
    BY DEF Config, Topology, Levels
  <1>2. CASE l > Levels
    <2>1. PICK d \in Seq(Device) :
            AtLevel(r, l) = [r EXCEPT !.level = Levels + 1, !.phase = "requested",
                                      !.devices = d]
      <3>1. conf.levels[Levels] \in Seq(Device)
        BY <1>1
      <3>2. r.devices \in Seq(Device)
        BY Zenon DEF OpRecord
      <3> QED
        BY <1>2, <3>1, <3>2, Zenon DEF AtLevel
    <2>2. Levels + 1 \in 0..(Levels + 1)
      BY <1>1
    <2> QED
      BY <2>1, <2>2, Zenon DEF Moves, OpRecord, Regular
  <1>3. CASE ~(l > Levels)
    <2>1. PICK ph \in {"off", "requested"} :
            /\ AtLevel(r, l) = [r EXCEPT !.level = l, !.devices = conf.levels[l], !.phase = ph]
            /\ SingleDevices => ph = "requested"
      <3>1. SingleDevices => ~(Len(conf.levels[l]) > 1)
        BY <1>1, <1>3 DEF SingleDevices
      <3> QED
        BY <1>3, <3>1, Zenon DEF AtLevel
    <2>2. /\ l \in 0..(Levels + 1) /\ conf.levels[l] \in Seq(Device)
          /\ l \in 1..Levels
      BY <1>1, <1>3
    <2> QED
      BY <2>1, <2>2, Zenon DEF Moves, OpRecord, Regular
  <1> QED
    BY <1>2, <1>3

(* stonith_choose_peer may go on to a later level. *)
LEMMA ChoosePeerMoves ==
    ASSUME Counting, conf \in Config, NEW s, NEW r \in OpRecord
    PROVE  /\ Moves(r, ChoosePeer(s, r).op)
           /\ ChoosePeer(s, r).op.state = r.state /\ ChoosePeer(s, r).op.result = r.result
           /\ ChoosePeer(s, r).op.queryTimer = r.queryTimer
           /\ ChoosePeer(s, r).peer \in Node \cup {NoPeer}
  <1> DEFINE later == {l \in (r.level + 1)..Levels : BestPeer(s, AtLevel(r, l)) # NoPeer}
             l == IF later = {} THEN Levels + 1 ELSE Min(later)
             stay == [op |-> r, peer |-> BestPeer(s, r)]
             go == [op |-> AtLevel(r, l),
                    peer |-> IF later = {} THEN NoPeer ELSE BestPeer(s, AtLevel(r, l))]
  <1>1. Moves(r, r)
    BY Zenon DEF Moves
  <1>2. ChoosePeer(s, r) = stay \/ (Topology /\ ChoosePeer(s, r) = go)
    BY Zenon DEF ChoosePeer
  <1>3. CASE ChoosePeer(s, r) = stay
    <2>1. stay.op = r /\ stay.peer \in Node \cup {NoPeer}
      BY BestPeerType, Zenon
    <2> HIDE DEF stay
    <2> QED
      BY <1>1, <1>3, <2>1, Zenon
  <1>4. CASE Topology /\ ChoosePeer(s, r) = go
    <2>1. Levels \in Nat /\ r.level \in Nat
      <3>1. Levels \in Nat
        BY DEF Levels, Config
      <3>2. r.level \in 0..(Levels + 1)
        BY Zenon DEF OpRecord
      <3> QED
        BY <3>1, <3>2
    <2>2. later \in SUBSET Nat /\ later \subseteq (r.level + 1)..Levels
      BY <2>1
    <2>3. later # {} => Min(later) \in later
      BY <2>2, Zenon DEF Counting
    <2>4. l \in Nat /\ l > 0
      <3>1. later # {} => Min(later) \in (r.level + 1)..Levels
        BY <2>2, <2>3, Zenon
      <3> HIDE DEF later
      <3> QED
        BY <2>1, <3>1
    <2> HIDE DEF l
    <2>5. /\ Moves(r, AtLevel(r, l))
          /\ AtLevel(r, l).state = r.state /\ AtLevel(r, l).result = r.result
          /\ AtLevel(r, l).queryTimer = r.queryTimer
      BY <1>4, <2>4, AtLevelMoves, Zenon
    <2>6. BestPeer(s, AtLevel(r, l)) \in Node \cup {NoPeer}
      BY <2>5, BestPeerType, Zenon DEF Moves
    <2>7. go.op = AtLevel(r, l) /\ go.peer \in Node \cup {NoPeer}
      BY <2>6, Zenon
    <2> HIDE DEF go
    <2> QED
      BY <1>4, <2>5, <2>7, Zenon
  <1> QED
    BY <1>2, <1>3, <1>4

-----------------------------------------------------------------------------
(* What the functions of the originator do and send *)

(* A message about operation o: F has the operations whose success may be  *)
(* announced.                                                              *)
Mail(o, m, to, F) ==
  /\ m \in Message /\ to \in SUBSET Node /\ m.op = o /\ m.type \in {"fence", "broadcast"}
  /\ m.type = "broadcast" => to = Node
  /\ SingleDevices => /\ m.type = "fence" => m.action = "reboot"
                      /\ m.type = "broadcast" /\ m.result = "ok" => o \in F

Posted(s, to, m) == [p \in Node |-> IF p \in to THEN Append(s.out[p], m) ELSE s.out[p]]

Effect(s, t, o, F) ==
  /\ t \in Process /\ t.view = s.view /\ t.work = s.work
  /\ \A p \in Op \ {o} : t.ops[p] = s.ops[p]
  /\ Moves(s.ops[o], t.ops[o])
  /\ \/ t.out = s.out
     \/ \E to, m : Mail(o, m, to, F) /\ t.out = Posted(s, to, m)

LEMMA UpdateFacts ==
    ASSUME NEW s \in Process, NEW o \in Op, NEW r \in OpRecord
    PROVE  /\ Update(s, o, r) \in Process
           /\ Update(s, o, r).ops[o] = r
           /\ \A p \in Op \ {o} : Update(s, o, r).ops[p] = s.ops[p]
           /\ Update(s, o, r).view = s.view /\ Update(s, o, r).work = s.work
           /\ Update(s, o, r).out = s.out
           /\ Update(s, o, r).checkFailed = s.checkFailed
  <1>1. s.ops \in [Op -> OpRecord]
    BY Zenon DEF Process
  <1>2. Update(s, o, r) = [s EXCEPT !.ops = [s.ops EXCEPT ![o] = r]]
    BY Zenon DEF Update
  <1>3. [s.ops EXCEPT ![o] = r] \in [Op -> OpRecord]
    BY <1>1, Zenon
  <1>4. /\ [s.ops EXCEPT ![o] = r][o] = r
        /\ \A p \in Op \ {o} : [s.ops EXCEPT ![o] = r][p] = s.ops[p]
    BY <1>1, Zenon
  <1>5. /\ Update(s, o, r) \in Process
        /\ Update(s, o, r).ops = [s.ops EXCEPT ![o] = r]
    BY <1>2, <1>3, Zenon DEF Process
  <1>6. /\ Update(s, o, r).view = s.view /\ Update(s, o, r).work = s.work
        /\ Update(s, o, r).out = s.out
        /\ Update(s, o, r).checkFailed = s.checkFailed
    BY <1>2, Zenon DEF Process
  <1> QED
    BY <1>4, <1>5, <1>6, Zenon

LEMMA SendFacts ==
    ASSUME NEW s \in Process, NEW to, NEW m \in Message
    PROVE  /\ Send(s, to, m) \in Process
           /\ Send(s, to, m).ops = s.ops
           /\ Send(s, to, m).view = s.view /\ Send(s, to, m).work = s.work
           /\ Send(s, to, m).out = Posted(s, to, m)
  <1>1. s.out \in [Node -> Seq(Message)]
    BY Zenon DEF Process
  <1>2. Send(s, to, m) = [s EXCEPT !.out = Posted(s, to, m)]
    BY Zenon DEF Send, Posted
  <1>3. Posted(s, to, m) \in [Node -> Seq(Message)]
    <2>1. \A p \in Node : Append(s.out[p], m) \in Seq(Message) /\ s.out[p] \in Seq(Message)
      BY <1>1
    <2> QED
      BY <2>1, Zenon DEF Posted
  <1> QED
    BY <1>2, <1>3, Zenon DEF Process

(* An update that moves the operation, alone or before another effect *)
LEMMA UpdateEffect ==
    ASSUME NEW s \in Process, NEW o \in Op, NEW r, Moves(s.ops[o], r), NEW F
    PROVE  Effect(s, Update(s, o, r), o, F)
  <1>1. r \in OpRecord
    BY Zenon DEF Moves
  <1> QED
    BY <1>1, UpdateFacts, Zenon DEF Effect

LEMMA EffectAfterUpdate ==
    ASSUME NEW s \in Process, NEW o \in Op, NEW r, Moves(s.ops[o], r), NEW F, NEW t,
           Effect(Update(s, o, r), t, o, F)
    PROVE  Effect(s, t, o, F)
  <1> DEFINE u == Update(s, o, r)
  <1>1. r \in OpRecord
    BY Zenon DEF Moves
  <1>2. /\ u.ops[o] = r /\ \A p \in Op \ {o} : u.ops[p] = s.ops[p]
        /\ u.view = s.view /\ u.work = s.work /\ u.out = s.out
    BY <1>1, UpdateFacts, Zenon
  <1>3. Effect(u, t, o, F)
    OBVIOUS
  <1> HIDE DEF u
  <1>4. Moves(s.ops[o], t.ops[o])
    BY <1>2, <1>3, Zenon DEF Effect, Moves
  <1>5. \A to, m : Posted(u, to, m) = Posted(s, to, m)
    BY <1>2, Zenon DEF Posted
  <1>6. \/ t.out = s.out
        \/ \E to, m : Mail(o, m, to, F) /\ t.out = Posted(s, to, m)
    <2>1. CASE t.out = u.out
      BY <1>2, <2>1, Zenon
    <2>2. CASE t.out # u.out
      <3>1. PICK to, m : Mail(o, m, to, F) /\ t.out = Posted(u, to, m)
        BY <1>3, <2>2, Zenon DEF Effect
      <3>2. t.out = Posted(s, to, m)
        BY <1>5, <3>1
      <3> QED
        BY <3>1, <3>2, Zenon
    <2> QED
      BY <2>1, <2>2, Zenon
  <1>7. t \in Process /\ t.view = s.view /\ t.work = s.work
    BY <1>2, <1>3, Zenon DEF Effect
  <1>8. \A p \in Op \ {o} : t.ops[p] = s.ops[p]
    BY <1>2, <1>3, Zenon DEF Effect
  <1> QED
    BY <1>4, <1>6, <1>7, <1>8, Zenon DEF Effect

(* Every request arrives at some node. *)
LEMMA RequestedType ==
    ASSUME conf \in Config
    PROVE  Requested \subseteq Op /\ \A o \in Requested : conf.at[o] \in Node
  <1>1. conf.at \in UNION {[S -> Node] : S \in SUBSET Op}
    BY Zenon DEF Config
  <1>2. PICK S \in SUBSET Op : conf.at \in [S -> Node]
    BY <1>1, Zenon
  <1> QED
    BY <1>2, Zenon DEF Requested

(* An update and a message *)
LEMMA PostEffect ==
    ASSUME NEW s \in Process, NEW o \in Op, NEW q, Moves(s.ops[o], q), NEW F,
           NEW to, NEW m, Mail(o, m, to, F)
    PROVE  Effect(s, Send(Update(s, o, q), to, m), o, F)
  <1> DEFINE u == Update(s, o, q)
             v == Send(u, to, m)
  <1>1. q \in OpRecord
    BY Zenon DEF Moves
  <1>2. /\ u \in Process /\ u.ops[o] = q /\ \A p \in Op \ {o} : u.ops[p] = s.ops[p]
        /\ u.view = s.view /\ u.work = s.work /\ u.out = s.out
    BY <1>1, UpdateFacts, Zenon
  <1> HIDE DEF u
  <1>3. m \in Message
    BY Zenon DEF Mail
  <1>4. /\ v \in Process /\ v.ops = u.ops /\ v.view = u.view /\ v.work = u.work
        /\ v.out = Posted(u, to, m)
    BY <1>2, <1>3, SendFacts, Zenon
  <1> HIDE DEF v
  <1>5. Posted(u, to, m) = Posted(s, to, m)
    BY <1>2, Zenon DEF Posted
  <1>6. Effect(s, v, o, F)
    BY <1>2, <1>4, <1>5, Zenon DEF Effect
  <1> QED
    BY <1>6 DEF u, v

(* finalize_op broadcasts the result unless clients were notified. *)
LEMMA FinalizeOpEffect ==
    ASSUME NEW n, NEW s \in Process, NEW o \in Op, o \in Requested,
           NEW r, Moves(s.ops[o], r), NEW F,
           SingleDevices /\ r.result = "ok" => o \in F
    PROVE  Effect(s, FinalizeOp(n, s, o, r), o, F)
  <1> DEFINE q == [ClearTimers(r) EXCEPT !.phase = "requested"]
             m == BroadcastMsg(o, r.result)
  <1>1. r \in OpRecord
    BY Zenon DEF Moves
  <1>2. Moves(s.ops[o], ClearTimers(r))
    BY <1>1, Zenon DEF Moves, ClearTimers, OpRecord, Regular
  <1>3. CASE r.told # "nothing"
    BY <1>2, <1>3, UpdateEffect, Zenon DEF FinalizeOp
  <1>4. CASE r.told = "nothing"
    <2>1. FinalizeOp(n, s, o, r) = Send(Update(s, o, q), Node, m)
      BY <1>4, Zenon DEF FinalizeOp
    <2>2. Moves(s.ops[o], q)
      BY <1>2, Zenon DEF Moves, OpRecord, Regular
    <2>3. Mail(o, m, Node, F)
      <3>1. r.result \in {"unknown", "ok", "error", "timeout", "no device"}
        BY <1>1, Zenon DEF OpRecord
      <3>2. m \in [type : {"broadcast"}, op : Requested,
                    result : {"unknown", "ok", "error", "timeout", "no device"}]
        BY <3>1, Zenon DEF BroadcastMsg
      <3>3. m \in Message
        BY <3>2, Zenon DEF Message
      <3>4. m.type = "broadcast" /\ m.op = o /\ m.result = r.result
        BY Zenon DEF BroadcastMsg
      <3> HIDE DEF m
      <3> QED
        BY <3>3, <3>4, Zenon DEF Mail
    <2> HIDE DEF q, m
    <2> QED
      BY <2>1, <2>2, <2>3, PostEffect, Zenon
  <1> QED
    BY <1>3, <1>4, Zenon

(* finalize_timed_out_op *)
LEMMA FinalizeTimedOutEffect ==
    ASSUME NEW n, NEW s \in Process, NEW o \in Op, o \in Requested,
           NEW r, Moves(s.ops[o], r), Regular(r), NEW F
    PROVE  Effect(s, FinalizeTimedOut(n, s, o, r), o, F)
  <1> DEFINE q == IF r.phase = "on" THEN [r EXCEPT !.state = "done", !.result = "ok"]
                  ELSE [r EXCEPT !.state = "failed", !.result = "timeout"]
  <1>1. Moves(s.ops[o], q)
    BY Zenon DEF Moves, OpRecord, Regular
  <1>2. SingleDevices => q.result # "ok"
    BY Zenon DEF Regular, Moves, OpRecord
  <1>3. FinalizeTimedOut(n, s, o, r) = FinalizeOp(n, s, o, q)
    BY Zenon DEF FinalizeTimedOut
  <1> HIDE DEF q
  <1> QED
    BY <1>1, <1>2, <1>3, FinalizeOpEffect, Zenon

(* The request that request_peer_fencing sends to a peer *)
LEMMA AskEffect ==
    ASSUME NEW s \in Process, NEW o \in Op, o \in Requested,
           NEW r, Moves(s.ops[o], r), Regular(r), NEW p \in Node, NEW F
    PROVE  Effect(s, Ask(s, o, r, p), o, F)
  <1> DEFINE d == CurrentDevice(r)
             w == IF WatchdogFencing(r) THEN "watchdog" ELSE "peer"
             q == [r EXCEPT !.state = "exec", !.totalTimer = TRUE, !.oneTimer = w,
                            !.used = @ \cup {<<p, d, r.phase>>}]
             m == FenceMsg(o, d, Action(r))
  <1>1. r \in OpRecord
    BY Zenon DEF Moves
  <1>2. Ask(s, o, r, p) = Send(Update(s, o, q), {p}, m)
    BY Zenon DEF Ask
  <1>3. d \in Device \cup {NoDev}
    <2>1. r.devices \in Seq(Device)
      BY <1>1, Zenon DEF OpRecord
    <2> QED
      BY <2>1 DEF CurrentDevice
  <1>4. w \in {"none", "peer", "watchdog"}
    BY Zenon
  <1>5. r.phase \in {"requested", "off", "on"}
    BY <1>1, Zenon DEF OpRecord
  <1> HIDE DEF d, w
  <1>6. <<p, d, r.phase>> \in Node \X (Device \cup {NoDev}) \X {"requested", "off", "on"}
    BY <1>3, <1>5
  <1>7. Moves(s.ops[o], q)
    <2>1. r.used \in SUBSET (Node \X (Device \cup {NoDev}) \X {"requested", "off", "on"})
      BY <1>1, Zenon DEF OpRecord
    <2>2. r.used \cup {<<p, d, r.phase>>}
            \in SUBSET (Node \X (Device \cup {NoDev}) \X {"requested", "off", "on"})
      BY <1>6, <2>1
    <2> QED
      BY <1>1, <1>4, <2>2, Zenon DEF Moves, OpRecord, Regular
  <1>8. Mail(o, m, {p}, F)
    <2>1. Action(r) \in {"reboot", "off", "on"} /\ (SingleDevices => Action(r) = "reboot")
      BY <1>5, Zenon DEF Action, Regular
    <2>2. m \in [type : {"fence"}, op : Requested, device : Device \cup {NoDev},
                  action : {"reboot", "off", "on"}]
      BY <1>3, <2>1, Zenon DEF FenceMsg
    <2>3. m \in Message
      BY <2>2, Zenon DEF Message
    <2>4. m.type = "fence" /\ m.op = o /\ m.action = Action(r)
      BY Zenon DEF FenceMsg
    <2> HIDE DEF m
    <2> QED
      BY <2>1, <2>3, <2>4, Zenon DEF Mail
  <1> HIDE DEF q, m
  <1> QED
    BY <1>2, <1>7, <1>8, PostEffect, Zenon

(* The "on" phase, which operations without a level of two devices do not  *)
(* reach                                                                   *)
LEMMA TurnOnEffect ==
    ASSUME Counting, NEW n, NEW s \in Process, NEW o \in Op, o \in Requested,
           NEW r, Moves(s.ops[o], r), Regular(r), r.phase = "on", NEW F
    PROVE  Effect(s, TurnOn(n, s, o, r), o, F)
  <1> DEFINE At(i) == [r EXCEPT !.devices = SubSeq(r.devices, i, Len(r.devices))]
             usable == {i \in 1..Len(r.devices) :
                          /\ r.devices[i] \notin conf.stayoff
                          /\ BestPeer(s, At(i)) # NoPeer}
             q == [r EXCEPT !.devices = <<>>, !.state = "done", !.result = "ok"]
             k == Min(usable)
  <1>1. r \in OpRecord
    BY Zenon DEF Moves
  <1>2. ~SingleDevices
    BY Zenon DEF Regular
  <1>3. r.devices \in Seq(Device)
    BY <1>1, Zenon DEF OpRecord
  <1>4. TurnOn(n, s, o, r) = IF usable = {} THEN FinalizeOp(n, s, o, q)
                             ELSE Ask(s, o, At(k), BestPeer(s, At(k)))
    BY Zenon DEF TurnOn
  <1>5. CASE usable = {}
    <2>1. <<>> \in Seq(Device)
      OBVIOUS
    <2>2. Moves(s.ops[o], q)
      BY <1>2, <2>1, Zenon DEF Moves, OpRecord, Regular
    <2> HIDE DEF q, usable
    <2> QED
      BY <1>2, <1>4, <1>5, <2>2, FinalizeOpEffect, Zenon
  <1>6. CASE usable # {}
    <2>1. k \in usable
      <3>1. 1..Len(r.devices) \subseteq Nat
        BY <1>3
      <3>2. usable \in SUBSET Nat
        BY <3>1, Zenon
      <3> HIDE DEF usable
      <3> QED
        BY <1>6, <3>2, Zenon DEF Counting
    <2>2. k \in 1..Len(r.devices) /\ BestPeer(s, At(k)) # NoPeer
      BY <2>1, Zenon
    <2> HIDE DEF usable, k
    <2>3. SubSeq(r.devices, k, Len(r.devices)) \in Seq(Device)
      BY <1>3, <2>2
    <2>4. Moves(s.ops[o], At(k)) /\ Regular(At(k)) /\ At(k) \in OpRecord
      BY <1>1, <1>2, <2>3, Zenon DEF Moves, OpRecord, Regular
    <2> HIDE DEF At
    <2>5. BestPeer(s, At(k)) \in Node
      BY <2>2, <2>4, BestPeerType, Zenon
    <2> QED
      BY <1>4, <1>6, <2>4, <2>5, AskEffect, Zenon
  <1> QED
    BY <1>5, <1>6, Zenon

(* A success that may be on record must not be announced by an operation   *)
(* that finds nobody to ask.                                               *)
Guarded(r, o, F) ==
  SingleDevices /\ r.queryTimer /\ r.result = "ok" =>
    r.state = "query" \/ Topology \/ o \in F

(* request_peer_fencing without a peer *)
LEMMA NobodyToAskEffect ==
    ASSUME NEW n, NEW s \in Process, NEW o \in Op, o \in Requested,
           NEW r, Moves(s.ops[o], r), Regular(r), NEW F, Guarded(r, o, F)
    PROVE  Effect(s, NobodyToAsk(n, s, o, r), o, F)
  <1> DEFINE u == Update(s, o, r)
             c == [u EXCEPT !.checkFailed = TRUE]
             w == [r EXCEPT !.oneTimer = "watchdog", !.state = "exec"]
             q == [r EXCEPT !.result = IF r.state = "query" \/ Topology THEN "no device" ELSE @,
                            !.state = "failed"]
  <1>1. \/ NobodyToAsk(n, s, o, r) \in {FinalizeTimedOut(n, s, o, r), c, Update(s, o, w), u}
        \/ r.queryTimer /\ NobodyToAsk(n, s, o, r) = FinalizeOp(n, s, o, q)
    BY Zenon DEF NobodyToAsk
  <1>2. Effect(s, FinalizeTimedOut(n, s, o, r), o, F)
    BY FinalizeTimedOutEffect, Zenon
  <1>3. Effect(s, u, o, F)
    BY UpdateEffect, Zenon
  <1>4. Effect(s, c, o, F)
    <2> HIDE DEF u
    <2>1. u \in Process
      BY <1>3, Zenon DEF Effect
    <2>2. c \in Process
      BY <2>1, Zenon DEF Process
    <2>3. c.view = u.view /\ c.work = u.work /\ c.ops = u.ops /\ c.out = u.out
      BY <2>1, Zenon DEF Process
    <2> HIDE DEF c
    <2> QED
      BY <1>3, <2>2, <2>3, Zenon DEF Effect
  <1>5. Effect(s, Update(s, o, w), o, F)
    <2>1. Moves(s.ops[o], w)
      BY Zenon DEF Moves, OpRecord, Regular
    <2> HIDE DEF w
    <2> QED
      BY <2>1, UpdateEffect, Zenon
  <1>6. ASSUME r.queryTimer
        PROVE  Effect(s, FinalizeOp(n, s, o, q), o, F)
    <2>1. Moves(s.ops[o], q)
      BY Zenon DEF Moves, OpRecord, Regular
    <2>2. SingleDevices /\ q.result = "ok" => o \in F
      BY <1>6, Zenon DEF Moves, OpRecord, Guarded
    <2> HIDE DEF q
    <2> QED
      BY <2>1, <2>2, FinalizeOpEffect, Zenon
  <1> HIDE DEF u, c, w, q
  <1> QED
    BY <1>1, <1>2, <1>3, <1>4, <1>5, <1>6, Zenon

(* request_peer_fencing *)
LEMMA RequestPeerFencingEffect ==
    ASSUME Counting, conf \in Config, NEW n, NEW s \in Process, NEW o \in Op, o \in Requested,
           Regular(s.ops[o]), NEW p \in Node \cup {NoPeer}, NEW F,
           Guarded(s.ops[o], o, F)
    PROVE  Effect(s, RequestPeerFencing(n, s, o, p), o, F)
  <1> DEFINE r == s.ops[o]
             c == IF ~Topology /\ p # NoPeer THEN [op |-> r, peer |-> p] ELSE ChoosePeer(s, r)
             q == [c.op EXCEPT !.totalTimer = TRUE]
  <1>1. r \in OpRecord
    BY Zenon DEF Process
  <1>2. RequestPeerFencing(n, s, o, p) =
          IF r.phase = "on" THEN TurnOn(n, s, o, r)
          ELSE IF c.peer # NoPeer THEN Ask(s, o, c.op, c.peer) ELSE NobodyToAsk(n, s, o, q)
    BY Zenon DEF RequestPeerFencing
  <1>3. Moves(r, r)
    BY <1>1, Zenon DEF Moves
  <1>4. /\ Moves(r, c.op) /\ c.op.state = r.state /\ c.op.result = r.result
        /\ c.op.queryTimer = r.queryTimer /\ c.peer \in Node \cup {NoPeer}
    <2>1. CASE ~Topology /\ p # NoPeer
      <3>1. c = [op |-> r, peer |-> p]
        BY <2>1, Zenon
      <3> HIDE DEF c, r
      <3>2. c.op = r /\ c.peer = p
        BY <3>1, Zenon
      <3> QED
        BY <1>3, <3>2, Zenon
    <2>2. CASE ~(~Topology /\ p # NoPeer)
      <3>1. c = ChoosePeer(s, r)
        BY <2>2, Zenon
      <3> HIDE DEF c, r
      <3> QED
        BY <1>1, <3>1, ChoosePeerMoves, Zenon
    <2> HIDE DEF c, r
    <2> QED
      BY <2>1, <2>2, Zenon
  <1>5. Regular(r) /\ Guarded(r, o, F)
    OBVIOUS
  <1> HIDE DEF c
  <1>6. /\ Moves(r, q) /\ q.state = r.state /\ q.result = r.result
        /\ q.queryTimer = r.queryTimer
    BY <1>4, Zenon DEF Moves, OpRecord, Regular
  <1>7. Regular(c.op) /\ Regular(q) /\ Guarded(q, o, F)
    BY <1>4, <1>5, <1>6, Zenon DEF Moves, Guarded
  <1>8. CASE r.phase = "on"
    <2>1. RequestPeerFencing(n, s, o, p) = TurnOn(n, s, o, r)
      BY <1>2, <1>8, Zenon
    <2> QED
      BY <1>3, <1>5, <1>8, <2>1, TurnOnEffect, Zenon
  <1>9. CASE r.phase # "on" /\ c.peer # NoPeer
    <2>1. RequestPeerFencing(n, s, o, p) = Ask(s, o, c.op, c.peer)
      BY <1>2, <1>9, Zenon
    <2>2. c.peer \in Node
      BY <1>4, <1>9, Zenon
    <2> QED
      BY <1>4, <1>7, <2>1, <2>2, AskEffect, Zenon
  <1>10. CASE r.phase # "on" /\ c.peer = NoPeer
    <2>1. RequestPeerFencing(n, s, o, p) = NobodyToAsk(n, s, o, q)
      BY <1>2, <1>10, Zenon
    <2> HIDE DEF q
    <2> QED
      BY <1>6, <1>7, <2>1, NobodyToAskEffect, Zenon
  <1> QED
    BY <1>8, <1>9, <1>10, Zenon

LEMMA MovesTransitive ==
    ASSUME NEW r, NEW q, NEW w, Moves(r, q), Moves(q, w)
    PROVE  Moves(r, w)
  BY Zenon DEF Moves

(* advance_topology_device_in_level after a success *)
LEMMA AdvanceDeviceEffect ==
    ASSUME Counting, conf \in Config, NEW n, NEW s \in Process, NEW o \in Op, o \in Requested,
           NEW r, Moves(s.ops[o], r), Regular(r), NEW F, SingleDevices => o \in F
    PROVE  Effect(s, AdvanceDevice(n, s, o, r), o, F)
  <1> DEFINE rest == IF r.devices = <<>> THEN <<>> ELSE Tail(r.devices)
             next == [r EXCEPT !.result = "ok", !.devices = rest]
             on == [next EXCEPT !.phase = "on", !.devices = conf.levels[r.level]]
             done == [next EXCEPT !.state = "done"]
             u == Update(s, o, next)
  <1>1. r \in OpRecord
    BY Zenon DEF Moves
  <1>2. rest \in Seq(Device)
    <2>1. r.devices \in Seq(Device)
      BY <1>1, Zenon DEF OpRecord
    <2> QED
      BY <2>1
  <1>3. AdvanceDevice(n, s, o, r) =
          IF rest # <<>> THEN RequestPeerFencing(n, u, o, NoPeer)
          ELSE IF r.phase = "off" THEN TurnOn(n, s, o, on)
          ELSE FinalizeOp(n, s, o, done)
    BY Zenon DEF AdvanceDevice
  <1> HIDE DEF rest
  <1>4. Moves(s.ops[o], next) /\ Regular(next) /\ next \in OpRecord
    BY <1>1, <1>2, Zenon DEF Moves, OpRecord, Regular
  <1>5. next.phase = r.phase /\ next.level = r.level
    BY <1>1, Zenon DEF OpRecord
  <1> HIDE DEF next
  <1>6. CASE rest # <<>>
    <2>1. u \in Process /\ u.ops[o] = next
      BY <1>4, UpdateFacts, Zenon
    <2>2. Guarded(u.ops[o], o, F)
      BY Zenon DEF Guarded
    <2> HIDE DEF u
    <2>3. Effect(u, RequestPeerFencing(n, u, o, NoPeer), o, F)
      BY <1>4, <2>1, <2>2, RequestPeerFencingEffect, Zenon
    <2>4. Effect(Update(s, o, next), RequestPeerFencing(n, u, o, NoPeer), o, F)
      BY <2>3, Zenon DEF u
    <2>5. Effect(s, RequestPeerFencing(n, u, o, NoPeer), o, F)
      BY <1>4, <2>4, EffectAfterUpdate, Zenon
    <2> QED
      BY <1>3, <1>6, <2>5, Zenon
  <1>7. CASE rest = <<>> /\ r.phase = "off"
    <2>1. conf.levels \in Seq(Seq(Device)) /\ r.level \in 1..Levels /\ ~SingleDevices
      BY <1>7, Zenon DEF Config, Regular
    <2>2. conf.levels[r.level] \in Seq(Device)
      BY <2>1 DEF Levels
    <2>3. on \in OpRecord /\ on.phase = "on" /\ on.level = next.level /\ on.told = next.told
          /\ on.duplicates = next.duplicates /\ on.state = next.state
      BY <1>4, <2>2, Zenon DEF OpRecord
    <2> HIDE DEF on
    <2>4. Regular(on) /\ Moves(next, on)
      BY <1>4, <1>5, <2>1, <2>3, Zenon DEF Regular, Moves
    <2>5. Moves(s.ops[o], on)
      BY <1>4, <2>4, MovesTransitive, Zenon
    <2>6. Effect(s, TurnOn(n, s, o, on), o, F)
      BY <2>3, <2>4, <2>5, TurnOnEffect, Zenon
    <2> QED
      BY <1>3, <1>7, <2>6, Zenon
  <1>8. CASE rest = <<>> /\ r.phase # "off"
    <2>1. Moves(next, done)
      BY <1>4, Zenon DEF Moves, OpRecord, Regular
    <2> HIDE DEF done
    <2>2. Moves(s.ops[o], done)
      BY <1>4, <2>1, MovesTransitive, Zenon
    <2>3. Effect(s, FinalizeOp(n, s, o, done), o, F)
      BY <2>2, FinalizeOpEffect, Zenon
    <2> QED
      BY <1>3, <1>8, <2>3, Zenon
  <1> QED
    BY <1>6, <1>7, <1>8, Zenon

(* fenced_process_fencing_reply for the answer of a peer *)
LEMMA HandleFenceReplyEffect ==
    ASSUME Counting, conf \in Config, NEW n, NEW s \in Process, NEW o \in Op, o \in Requested,
           Regular(s.ops[o]), NEW m, m.op = o, m.result \in {"ok", "error", "timeout"},
           NEW F, SingleDevices /\ m.result = "ok" => o \in F
    PROVE  Effect(s, HandleFenceReply(n, s, m), o, F)
  <1> DEFINE r == [s.ops[o] EXCEPT !.result = m.result]
             next == AdvanceLevel(r)
             failed == [next EXCEPT !.state = "failed"]
  <1>1. s.ops[o] \in OpRecord
    BY Zenon DEF Process
  <1>2. /\ Moves(s.ops[o], r) /\ Regular(r) /\ r \in OpRecord
        /\ r.result = m.result /\ r.state = s.ops[o].state
    <2> DEFINE q == s.ops[o]
               x == m.result
    <2>1. q \in OpRecord /\ x \in {"unknown", "ok", "error", "timeout", "no device"}
          /\ Regular(q)
      BY <1>1, Zenon
    <2> HIDE DEF q, x
    <2> DEFINE w == [q EXCEPT !.result = x]
    <2>2. w \in OpRecord
      BY <2>1, Zenon DEF OpRecord
    <2>3. /\ w.result = x /\ w.state = q.state /\ w.told = q.told
          /\ w.duplicates = q.duplicates /\ w.phase = q.phase /\ w.level = q.level
      BY <2>1, Zenon DEF OpRecord
    <2> HIDE DEF w
    <2>4. Moves(q, w) /\ Regular(w)
      BY <2>1, <2>2, <2>3, Zenon DEF Moves, Regular
    <2> QED
      BY <2>2, <2>3, <2>4, Zenon DEF q, x, w
  <1>3. HandleFenceReply(n, s, m) =
          IF r.devices # <<>> /\ m.device # NoDev /\ m.device # Head(r.devices)
          THEN Update(s, o, r)
          ELSE IF Topology
          THEN IF r.state = "done" THEN FinalizeOp(n, s, o, r)
               ELSE IF r.phase = "on" \/ r.result = "ok" THEN AdvanceDevice(n, s, o, r)
               ELSE IF Exhausted(next) THEN FinalizeOp(n, s, o, failed)
               ELSE RequestPeerFencing(n, Update(s, o, next), o, NoPeer)
          ELSE IF r.result = "ok" THEN FinalizeOp(n, s, o, [r EXCEPT !.state = "done"])
          ELSE IF r.result = "timeout" THEN FinalizeOp(n, s, o, [r EXCEPT !.state = "failed"])
          ELSE RequestPeerFencing(n, Update(s, o, r), o, NoPeer)
    BY Zenon DEF HandleFenceReply
  <1> HIDE DEF r
  <1>4. Effect(s, Update(s, o, r), o, F)
    BY <1>2, UpdateEffect, Zenon
  <1>5. Effect(s, FinalizeOp(n, s, o, r), o, F)
    BY <1>2, FinalizeOpEffect, Zenon
  <1>6. ASSUME r.phase = "on" \/ r.result = "ok"
        PROVE  Effect(s, AdvanceDevice(n, s, o, r), o, F)
    <2>1. SingleDevices => o \in F
      BY <1>2, <1>6, Zenon DEF Regular
    <2> QED
      BY <1>2, <2>1, AdvanceDeviceEffect, Zenon
  <1>7. ASSUME NEW q, Moves(s.ops[o], q), Regular(q), Guarded(q, o, F)
        PROVE  Effect(s, RequestPeerFencing(n, Update(s, o, q), o, NoPeer), o, F)
    <2> DEFINE u == Update(s, o, q)
    <2>1. q \in OpRecord
      BY <1>7, Zenon DEF Moves
    <2>2. u \in Process /\ u.ops[o] = q
      BY <2>1, UpdateFacts, Zenon
    <2> HIDE DEF u
    <2>3. Effect(u, RequestPeerFencing(n, u, o, NoPeer), o, F)
      BY <1>7, <2>2, RequestPeerFencingEffect, Zenon
    <2>4. Effect(Update(s, o, q), RequestPeerFencing(n, Update(s, o, q), o, NoPeer), o, F)
      BY <2>3, Zenon DEF u
    <2> QED
      BY <1>7, <2>4, EffectAfterUpdate, Zenon
  <1>8. ASSUME Topology
        PROVE  /\ Effect(s, RequestPeerFencing(n, Update(s, o, next), o, NoPeer), o, F)
               /\ r.result # "ok" => Effect(s, FinalizeOp(n, s, o, failed), o, F)
    <2>1. r.level + 1 \in Nat /\ r.level + 1 > 0
      <3>1. Levels \in Nat
        BY DEF Levels, Config
      <3>2. r.level \in 0..(Levels + 1)
        BY <1>2, Zenon DEF OpRecord
      <3> QED
        BY <3>1, <3>2
    <2>2. Moves(r, next) /\ next.result = r.result
      BY <1>2, <1>8, <2>1, AtLevelMoves, Zenon DEF AdvanceLevel
    <2> HIDE DEF next
    <2>3. Moves(s.ops[o], next) /\ Regular(next)
      BY <1>2, <2>2, MovesTransitive, Zenon DEF Moves
    <2>4. Guarded(next, o, F)
      BY <1>8, Zenon DEF Guarded
    <2>5. Moves(next, failed) /\ failed.result = next.result
      BY <2>2, Zenon DEF Moves, OpRecord, Regular
    <2> HIDE DEF failed
    <2>6. Moves(s.ops[o], failed)
      BY <2>3, <2>5, MovesTransitive, Zenon
    <2>7. r.result # "ok" => Effect(s, FinalizeOp(n, s, o, failed), o, F)
      BY <2>2, <2>5, <2>6, FinalizeOpEffect, Zenon
    <2> QED
      BY <1>7, <2>3, <2>4, <2>7, Zenon
  <1>9. ASSUME NEW x \in {"done", "failed"}
        PROVE  Effect(s, FinalizeOp(n, s, o, [r EXCEPT !.state = x]), o, F)
    <2> DEFINE q == [r EXCEPT !.state = x]
    <2>1. Moves(r, q) /\ q.result = r.result
      BY <1>2, Zenon DEF Moves, OpRecord, Regular
    <2> HIDE DEF q
    <2>2. Moves(s.ops[o], q)
      BY <1>2, <2>1, MovesTransitive, Zenon
    <2>3. Effect(s, FinalizeOp(n, s, o, q), o, F)
      BY <1>2, <2>1, <2>2, FinalizeOpEffect, Zenon
    <2> QED
      BY <2>3, Zenon DEF q
  <1>10. r.result # "ok" => Effect(s, RequestPeerFencing(n, Update(s, o, r), o, NoPeer), o, F)
    BY <1>2, <1>7, Zenon DEF Guarded
  <1> HIDE DEF next, failed
  <1> QED
    BY <1>3, <1>4, <1>5, <1>6, <1>8, <1>9, <1>10, Zenon

(* add_result *)
LEMMA AddResultMoves ==
    ASSUME Counting, NEW q \in OpRecord, NEW p \in Node
    PROVE  Moves(q, AddResult(q, p)) /\ AddResult(q, p).state = q.state
  <1> DEFINE before == {i \in 1..Len(q.results) :
                          Cardinality(conf.has[q.results[i]]) > Cardinality(conf.has[p])}
             k == Cardinality(before)
             w == SubSeq(q.results, 1, k) \o <<p>> \o SubSeq(q.results, k + 1, Len(q.results))
  <1>1. q.results \in Seq(Node) /\ Len(q.results) \in Nat
    <2>1. q.results \in Seq(Node)
      BY Zenon DEF OpRecord
    <2> QED
      BY <2>1
  <1>2. k \in 0..Len(q.results)
    <2>1. before \subseteq 1..Len(q.results)
      BY Zenon
    <2> HIDE DEF before
    <2> QED
      BY <1>1, <2>1, Zenon DEF Counting
  <1>3. AddResult(q, p) = IF conf.has[p] = {} THEN q ELSE [q EXCEPT !.results = w]
    BY Zenon DEF AddResult
  <1> HIDE DEF k
  <1>4. w \in Seq(Node)
    BY <1>1, <1>2, InsertType
  <1>5. Moves(q, q)
    BY Zenon DEF Moves
  <1>6. CASE conf.has[p] = {}
    BY <1>3, <1>5, <1>6, Zenon
  <1>7. CASE conf.has[p] # {}
    <2>1. AddResult(q, p) = [q EXCEPT !.results = w]
      BY <1>3, <1>7, Zenon
    <2> HIDE DEF w
    <2> QED
      BY <1>4, <2>1, Zenon DEF Moves, OpRecord, Regular
  <1> QED
    BY <1>6, <1>7, Zenon

(* process_remote_stonith_query *)
LEMMA HandleQueryReplyEffect ==
    ASSUME Counting, conf \in Config, NEW n, NEW s \in Process, NEW o \in Op, o \in Requested,
           Regular(s.ops[o]), NEW m, m.op = o, m.from \in Node, NEW F
    PROVE  Effect(s, HandleQueryReply(n, s, m), o, F)
  <1> DEFINE q == s.ops[o]
             a == AddResult(q, m.from)
             replies == q.replies + 1
             r == [a EXCEPT !.replies = replies, !.result = "ok"]
             promising == IF Topology THEN AllDevicesFound(r)
                          ELSE m.from # conf.target /\ conf.verified[m.from] # {}
             p == IF promising THEN m.from ELSE NoPeer
             u == Update(s, o, r)
  <1>1. q \in OpRecord /\ Regular(q)
    BY Zenon DEF Process
  <1>2. HandleQueryReply(n, s, m) = u
        \/ (q.state = "query" /\ HandleQueryReply(n, s, m) = RequestPeerFencing(n, u, o, p))
    BY Zenon DEF HandleQueryReply
  <1>3. p \in Node \cup {NoPeer}
    BY Zenon
  <1>4. replies \in Nat
    <2>1. q.replies \in Nat
      BY <1>1, Zenon DEF OpRecord
    <2> QED
      BY <2>1
  <1>5. Moves(q, a) /\ a.state = q.state
    BY <1>1, AddResultMoves, Zenon
  <1> HIDE DEF p, replies, a
  <1>6. Moves(a, r) /\ r.state = a.state
    BY <1>4, <1>5, Zenon DEF Moves, OpRecord, Regular
  <1> HIDE DEF r
  <1>7. Moves(q, r) /\ r.state = q.state /\ r \in OpRecord
    BY <1>5, <1>6, MovesTransitive, Zenon DEF Moves
  <1>8. Effect(s, u, o, F)
    BY <1>7, UpdateEffect, Zenon
  <1>9. ASSUME q.state = "query"
        PROVE  Effect(s, RequestPeerFencing(n, u, o, p), o, F)
    <2>1. u \in Process /\ u.ops[o] = r
      BY <1>7, UpdateFacts, Zenon
    <2>2. Regular(u.ops[o])
      BY <1>1, <1>7, <2>1, Zenon DEF Moves
    <2>3. Guarded(u.ops[o], o, F)
      BY <1>7, <1>9, <2>1, Zenon DEF Guarded
    <2> HIDE DEF u
    <2>4. Effect(u, RequestPeerFencing(n, u, o, p), o, F)
      BY <1>3, <2>1, <2>2, <2>3, RequestPeerFencingEffect, Zenon
    <2>5. Effect(Update(s, o, r), RequestPeerFencing(n, u, o, p), o, F)
      BY <2>4, Zenon DEF u
    <2> QED
      BY <1>7, <2>5, EffectAfterUpdate, Zenon
  <1> HIDE DEF u
  <1> QED
    BY <1>2, <1>8, <1>9, Zenon

-----------------------------------------------------------------------------
(* The first announcement in a queue *)

LEMMA FirstSaysUnique ==
    ASSUME NEW q \in Seq(Message), NEW o, NEW v, NEW w,
           FirstSays(q, o, v), FirstSays(q, o, w)
    PROVE  v = w
  <1>1. PICK i \in 1..Len(q) : /\ Announces(q[i], o) /\ Says(q[i]) = v
                               /\ \A j \in 1..(i - 1) : ~Announces(q[j], o)
    BY Zenon DEF FirstSays
  <1>2. PICK k \in 1..Len(q) : /\ Announces(q[k], o) /\ Says(q[k]) = w
                               /\ \A j \in 1..(k - 1) : ~Announces(q[j], o)
    BY Zenon DEF FirstSays
  <1>3. i = k
    BY <1>1, <1>2
  <1> QED
    BY <1>1, <1>2, <1>3, Zenon

LEMMA FirstSaysExists ==
    ASSUME Counting, NEW q \in Seq(Message), NEW o, NEW k \in 1..Len(q), Announces(q[k], o)
    PROVE  \E v \in {"ok", "failure"} : FirstSays(q, o, v)
  <1> DEFINE S == {i \in 1..Len(q) : Announces(q[i], o)}
             m == Min(S)
  <1>1. S \in SUBSET Nat /\ S # {}
    OBVIOUS
  <1>2. m \in S /\ \A x \in S : m <= x
    <2> HIDE DEF S
    <2> QED
      BY <1>1, Zenon DEF Counting
  <1>3. m \in 1..Len(q) /\ Announces(q[m], o)
    BY <1>2, Zenon
  <1> HIDE DEF m
  <1>4. \A j \in 1..(m - 1) : ~Announces(q[j], o)
    BY <1>2, <1>3
  <1>5. FirstSays(q, o, Says(q[m]))
    BY <1>3, <1>4, Zenon DEF FirstSays
  <1>6. Says(q[m]) \in {"ok", "failure"}
    BY Zenon DEF Says
  <1> QED
    BY <1>5, <1>6, Zenon

LEMMA FirstSaysTail ==
    ASSUME NEW q \in Seq(Message), q # <<>>, NEW o, NEW v, ~Announces(Head(q), o)
    PROVE  /\ FirstSays(q, o, v) => FirstSays(Tail(q), o, v)
           /\ FirstSays(Tail(q), o, v) => FirstSays(q, o, v)
  <1>1. /\ Len(q) \in Nat \ {0} /\ Len(Tail(q)) = Len(q) - 1
        /\ \A i \in 1..(Len(q) - 1) : Tail(q)[i] = q[i + 1]
        /\ Head(q) = q[1]
    OBVIOUS
  <1>2. ASSUME NEW i \in 1..Len(q), Announces(q[i], o), Says(q[i]) = v,
               \A j \in 1..(i - 1) : ~Announces(q[j], o)
        PROVE  FirstSays(Tail(q), o, v)
    <2>1. i # 1
      BY <1>1, <1>2
    <2>2. i - 1 \in 1..Len(Tail(q)) /\ Tail(q)[i - 1] = q[i]
      BY <1>1, <2>1
    <2>3. \A j \in 1..((i - 1) - 1) : Tail(q)[j] = q[j + 1] /\ j + 1 \in 1..(i - 1)
      BY <1>1, <2>1
    <2>4. \A j \in 1..((i - 1) - 1) : ~Announces(Tail(q)[j], o)
      BY <1>2, <2>3, Zenon
    <2> QED
      BY <1>2, <2>2, <2>4, Zenon DEF FirstSays
  <1>3. ASSUME NEW i \in 1..Len(Tail(q)), Announces(Tail(q)[i], o), Says(Tail(q)[i]) = v,
               \A j \in 1..(i - 1) : ~Announces(Tail(q)[j], o)
        PROVE  FirstSays(q, o, v)
    <2>1. i + 1 \in 1..Len(q) /\ q[i + 1] = Tail(q)[i]
      BY <1>1
    <2>2. \A j \in 1..((i + 1) - 1) : j = 1 \/ (j - 1 \in 1..(i - 1) /\ q[j] = Tail(q)[j - 1])
      BY <1>1
    <2>3. \A j \in 1..((i + 1) - 1) : ~Announces(q[j], o)
      BY <1>1, <1>3, <2>2, Zenon
    <2> QED
      BY <1>3, <2>1, <2>3, Zenon DEF FirstSays
  <1> QED
    BY <1>2, <1>3, Zenon DEF FirstSays

LEMMA FirstSaysHead ==
    ASSUME NEW q \in Seq(Message), q # <<>>, NEW o, Announces(Head(q), o)
    PROVE  FirstSays(q, o, Says(Head(q)))
  <1>1. 1 \in 1..Len(q) /\ Head(q) = q[1] /\ \A j \in 1..(1 - 1) : FALSE
    OBVIOUS
  <1> QED
    BY <1>1, Zenon DEF FirstSays

LEMMA FirstSaysAppend ==
    ASSUME Counting, NEW q \in Seq(Message), NEW m \in Message, NEW o, NEW v
    PROVE  /\ FirstSays(q, o, v) => FirstSays(Append(q, m), o, v)
           /\ FirstSays(Append(q, m), o, v) =>
                \/ FirstSays(q, o, v)
                \/ Announces(m, o) /\ Says(m) = v /\ \A w : ~FirstSays(q, o, w)
           /\ Announces(m, o) => FirstSays(Append(q, m), o, Says(m))
                                 \/ \E w \in {"ok", "failure"} : FirstSays(q, o, w)
  <1> DEFINE a == Append(q, m)
  <1>1. /\ Len(q) \in Nat /\ Len(a) = Len(q) + 1 /\ a[Len(q) + 1] = m
        /\ \A i \in 1..Len(q) : a[i] = q[i]
    OBVIOUS
  <1> HIDE DEF a
  <1>2. ASSUME NEW i \in 1..Len(q), Announces(q[i], o), Says(q[i]) = v,
               \A j \in 1..(i - 1) : ~Announces(q[j], o)
        PROVE  FirstSays(a, o, v)
    <2>1. i \in 1..Len(a) /\ a[i] = q[i] /\ \A j \in 1..(i - 1) : a[j] = q[j]
      BY <1>1
    <2> QED
      BY <1>2, <2>1, Zenon DEF FirstSays
  <1>3. ASSUME NEW i \in 1..Len(a), Announces(a[i], o), Says(a[i]) = v,
               \A j \in 1..(i - 1) : ~Announces(a[j], o)
        PROVE  \/ FirstSays(q, o, v)
               \/ Announces(m, o) /\ Says(m) = v /\ \A w : ~FirstSays(q, o, w)
    <2>1. CASE i = Len(q) + 1
      <3>1. a[i] = m /\ \A j \in 1..Len(q) : j \in 1..(i - 1) /\ a[j] = q[j]
        BY <1>1, <2>1
      <3>2. \A j \in 1..Len(q) : ~Announces(q[j], o)
        BY <1>3, <3>1, Zenon
      <3> QED
        BY <1>3, <3>1, <3>2, Zenon DEF FirstSays
    <2>2. CASE i # Len(q) + 1
      <3>1. i \in 1..Len(q) /\ a[i] = q[i] /\ \A j \in 1..(i - 1) : a[j] = q[j]
        BY <1>1, <2>2
      <3> QED
        BY <1>3, <3>1, Zenon DEF FirstSays
    <2> QED
      BY <2>1, <2>2, Zenon
  <1>4. ASSUME Announces(m, o)
        PROVE  FirstSays(a, o, Says(m)) \/ \E w \in {"ok", "failure"} : FirstSays(q, o, w)
    <2>1. CASE \E k \in 1..Len(q) : Announces(q[k], o)
      BY <2>1, FirstSaysExists, Zenon
    <2>2. CASE \A k \in 1..Len(q) : ~Announces(q[k], o)
      <3> DEFINE k == Len(q) + 1
      <3>1. k \in 1..Len(a) /\ \A j \in 1..(k - 1) : j \in 1..Len(q)
        BY <1>1
      <3>2. a[k] = m
        BY <1>1, Zenon
      <3> HIDE DEF k
      <3>3. \A j \in 1..(k - 1) : ~Announces(a[j], o)
        BY <1>1, <2>2, <3>1, Zenon
      <3>4. FirstSays(a, o, Says(m))
        BY <1>4, <3>1, <3>2, <3>3, Zenon DEF FirstSays
      <3> QED
        BY <3>4, Zenon
    <2> QED
      BY <2>1, <2>2, Zenon
  <1> QED
    BY <1>2, <1>3, <1>4, Zenon DEF FirstSays, a

-----------------------------------------------------------------------------
(* The parts of a step of daemon n: it takes the first message that waits  *)
(* for it or none, goes from state s to state t, and sends message m to    *)
(* the nodes in to.                                                        *)

Takes(b, c, n, H) ==
  \/ c = b /\ H = {}
  \/ b[n] # <<>> /\ c = [b EXCEPT ![n] = Tail(b[n])] /\ H = {Head(b[n])}

Mailed(b, L, to, m) ==
  [x \in Node |-> IF x \in L THEN IF x \in to THEN Append(b[x], m) ELSE b[x] ELSE <<>>]

(* No daemon forgets an operation, and one is merged when it is created. *)
Grows(s, t) ==
  /\ Known(s) \subseteq Known(t)
  /\ \A p \in Op : s.ops[p].duplicates \subseteq t.ops[p].duplicates
  /\ \A p \in Op : \A o \in t.ops[p].duplicates :
       o \in s.ops[p].duplicates \/ (o \notin Known(s) /\ {o, p} \subseteq Known(t))

(* Clients are told what the first announcement says. *)
Tells(s, t, H) ==
  \A o \in Op :
    \/ Merged(t, o)
    \/ /\ t.ops[o].told = s.ops[o].told
       /\ \A h \in H : Announces(h, o) => s.ops[o].told # "nothing"
    \/ /\ s.ops[o].told = "nothing"
       /\ \E h \in H : Announces(h, o) /\ t.ops[o].told = Says(h)

LEMMA TakesFacts ==
    ASSUME NEW b \in [Node -> Seq(Message)], NEW n \in Node, NEW c, NEW H, Takes(b, c, n, H)
    PROVE  /\ c \in [Node -> Seq(Message)]
           /\ \A x \in Node \ {n} : c[x] = b[x]
           /\ Elems(c[n]) \subseteq Elems(b[n])
           /\ Elems(b[n]) \subseteq Elems(c[n]) \cup H
           /\ H \subseteq Elems(b[n])
  <1>1. CASE c = b /\ H = {}
    BY <1>1, Zenon
  <1>2. CASE b[n] # <<>> /\ c = [b EXCEPT ![n] = Tail(b[n])] /\ H = {Head(b[n])}
    <2> DEFINE q == b[n]
    <2>1. q \in Seq(Message) /\ q # <<>>
      BY <1>2, Zenon
    <2>2. /\ Tail(q) \in Seq(Message) /\ 1 \in 1..Len(q) /\ Head(q) = q[1]
          /\ \A i \in 1..Len(Tail(q)) : i + 1 \in 1..Len(q) /\ Tail(q)[i] = q[i + 1]
          /\ \A i \in 1..Len(q) : i = 1 \/ (i - 1 \in 1..Len(Tail(q)) /\ Tail(q)[i - 1] = q[i])
      <3> HIDE DEF q
      <3> QED
        BY <2>1
    <2>3. c[n] = Tail(q) /\ c \in [Node -> Seq(Message)] /\ \A x \in Node \ {n} : c[x] = b[x]
      BY <1>2, <2>2, Zenon
    <2>4. H = {q[1]}
      BY <1>2, <2>2, Zenon
    <2>5. /\ Elems(Tail(q)) \subseteq Elems(q) /\ Elems(q) \subseteq Elems(Tail(q)) \cup {q[1]}
          /\ q[1] \in Elems(q)
      <3> HIDE DEF q
      <3>1. Elems(Tail(q)) \subseteq Elems(q)
        <4>1. ASSUME NEW i \in 1..Len(Tail(q))
              PROVE  Tail(q)[i] \in Elems(q)
          <5>1. PICK j \in 1..Len(q) : Tail(q)[i] = q[j]
            BY <2>2, <4>1, Zenon
          <5> QED
            BY <5>1, Zenon DEF Elems
        <4> QED
          BY <4>1, Zenon DEF Elems
      <3>2. Elems(q) \subseteq Elems(Tail(q)) \cup {q[1]}
        <4>1. ASSUME NEW i \in 1..Len(q)
              PROVE  q[i] \in Elems(Tail(q)) \cup {q[1]}
          BY <2>2, <4>1, Zenon DEF Elems
        <4> QED
          BY <4>1, Zenon DEF Elems
      <3>3. q[1] \in Elems(q)
        BY <2>2, Zenon DEF Elems
      <3> QED
        BY <3>1, <3>2, <3>3, Zenon
    <2> QED
      BY <2>3, <2>4, <2>5, Zenon
  <1> QED
    BY <1>1, <1>2, Zenon DEF Takes

LEMMA MailedFacts ==
    ASSUME NEW b \in [Node -> Seq(Message)], NEW L, NEW to, NEW m \in Message
    PROVE  Mailed(b, L, to, m) \in [Node -> Seq(Message)]
  <1>1. \A x \in Node : /\ <<>> \in Seq(Message) /\ b[x] \in Seq(Message)
                        /\ Append(b[x], m) \in Seq(Message)
    OBVIOUS
  <1> QED
    BY <1>1, Zenon DEF Mailed

LEMMA AppendElems ==
    ASSUME NEW q \in Seq(Message), NEW m \in Message
    PROVE  Elems(Append(q, m)) = Elems(q) \cup {m}
  <1> DEFINE a == Append(q, m)
             k == Len(q) + 1
  <1>1. /\ Len(q) \in Nat /\ Len(a) = k /\ a[k] = m /\ k \in 1..k
        /\ \A i \in 1..Len(q) : i \in 1..k /\ a[i] = q[i]
        /\ \A i \in 1..k : i = k \/ i \in 1..Len(q)
    OBVIOUS
  <1> HIDE DEF a, k
  <1>2. Elems(a) \subseteq Elems(q) \cup {m}
    BY <1>1, Zenon DEF Elems
  <1>3. Elems(q) \subseteq Elems(a) /\ m \in Elems(a)
    BY <1>1, Zenon DEF Elems
  <1> QED
    BY <1>2, <1>3, Zenon DEF a

LEMMA MailedElems ==
    ASSUME NEW b \in [Node -> Seq(Message)], NEW L, NEW to, NEW m \in Message, NEW x \in Node
    PROVE  /\ Elems(Mailed(b, L, to, m)[x]) \subseteq Elems(b[x]) \cup {k \in {m} : to # {}}
           /\ x \in L => Elems(b[x]) \subseteq Elems(Mailed(b, L, to, m)[x])
           /\ x \in L /\ x \in to => m \in Elems(Mailed(b, L, to, m)[x])
  <1> DEFINE c == Mailed(b, L, to, m)
  <1>1. c[x] = IF x \in L THEN IF x \in to THEN Append(b[x], m) ELSE b[x] ELSE <<>>
    BY Zenon DEF Mailed
  <1>2. Elems(Append(b[x], m)) = Elems(b[x]) \cup {m}
    BY AppendElems, Zenon
  <1>3. Elems(<<>>) = {}
    <2>1. 1..Len(<<>>) = {}
      OBVIOUS
    <2> QED
      BY <2>1, Zenon DEF Elems
  <1> HIDE DEF c
  <1>4. CASE x \notin L
    <2>1. Elems(c[x]) = {}
      BY <1>1, <1>3, <1>4, Zenon
    <2> QED
      BY <1>4, <2>1, Zenon DEF c
  <1>5. CASE x \in L /\ x \notin to
    <2>1. c[x] = b[x]
      BY <1>1, <1>5, Zenon
    <2> QED
      BY <1>5, <2>1, Zenon DEF c
  <1>6. CASE x \in L /\ x \in to
    <2>1. Elems(c[x]) = Elems(b[x]) \cup {m}
      BY <1>1, <1>2, <1>6, Zenon
    <2> QED
      BY <1>6, <2>1, Zenon DEF c
  <1> QED
    BY <1>4, <1>5, <1>6, Zenon

-----------------------------------------------------------------------------
(* Clients on different nodes are told the same *)

LEMMA ToldType ==
    ASSUME NEW f \in [Node -> Process], NEW n \in Node, NEW o \in Op
    PROVE  f[n].ops[o] \in OpRecord /\ f[n].ops[o].told \in {"nothing", "ok", "failure"}
  <1>1. f[n] \in Process
    BY Zenon
  <1>2. f[n].ops \in [Op -> OpRecord]
    BY <1>1, Zenon DEF Process
  <1>3. f[n].ops[o] \in OpRecord
    BY <1>2, Zenon
  <1> QED
    BY <1>3, Zenon DEF OpRecord

(* Clients on a node are told one thing of an operation. *)
LEMMA VerdictUnique ==
    ASSUME NEW f, NEW b \in [Node -> Seq(Message)], NEW n \in Node, NEW o,
           NEW v \in {"ok", "failure"}, NEW w \in {"ok", "failure"},
           Verdict(f, b, n, o, v), Verdict(f, b, n, o, w)
    PROVE  v = w
  <1>1. b[n] \in Seq(Message)
    BY Zenon
  <1>2. "nothing" \notin {"ok", "failure"}
    OBVIOUS
  <1> QED
    BY <1>1, <1>2, FirstSaysUnique, Zenon DEF Verdict

(* A daemon that handles a message stays with the verdict. *)
LEMMA VerdictKept ==
    ASSUME NEW f \in [Node -> Process], NEW b \in [Node -> Seq(Message)], NEW n \in Node,
           NEW g, NEW c, NEW H, Takes(b, c, n, H), Tells(f[n], g[n], H),
           NEW o \in Op, ~Merged(g[n], o), NEW v, v # "nothing"
    PROVE  /\ Verdict(f, b, n, o, v) => Verdict(g, c, n, o, v)
           /\ Verdict(g, c, n, o, v) => Verdict(f, b, n, o, v)
  <1> DEFINE old == f[n].ops[o].told
             new == g[n].ops[o].told
             q == b[n]
  <1>1. q \in Seq(Message)
    BY Zenon
  <1>2. "nothing" \notin {"ok", "failure"} /\ \A h : Says(h) \in {"ok", "failure"}
    BY Zenon DEF Says
  <1>3. /\ Verdict(f, b, n, o, v) => old = v \/ (old = "nothing" /\ FirstSays(q, o, v))
        /\ old = v \/ (old = "nothing" /\ FirstSays(q, o, v)) => Verdict(f, b, n, o, v)
        /\ Verdict(g, c, n, o, v) => new = v \/ (new = "nothing" /\ FirstSays(c[n], o, v))
        /\ new = v \/ (new = "nothing" /\ FirstSays(c[n], o, v)) => Verdict(g, c, n, o, v)
    BY <1>1, Zenon DEF Verdict
  <1>4. \/ new = old /\ \A h \in H : Announces(h, o) => old # "nothing"
        \/ old = "nothing" /\ \E h \in H : Announces(h, o) /\ new = Says(h)
    BY Zenon DEF Tells
  <1>5. \/ c = b /\ H = {}
        \/ q # <<>> /\ c[n] = Tail(q) /\ H = {Head(q)}
    BY Zenon DEF Takes
  <1> HIDE DEF old, new
  <1>6. CASE new = old /\ old # "nothing"
    BY <1>3, <1>6, Zenon
  <1>7. CASE new = old /\ old = "nothing" /\ \A h \in H : ~Announces(h, o)
    <2>1. CASE c = b
      BY <1>3, <1>7, <2>1, Zenon
    <2>2. CASE q # <<>> /\ c[n] = Tail(q) /\ H = {Head(q)}
      <3>1. ~Announces(Head(q), o)
        BY <1>7, <2>2, Zenon
      <3>2. /\ FirstSays(q, o, v) => FirstSays(Tail(q), o, v)
            /\ FirstSays(Tail(q), o, v) => FirstSays(q, o, v)
        BY <1>1, <2>2, <3>1, FirstSaysTail, Zenon
      <3> HIDE DEF q
      <3> QED
        BY <1>3, <1>7, <2>2, <3>2, Zenon
    <2> QED
      BY <1>5, <2>1, <2>2, Zenon
  <1>8. CASE old = "nothing" /\ \E h \in H : Announces(h, o) /\ new = Says(h)
    <2>1. q # <<>> /\ H = {Head(q)}
      BY <1>5, <1>8, Zenon
    <2>2. Announces(Head(q), o) /\ new = Says(Head(q))
      BY <1>8, <2>1, Zenon
    <2>3. FirstSays(q, o, new)
      BY <1>1, <2>1, <2>2, FirstSaysHead, Zenon
    <2>4. FirstSays(q, o, v) => v = new
      BY <1>1, <2>3, FirstSaysUnique, Zenon
    <2> HIDE DEF q
    <2> QED
      BY <1>2, <1>3, <1>8, <2>2, <2>3, <2>4, Zenon
  <1> QED
    BY <1>4, <1>6, <1>7, <1>8, Zenon

LEMMA MergedGrows ==
    ASSUME NEW s, NEW t, Grows(s, t), NEW o, Merged(s, o)
    PROVE  Merged(t, o)
  <1>1. \A p \in Known(s) : p \in Op /\ p \in Known(t)
    BY Zenon DEF Grows, Known
  <1> QED
    BY <1>1, Zenon DEF Merged, Grows

(* The step of a daemon that runs *)
LEMMA AgreedUpdate ==
    ASSUME NEW f \in [Node -> Process], NEW b \in [Node -> Seq(Message)], NEW L,
           Agreed(f, b, L), NEW n \in Node, n \in L,
           NEW t, NEW c, NEW H, Takes(b, c, n, H), Tells(f[n], t, H), Grows(f[n], t)
    PROVE  Agreed([f EXCEPT ![n] = t], c, L)
  <1> DEFINE g == [f EXCEPT ![n] = t]
  <1>1. g[n] = t /\ \A x \in Node \ {n} : g[x] = f[x] /\ c[x] = b[x]
    <2>1. g[n] = t /\ \A x \in Node \ {n} : g[x] = f[x]
      BY Zenon
    <2>2. \A x \in Node \ {n} : c[x] = b[x]
      BY Zenon DEF Takes
    <2> HIDE DEF g
    <2> QED
      BY <2>1, <2>2, Zenon
  <1>2. ASSUME NEW o \in Op, NEW x \in Node, ~Merged(g[x], o), NEW v \in {"ok", "failure"}
        PROVE  /\ ~Merged(f[x], o)
               /\ Verdict(f, b, x, o, v) => Verdict(g, c, x, o, v)
               /\ Verdict(g, c, x, o, v) => Verdict(f, b, x, o, v)
    <2>1. CASE x = n
      <3>1. ~Merged(t, o)
        BY <1>1, <1>2, <2>1, Zenon
      <3>2. ~Merged(f[n], o)
        BY <3>1, MergedGrows, Zenon
      <3>3. /\ Verdict(f, b, n, o, v) => Verdict(g, c, n, o, v)
            /\ Verdict(g, c, n, o, v) => Verdict(f, b, n, o, v)
        <4>1. Tells(f[n], g[n], H) /\ ~Merged(g[n], o) /\ v # "nothing"
          BY <1>1, <3>1, Zenon
        <4> HIDE DEF g
        <4> QED
          BY <4>1, VerdictKept, Zenon
      <3> HIDE DEF g
      <3> QED
        BY <2>1, <3>2, <3>3, Zenon
    <2>2. CASE x # n
      <3>1. g[x] = f[x] /\ c[x] = b[x]
        BY <1>1, <2>2, Zenon
      <3> HIDE DEF g
      <3> QED
        BY <1>2, <3>1, Zenon DEF Verdict
    <2> QED
      BY <2>1, <2>2, Zenon
  <1> HIDE DEF g
  <1>3. ASSUME NEW o \in Op, NEW x \in Node, NEW y \in Node, NEW v \in {"ok", "failure"},
               ~Merged(g[x], o), ~Merged(g[y], o)
        PROVE  /\ y \in L /\ Verdict(g, c, x, o, v) => Verdict(g, c, y, o, v)
               /\ g[x].ops[o].told = v => g[y].ops[o].told \in {"nothing", v}
    <2>1. ASSUME NEW p \in Node, NEW q \in Node, NEW w \in {"ok", "failure"},
                 ~Merged(g[p], o), ~Merged(g[q], o), q \in L, Verdict(f, b, p, o, w)
          PROVE  Verdict(f, b, q, o, w)
      <3>1. ~Merged(f[p], o) /\ ~Merged(f[q], o)
        BY <1>2, <2>1, Zenon
      <3> QED
        BY <2>1, <3>1 DEF Agreed
    <2>2. y \in L /\ Verdict(g, c, x, o, v) => Verdict(g, c, y, o, v)
      BY <1>2, <1>3, <2>1, Zenon
    <2>3. ASSUME g[x].ops[o].told = v, g[y].ops[o].told \notin {"nothing", v}
          PROVE  FALSE
      <3> DEFINE w == g[y].ops[o].told
      <3>1. w \in {"ok", "failure"} /\ w # v
        <4>1. y = n \/ g[y] = f[y]
          BY <1>1, Zenon
        <4>2. CASE y = n
          <5>1. g[y] = t
            BY <1>1, <4>2, Zenon
          <5>2. ~Merged(t, o)
            BY <1>3, <5>1, Zenon
          <5>3. t.ops[o].told \in {f[n].ops[o].told, "ok", "failure"}
            BY <5>2, Zenon DEF Tells, Says
          <5>4. f[n].ops[o].told \in {"nothing", "ok", "failure"}
            BY ToldType, Zenon
          <5> QED
            BY <2>3, <5>1, <5>3, <5>4, Zenon
        <4>3. CASE g[y] = f[y]
          <5>1. f[y].ops[o].told \in {"nothing", "ok", "failure"}
            BY ToldType, Zenon
          <5> QED
            BY <2>3, <4>3, <5>1, Zenon
        <4> QED
          BY <4>1, <4>2, <4>3, Zenon
      <3>2. Verdict(g, c, x, o, v) /\ Verdict(g, c, y, o, w)
        BY <2>3, Zenon DEF Verdict
      <3>3. Verdict(f, b, x, o, v) /\ Verdict(f, b, y, o, w)
        BY <1>2, <1>3, <3>1, <3>2, Zenon
      <3> HIDE DEF w
      <3>4. x \notin L
        BY <1>3, <2>1, <3>1, <3>3, VerdictUnique, Zenon
      <3>5. y \notin L
        BY <1>3, <2>1, <3>1, <3>3, VerdictUnique, Zenon
      <3>6. g[x] = f[x] /\ g[y] = f[y]
        BY <1>1, <3>4, <3>5, Zenon
      <3>7. ~Merged(f[x], o) /\ ~Merged(f[y], o)
        BY <1>3, <3>6, Zenon
      <3>8. f[y].ops[o].told \in {"nothing", v}
        BY <2>3, <3>6, <3>7, Zenon DEF Agreed
      <3> QED
        BY <2>3, <3>6, <3>8, Zenon
    <2> QED
      BY <2>2, <2>3, Zenon
  <1>4. Agreed(g, c, L)
    BY <1>3, Zenon DEF Agreed
  <1> QED
    BY <1>4 DEF g

(* A message is sent, or a daemon dies. *)
LEMMA AgreedMail ==
    ASSUME Counting, NEW f \in [Node -> Process], NEW b \in [Node -> Seq(Message)], NEW L,
           Agreed(f, b, L), NEW M \in SUBSET L,
           NEW to, NEW m \in Message, m.type = "broadcast" => to = Node
    PROVE  Agreed(f, Mailed(b, M, to, m), M)
  <1> DEFINE c == Mailed(b, M, to, m)
  <1>1. \A x \in Node : c[x] = IF x \in M THEN IF x \in to THEN Append(b[x], m) ELSE b[x]
                                ELSE <<>>
    BY Zenon DEF Mailed
  <1>2. \A x \in Node : b[x] \in Seq(Message)
    BY Zenon
  <1> HIDE DEF c
  <1>3. ASSUME NEW x \in Node, NEW o \in Op, NEW v, Verdict(f, c, x, o, v)
        PROVE  \/ Verdict(f, b, x, o, v)
               \/ /\ x \in M /\ Announces(m, o) /\ Says(m) = v
                  /\ f[x].ops[o].told = "nothing" /\ \A w : ~FirstSays(b[x], o, w)
    <2>1. CASE f[x].ops[o].told = v
      BY <2>1, Zenon DEF Verdict
    <2>2. CASE f[x].ops[o].told = "nothing" /\ FirstSays(c[x], o, v)
      <3>1. x \in M
        <4>1. ~FirstSays(<<>>, o, v)
          <5>1. 1..Len(<<>>) = {}
            OBVIOUS
          <5> QED
            BY <5>1, Zenon DEF FirstSays
        <4> QED
          BY <1>1, <2>2, <4>1, Zenon
      <3>2. CASE x \in to
        <4>1. FirstSays(Append(b[x], m), o, v)
          BY <1>1, <2>2, <3>1, <3>2, Zenon
        <4>2. \/ FirstSays(b[x], o, v)
              \/ Announces(m, o) /\ Says(m) = v /\ \A w : ~FirstSays(b[x], o, w)
          BY <1>2, <4>1, FirstSaysAppend, Zenon
        <4> QED
          BY <2>2, <3>1, <4>2, Zenon DEF Verdict
      <3>3. CASE x \notin to
        BY <1>1, <2>2, <3>1, <3>3, Zenon DEF Verdict
      <3> QED
        BY <3>2, <3>3, Zenon
    <2> QED
      BY <1>3, <2>1, <2>2, Zenon DEF Verdict
  <1>4. ASSUME NEW x \in Node, x \in M, NEW o \in Op, NEW v, Verdict(f, b, x, o, v)
        PROVE  Verdict(f, c, x, o, v)
    <2>1. FirstSays(b[x], o, v) => FirstSays(Append(b[x], m), o, v)
      BY <1>2, FirstSaysAppend, Zenon
    <2>2. FirstSays(b[x], o, v) => FirstSays(c[x], o, v)
      BY <1>1, <1>4, <2>1, Zenon
    <2> QED
      BY <1>4, <2>2, Zenon DEF Verdict
  <1>5. ASSUME NEW o \in Op, NEW x \in Node, NEW y \in Node, NEW v \in {"ok", "failure"},
               ~Merged(f[x], o), ~Merged(f[y], o), y \in M, Verdict(f, c, x, o, v)
        PROVE  Verdict(f, c, y, o, v)
    <2>1. CASE Verdict(f, b, x, o, v)
      <3>1. Verdict(f, b, y, o, v)
        BY <1>5, <2>1 DEF Agreed
      <3> QED
        BY <1>4, <1>5, <3>1, Zenon
    <2>2. CASE /\ x \in M /\ Announces(m, o) /\ Says(m) = v
               /\ f[x].ops[o].told = "nothing" /\ \A w : ~FirstSays(b[x], o, w)
      <3>1. \A w \in {"ok", "failure"} : ~Verdict(f, b, x, o, w)
        BY <2>2, Zenon DEF Verdict
      <3>2. \A w \in {"ok", "failure"} : ~Verdict(f, b, y, o, w)
        BY <1>5, <2>2, <3>1 DEF Agreed
      <3>3. f[y].ops[o].told = "nothing"
        <4>1. f[y].ops[o].told \in {"nothing", "ok", "failure"}
          BY ToldType, Zenon
        <4> QED
          BY <3>2, <4>1, Zenon DEF Verdict
      <3>4. \A w \in {"ok", "failure"} : ~FirstSays(b[y], o, w)
        BY <3>2, <3>3, Zenon DEF Verdict
      <3>5. FirstSays(Append(b[y], m), o, Says(m))
        <4>1. Announces(m, o) => FirstSays(Append(b[y], m), o, Says(m))
                                 \/ \E w \in {"ok", "failure"} : FirstSays(b[y], o, w)
          BY <1>2, FirstSaysAppend, Zenon
        <4> QED
          BY <2>2, <3>4, <4>1, Zenon
      <3>6. c[y] = Append(b[y], m)
        BY <1>1, <1>5, <2>2, Zenon DEF Announces
      <3> QED
        BY <2>2, <3>3, <3>5, <3>6, Zenon DEF Verdict
    <2> QED
      BY <1>3, <1>5, <2>1, <2>2, Zenon
  <1>6. Agreed(f, c, M)
    BY <1>5 DEF Agreed
  <1> QED
    BY <1>6 DEF c

-----------------------------------------------------------------------------
(* The other conjuncts of the invariant *)

(* Daemon n goes from f[n] to g[n] and takes the messages in H. *)
Step(f, b, g, c, n, H) ==
  /\ \A x \in Node \ {n} : g[x] = f[x]
  /\ Takes(b, c, n, H) /\ Grows(f[n], g[n])
  /\ g[n].work \subseteq f[n].work \cup H
  /\ \A h \in H : h.type = "query" => h.op \in Known(g[n])

LEMMA StepFacts ==
    ASSUME NEW f, NEW b \in [Node -> Seq(Message)], NEW g, NEW c, NEW n \in Node, NEW H,
           Step(f, b, g, c, n, H)
    PROVE  /\ c \in [Node -> Seq(Message)]
           /\ \A x \in Node : Known(f[x]) \subseteq Known(g[x])
           /\ \A o : Rooted(f, o) /\ conf.at[o] \in Node => Rooted(g, o)
  <1>1. c \in [Node -> Seq(Message)]
    BY TakesFacts, Zenon DEF Step
  <1>2. ASSUME NEW x \in Node
        PROVE  Known(f[x]) \subseteq Known(g[x])
    <2>1. CASE x = n
      BY <2>1, Zenon DEF Step, Grows
    <2>2. CASE x # n
      <3>1. g[x] = f[x]
        BY <2>2, Zenon DEF Step
      <3> QED
        BY <3>1, Zenon
    <2> QED
      BY <2>1, <2>2, Zenon
  <1> QED
    BY <1>1, <1>2, Zenon DEF Rooted

LEMMA PendingStep ==
    ASSUME NEW f, NEW b \in [Node -> Seq(Message)], NEW g, NEW c, NEW n \in Node, NEW H,
           Step(f, b, g, c, n, H),
           NEW M, NEW to, NEW m \in Message, NEW x \in Node
    PROVE  Pending(g, Mailed(c, M, to, m), x)
             \subseteq Pending(f, b, x) \cup {k \in {m} : to # {}}
  <1> DEFINE d == Mailed(c, M, to, m)
  <1>0. Takes(b, c, n, H)
    BY Zenon DEF Step
  <1>1. /\ c \in [Node -> Seq(Message)] /\ \A y \in Node \ {n} : c[y] = b[y]
        /\ Elems(c[n]) \subseteq Elems(b[n]) /\ H \subseteq Elems(b[n])
    BY <1>0, TakesFacts, Zenon
  <1>2. Elems(d[x]) \subseteq Elems(c[x]) \cup {k \in {m} : to # {}}
    BY <1>1, MailedElems, Zenon
  <1> HIDE DEF d
  <1>3. Elems(c[x]) \subseteq Elems(b[x])
    <2>1. CASE x = n
      BY <1>1, <2>1, Zenon
    <2>2. CASE x # n
      <3>1. c[x] = b[x]
        BY <1>1, <2>2, Zenon
      <3> QED
        BY <3>1, Zenon
    <2> QED
      BY <2>1, <2>2, Zenon
  <1>4. g[x].work \subseteq f[x].work \cup Elems(b[x])
    <2>1. CASE x = n
      BY <1>1, <2>1, Zenon DEF Step
    <2>2. CASE x # n
      BY <2>2, Zenon DEF Step
    <2> QED
      BY <2>1, <2>2, Zenon
  <1>5. Pending(g, d, x) \subseteq Pending(f, b, x) \cup {k \in {m} : to # {}}
    BY <1>2, <1>3, <1>4, Zenon DEF Pending
  <1> QED
    BY <1>5 DEF d

(* Each part of the invariant across a step, one after the other *)
LEMMA OriginatedStep ==
    ASSUME conf \in Config,
           NEW f, NEW b \in [Node -> Seq(Message)], NEW g, NEW c, NEW n \in Node, NEW H,
           Step(f, b, g, c, n, H),
           NEW M, NEW to, NEW m \in Message, Originated(f, b),
           \A o \in Known(g[n]) \ Known(f[n]) : Rooted(f, o) \/ Owner(n, o),
           m.type # "left" /\ to # {} => Rooted(g, m.op)
    PROVE  Originated(g, Mailed(c, M, to, m))
  <1>1. \A x \in Node : Known(f[x]) \subseteq Known(g[x])
    BY StepFacts, Zenon
  <1>2. ASSUME NEW o, Rooted(f, o)
        PROVE  Rooted(g, o)
    <2>1. o \in Requested /\ conf.at[o] \in Node
      BY <1>2, RequestedType, Zenon DEF Rooted
    <2> QED
      BY <1>1, <1>2, <2>1, Zenon DEF Rooted
  <1>3. ASSUME NEW x \in Node, NEW o \in Known(g[x])
        PROVE  Rooted(g, o)
    <2>1. CASE o \in Known(f[x])
      BY <1>2, <2>1, Zenon DEF Originated
    <2>2. CASE o \notin Known(f[x])
      <3>1. x = n
        BY <1>3, <2>2, Zenon DEF Step
      <3>2. Rooted(f, o) \/ Owner(n, o)
        BY <1>3, <2>2, <3>1, Zenon
      <3> QED
        BY <1>2, <1>3, <3>1, <3>2, Zenon DEF Owner, Rooted
    <2> QED
      BY <2>1, <2>2, Zenon
  <1>4. ASSUME NEW x \in Node, NEW k \in Pending(g, Mailed(c, M, to, m), x), k.type # "left"
        PROVE  Rooted(g, k.op)
    <2>1. k \in Pending(f, b, x) \/ (k = m /\ to # {})
      <3>1. Pending(g, Mailed(c, M, to, m), x) \subseteq Pending(f, b, x) \cup {l \in {m} : to # {}}
        BY PendingStep, Zenon
      <3> QED
        BY <1>4, <3>1, Zenon
    <2>2. CASE k \in Pending(f, b, x)
      BY <1>2, <1>4, <2>2, Zenon DEF Originated
    <2>3. CASE k = m /\ to # {}
      BY <1>4, <2>3, Zenon
    <2> QED
      BY <2>1, <2>2, <2>3, Zenon
  <1>5. ASSUME NEW x \in Node, NEW p \in Op, NEW o \in g[x].ops[p].duplicates
        PROVE  {o, p} \subseteq Known(g[x])
    <2>1. CASE o \in f[x].ops[p].duplicates
      <3>1. {o, p} \subseteq Known(f[x])
        BY <2>1, Zenon DEF Originated
      <3> QED
        BY <1>1, <3>1, Zenon
    <2>2. CASE o \notin f[x].ops[p].duplicates
      <3>1. x = n
        BY <1>5, <2>2, Zenon DEF Step
      <3> QED
        BY <1>5, <2>2, <3>1, Zenon DEF Step, Grows
    <2> QED
      BY <2>1, <2>2, Zenon
  <1> QED
    BY <1>3, <1>4, <1>5, Zenon DEF Originated

(* Daemon n goes to state t, and the daemons to g, when the operations in  *)
(* E have got the target without power.                                    *)
Proves(f, F, n, t, g, to, m, E) ==
  /\ F \subseteq E
  /\ \A p \in F : \A o \in t.ops[p].duplicates :
       Owner(n, o) /\ o \notin f[n].ops[p].duplicates => o \in E
  /\ \A o \in Op : t.ops[o].told = "ok" =>
       f[n].ops[o].told = "ok" \/ IF Owner(n, o) THEN o \in E ELSE E # {}
  /\ to # {} => Honest(m, Sound(g, E))

(* Successes that are on their way stay sound. *)
LEMMA TruthfulStep ==
    ASSUME conf \in Config,
           NEW f, NEW b \in [Node -> Seq(Message)], NEW g, NEW c, NEW n \in Node, NEW H,
           Step(f, b, g, c, n, H),
           NEW M, NEW to, NEW m \in Message,
           NEW F, NEW E, Truthful(f, b, F), E \in SUBSET Op,
           Proves(f, F, n, g[n], g, to, m, E)
    PROVE  Truthful(g, Mailed(c, M, to, m), E)
  <1>0. /\ \A p \in F : \A o \in g[n].ops[p].duplicates :
             Owner(n, o) /\ o \notin f[n].ops[p].duplicates => o \in E
        /\ \A o \in Op : g[n].ops[o].told = "ok" =>
             f[n].ops[o].told = "ok" \/ IF Owner(n, o) THEN o \in E ELSE E # {}
        /\ F \subseteq E /\ (to # {} => Honest(m, Sound(g, E)))
    BY Zenon DEF Proves
  <1>1. Sound(f, F) \subseteq Sound(g, E)
    <2>1. SUFFICES ASSUME NEW o \in Sound(f, F)
                   PROVE  o \in Sound(g, E)
      BY Zenon
    <2>2. /\ o \in F /\ o \in E /\ o \in Op
          /\ \A p \in Requested : p \in f[conf.at[p]].ops[o].duplicates => p \in F
      BY <1>0, <2>1, Zenon DEF Sound
    <2>3. ASSUME NEW p \in Requested, p \in g[conf.at[p]].ops[o].duplicates
          PROVE  p \in E
      <3>1. conf.at[p] \in Node
        BY RequestedType, Zenon
      <3>2. CASE p \in f[conf.at[p]].ops[o].duplicates
        BY <1>0, <2>2, <3>2, Zenon
      <3>3. CASE p \notin f[conf.at[p]].ops[o].duplicates
        <4>1. conf.at[p] = n
          BY <2>3, <3>1, <3>3, Zenon DEF Step
        <4>2. Owner(n, p)
          BY <4>1, Zenon DEF Owner
        <4> QED
          BY <1>0, <2>2, <2>3, <3>3, <4>1, <4>2, Zenon
      <3> QED
        BY <3>2, <3>3, Zenon
    <2> QED
      BY <2>2, <2>3, Zenon DEF Sound
  <1>2. ASSUME NEW x \in Node, NEW k \in Pending(g, Mailed(c, M, to, m), x)
        PROVE  Honest(k, Sound(g, E))
    <2>1. k \in Pending(f, b, x) \/ (k = m /\ to # {})
      <3>1. Pending(g, Mailed(c, M, to, m), x) \subseteq Pending(f, b, x) \cup {l \in {m} : to # {}}
        BY PendingStep, Zenon
      <3> QED
        BY <1>2, <3>1, Zenon
    <2>2. CASE k \in Pending(f, b, x)
      <3>1. Honest(k, Sound(f, F))
        BY <2>2, Zenon DEF Truthful
      <3> QED
        BY <1>1, <3>1, Zenon DEF Honest
    <2>3. CASE k = m /\ to # {}
      BY <1>0, <2>3, Zenon
    <2> QED
      BY <2>1, <2>2, <2>3, Zenon
  <1>3. ASSUME NEW x \in Node, NEW o \in Op, g[x].ops[o].told = "ok"
        PROVE  IF Owner(x, o) THEN o \in E ELSE E # {}
    <2>1. CASE f[x].ops[o].told = "ok"
      <3>1. IF Owner(x, o) THEN o \in F ELSE F # {}
        BY <2>1, Zenon DEF Truthful
      <3> QED
        BY <1>0, <3>1, Zenon
    <2>2. CASE f[x].ops[o].told # "ok"
      <3>1. x = n
        BY <1>3, <2>2, Zenon DEF Step
      <3> QED
        BY <1>0, <1>3, <2>2, <3>1, Zenon
    <2> QED
      BY <2>1, <2>2, Zenon
  <1> QED
    BY <1>2, <1>3, Zenon DEF Truthful

(* Daemons that know of an operation or are about to be queried *)
LEMMA QueriedStep ==
    ASSUME NEW f, NEW b \in [Node -> Seq(Message)], NEW g, NEW c, NEW n \in Node, NEW H,
           Step(f, b, g, c, n, H),
           NEW L \in SUBSET Node, NEW o, Queried(f, b, L, o)
    PROVE  Queried(g, c, L, o)
  <1>1. Takes(b, c, n, H)
    BY Zenon DEF Step
  <1>2. /\ \A x \in Node \ {n} : c[x] = b[x]
        /\ Elems(b[n]) \subseteq Elems(c[n]) \cup H
    <2>1. \A x \in Node \ {n} : c[x] = b[x]
      BY <1>1, Zenon DEF Takes
    <2>2. Elems(b[n]) \subseteq Elems(c[n]) \cup H
      BY <1>1, TakesFacts
    <2> QED
      BY <2>1, <2>2, Zenon
  <1>3. \A x \in Node : Known(f[x]) \subseteq Known(g[x])
    BY StepFacts, Zenon
  <1>4. QueryMsg(o).type = "query" /\ QueryMsg(o).op = o
    BY Zenon DEF QueryMsg
  <1>5. ASSUME NEW x \in L
        PROVE  o \in Known(g[x]) \/ QueryMsg(o) \in Elems(c[x])
    <2>1. CASE o \in Known(f[x])
      BY <1>3, <2>1, Zenon
    <2>2. CASE o \notin Known(f[x])
      <3>1. QueryMsg(o) \in Elems(b[x])
        BY <2>2, Zenon DEF Queried
      <3>2. CASE x = n
        <4>1. CASE QueryMsg(o) \in H
          BY <1>4, <3>2, <4>1, Zenon DEF Step
        <4>2. CASE QueryMsg(o) \notin H
          BY <1>2, <3>1, <3>2, <4>2, Zenon
        <4> QED
          BY <4>1, <4>2, Zenon
      <3>3. CASE x # n
        <4>1. c[x] = b[x]
          BY <1>2, <3>3, Zenon
        <4> QED
          BY <3>1, <4>1, Zenon
      <3> QED
        BY <3>2, <3>3, Zenon
    <2> QED
      BY <2>1, <2>2, Zenon
  <1> QED
    BY <1>5, Zenon DEF Queried

LEMMA QueriedMail ==
    ASSUME NEW g, NEW c \in [Node -> Seq(Message)], NEW L \in SUBSET Node,
           NEW M \in SUBSET L, NEW to, NEW m \in Message, NEW o,
           Queried(g, c, L, o) \/ (m = QueryMsg(o) /\ to = Node)
    PROVE  Queried(g, Mailed(c, M, to, m), M, o)
  <1>1. ASSUME NEW x \in M
        PROVE  o \in Known(g[x]) \/ QueryMsg(o) \in Elems(Mailed(c, M, to, m)[x])
    <2>1. /\ Elems(c[x]) \subseteq Elems(Mailed(c, M, to, m)[x])
          /\ x \in to => m \in Elems(Mailed(c, M, to, m)[x])
      BY MailedElems, Zenon
    <2>2. CASE Queried(g, c, L, o)
      BY <2>1, <2>2, Zenon DEF Queried
    <2>3. CASE m = QueryMsg(o) /\ to = Node
      BY <2>1, <2>3, Zenon
    <2> QED
      BY <2>2, <2>3, Zenon
  <1> QED
    BY <1>1, Zenon DEF Queried

(* A daemon with operations t sends m only about operations it has queried *)
(* all daemons for, and sets timers only for such operations.              *)
Asks(f, b, L, n, t, to, m) ==
  /\ \A o \in Op : Timed(t.ops[o]) =>
       Timed(f[n].ops[o]) \/ Queried(f, b, L, o) \/ (m = QueryMsg(o) /\ to = Node)
  /\ to # {} /\ m.type \notin {"left", "broadcast"} =>
       Queried(f, b, L, m.op) \/ (m = QueryMsg(m.op) /\ to = Node)

LEMMA QueriedFirstStep ==
    ASSUME NEW f, NEW b \in [Node -> Seq(Message)], NEW g, NEW c, NEW n \in Node, NEW H,
           Step(f, b, g, c, n, H),
           NEW L \in SUBSET Node, NEW M \in SUBSET L, NEW to, NEW m \in Message,
           QueriedFirst(f, b, L), Asks(f, b, L, n, g[n], to, m)
    PROVE  QueriedFirst(g, Mailed(c, M, to, m), M)
  <1>1. c \in [Node -> Seq(Message)]
    BY StepFacts, Zenon
  <1>2. ASSUME NEW o, Queried(f, b, L, o) \/ (m = QueryMsg(o) /\ to = Node)
        PROVE  Queried(g, Mailed(c, M, to, m), M, o)
    <2>1. Queried(g, c, L, o) \/ (m = QueryMsg(o) /\ to = Node)
      BY <1>2, QueriedStep, Zenon
    <2> QED
      BY <1>1, <2>1, QueriedMail, Zenon
  <1>3. ASSUME NEW x \in Node, NEW o \in Op, Timed(g[x].ops[o])
        PROVE  Queried(g, Mailed(c, M, to, m), M, o)
    <2>1. Timed(f[x].ops[o]) \/ Queried(f, b, L, o) \/ (m = QueryMsg(o) /\ to = Node)
      <3>1. CASE x = n
        BY <1>3, <3>1, Zenon DEF Asks
      <3>2. CASE x # n
        <4>1. g[x] = f[x]
          BY <3>2, Zenon DEF Step
        <4> QED
          BY <1>3, <4>1, Zenon
      <3> QED
        BY <3>1, <3>2, Zenon
    <2> QED
      BY <1>2, <2>1, Zenon DEF QueriedFirst
  <1>4. ASSUME NEW x \in Node, NEW k \in Pending(g, Mailed(c, M, to, m), x),
               k.type \notin {"left", "broadcast"}
        PROVE  Queried(g, Mailed(c, M, to, m), M, k.op)
    <2>1. Pending(g, Mailed(c, M, to, m), x) \subseteq Pending(f, b, x) \cup {l \in {m} : to # {}}
      BY PendingStep, Zenon
    <2>2. CASE k \in Pending(f, b, x)
      BY <1>2, <1>4, <2>2, Zenon DEF QueriedFirst
    <2>3. CASE k = m /\ to # {}
      BY <1>2, <1>4, <2>3, Zenon DEF Asks
    <2> QED
      BY <1>4, <2>1, <2>2, <2>3, Zenon
  <1> QED
    BY <1>3, <1>4, Zenon DEF QueriedFirst

(* Queries come before announcements of failures. *)
LEMMA PreparedTail ==
    ASSUME NEW q \in Seq(Message), q # <<>>, NEW K, PreparedBy(q, K), NEW J, K \subseteq J,
           Head(q).type = "query" => Head(q).op \in J
    PROVE  PreparedBy(Tail(q), J)
  <1>1. /\ Len(q) \in Nat \ {0} /\ Len(Tail(q)) = Len(q) - 1
        /\ \A i \in 1..(Len(q) - 1) : Tail(q)[i] = q[i + 1]
        /\ Head(q) = q[1]
    OBVIOUS
  <1>2. \A o : QueryMsg(o).type = "query" /\ QueryMsg(o).op = o
    BY Zenon DEF QueryMsg
  <1>3. ASSUME NEW i \in 1..Len(Tail(q)), Failure(Tail(q)[i])
        PROVE  \/ Tail(q)[i].op \in J
               \/ \E j \in 1..(i - 1) : Tail(q)[j] = QueryMsg(Tail(q)[i].op)
    <2>1. /\ i + 1 \in 1..Len(q) /\ Tail(q)[i] = q[i + 1]
          /\ \A j \in 1..((i + 1) - 1) : j = 1 \/ (j - 1 \in 1..(i - 1) /\ Tail(q)[j - 1] = q[j])
      BY <1>1, <1>3
    <2>2. CASE q[i + 1].op \in K
      BY <2>1, <2>2, Zenon
    <2>3. CASE q[i + 1].op \notin K
      <3>1. PICK j \in 1..((i + 1) - 1) : q[j] = QueryMsg(q[i + 1].op)
        BY <1>3, <2>1, <2>3, Zenon DEF PreparedBy
      <3>2. CASE j = 1
        <4>1. Head(q) = QueryMsg(q[i + 1].op)
          BY <1>1, <3>1, <3>2, Zenon
        <4>2. Head(q).type = "query" /\ Head(q).op = q[i + 1].op
          BY <1>2, <4>1, Zenon
        <4> QED
          BY <2>1, <4>2, Zenon
      <3>3. CASE j # 1
        BY <2>1, <3>1, <3>3, Zenon
      <3> QED
        BY <3>2, <3>3, Zenon
    <2> QED
      BY <2>2, <2>3, Zenon
  <1> QED
    BY <1>3, Zenon DEF PreparedBy

LEMMA PreparedAppend ==
    ASSUME NEW q \in Seq(Message), NEW m \in Message, NEW K, PreparedBy(q, K),
           Failure(m) => m.op \in K \/ QueryMsg(m.op) \in Elems(q)
    PROVE  PreparedBy(Append(q, m), K)
  <1> DEFINE a == Append(q, m)
             k == Len(q) + 1
  <1>1. /\ Len(q) \in Nat /\ Len(a) = k /\ a[k] = m
        /\ \A i \in 1..Len(q) : a[i] = q[i] /\ i \in 1..(k - 1)
        /\ \A i \in 1..k : i = k \/ i \in 1..Len(q)
        /\ \A i \in 1..Len(q) : \A j \in 1..(i - 1) : a[j] = q[j]
    OBVIOUS
  <1> HIDE DEF a, k
  <1>2. ASSUME NEW i \in 1..Len(a), Failure(a[i])
        PROVE  a[i].op \in K \/ \E j \in 1..(i - 1) : a[j] = QueryMsg(a[i].op)
    <2>1. CASE i = k
      <3>1. CASE m.op \in K
        BY <1>1, <2>1, <3>1, Zenon
      <3>2. CASE m.op \notin K
        <4>1. PICK j \in 1..Len(q) : q[j] = QueryMsg(m.op)
          BY <1>1, <1>2, <2>1, <3>2, Zenon DEF Elems
        <4> QED
          BY <1>1, <2>1, <4>1, Zenon
      <3> QED
        BY <3>1, <3>2, Zenon
    <2>2. CASE i \in 1..Len(q)
      <3>1. Failure(q[i]) /\ a[i] = q[i]
        BY <1>1, <1>2, <2>2, Zenon
      <3>2. q[i].op \in K \/ \E j \in 1..(i - 1) : q[j] = QueryMsg(q[i].op)
        BY <2>2, <3>1, Zenon DEF PreparedBy
      <3> QED
        BY <1>1, <2>2, <3>1, <3>2, Zenon
    <2> QED
      BY <1>1, <1>2, <2>1, <2>2, Zenon
  <1>3. PreparedBy(a, K)
    BY <1>2, Zenon DEF PreparedBy
  <1> QED
    BY <1>3, Zenon DEF a

LEMMA PreparedStep ==
    ASSUME NEW f, NEW b \in [Node -> Seq(Message)], NEW g, NEW c, NEW n \in Node, NEW H,
           Step(f, b, g, c, n, H),
           NEW L \in SUBSET Node, Prepared(f, b, L)
    PROVE  Prepared(g, c, L)
  <1>1. Takes(b, c, n, H)
    BY Zenon DEF Step
  <1>2. \A x \in Node : Known(f[x]) \subseteq Known(g[x])
    BY StepFacts, Zenon
  <1>3. ASSUME NEW q, NEW K, NEW J, K \subseteq J, PreparedBy(q, K)
        PROVE  PreparedBy(q, J)
    BY <1>3, Zenon DEF PreparedBy
  <1>4. ASSUME NEW x \in L
        PROVE  PreparedBy(c[x], Known(g[x]))
    <2>1. PreparedBy(b[x], Known(f[x])) /\ Known(f[x]) \subseteq Known(g[x])
      BY <1>2, Zenon DEF Prepared
    <2>2. CASE c[x] = b[x]
      BY <1>3, <2>1, <2>2, Zenon
    <2>3. CASE /\ x = n /\ b[n] # <<>>
               /\ c = [b EXCEPT ![n] = Tail(b[n])] /\ H = {Head(b[n])}
      <3>1. /\ b[n] \in Seq(Message) /\ c[n] = Tail(b[n])
            /\ Head(b[n]).type = "query" => Head(b[n]).op \in Known(g[n])
        BY <2>3, Zenon DEF Step
      <3>2. PreparedBy(b[n], Known(f[n])) /\ Known(f[n]) \subseteq Known(g[n])
        BY <2>1, <2>3, Zenon
      <3>3. PreparedBy(Tail(b[n]), Known(g[n]))
        BY <2>3, <3>1, <3>2, PreparedTail, Zenon
      <3> QED
        BY <2>3, <3>1, <3>3, Zenon
    <2> QED
      BY <1>1, <2>2, <2>3, Zenon DEF Takes
  <1> QED
    BY <1>4, Zenon DEF Prepared

LEMMA PreparedMail ==
    ASSUME NEW g, NEW c \in [Node -> Seq(Message)], NEW L \in SUBSET Node,
           NEW M \in SUBSET L, NEW to, NEW m \in Message, Prepared(g, c, L),
           to # {} /\ Failure(m) => Queried(g, c, L, m.op)
    PROVE  Prepared(g, Mailed(c, M, to, m), M)
  <1>1. ASSUME NEW x \in M
        PROVE  PreparedBy(Mailed(c, M, to, m)[x], Known(g[x]))
    <2>1. c[x] \in Seq(Message) /\ PreparedBy(c[x], Known(g[x]))
      BY Zenon DEF Prepared
    <2>2. Mailed(c, M, to, m)[x] = IF x \in to THEN Append(c[x], m) ELSE c[x]
      BY Zenon DEF Mailed
    <2>3. CASE x \in to
      <3>1. Failure(m) => m.op \in Known(g[x]) \/ QueryMsg(m.op) \in Elems(c[x])
        BY <2>3, Zenon DEF Queried
      <3>2. PreparedBy(Append(c[x], m), Known(g[x]))
        BY <2>1, <3>1, PreparedAppend, Zenon
      <3> QED
        BY <2>2, <2>3, <3>2, Zenon
    <2>4. CASE x \notin to
      BY <2>1, <2>2, <2>4, Zenon
    <2> QED
      BY <2>3, <2>4, Zenon
  <1> QED
    BY <1>1, Zenon DEF Prepared

-----------------------------------------------------------------------------
(* A step of the daemon on node n preserves the invariant *)

(* What a handler may do: n goes to state t having taken the messages in   *)
(* H, and sends m to the nodes in to; E has the operations that have got   *)
(* the target without power by then.                                       *)
Tidy(t) == t \in Process /\ t.out = NoMail /\ \A o \in Op : Regular(t.ops[o])

Learns(f, n, t, H) ==
  /\ t.work \subseteq f[n].work \cup H /\ Grows(f[n], t) /\ Tells(f[n], t, H)
  /\ \A o \in Known(t) \ Known(f[n]) : Rooted(f, o) \/ Owner(n, o)
  /\ \A h \in H : h.type = "query" => h.op \in Known(t)

Sends(f, b, L, n, t, to, m) ==
  /\ m \in Message /\ to \in SUBSET Node /\ (m.type = "broadcast" => to = Node)
  /\ Asks(f, b, L, n, t, to, m)
  /\ to # {} /\ m.type # "left" =>
       Rooted(f, m.op) \/ (Owner(n, m.op) /\ m.op \in Known(t))
  /\ to # {} /\ Failure(m) => Queried(f, b, L, m.op)

(* The step every handler amounts to: daemon n takes at most one message   *)
(* off what it was sent, changes its record to t and sends m to the nodes  *)
(* in to; daemons may leave L and operations may be fenced meanwhile.      *)
LEMMA StepPreservesInv ==
    ASSUME Counting, conf \in Config, NEW f, NEW b, NEW L, NEW F, InvOf(f, b, L, F),
           NEW n \in Node, n \in L,
           NEW t, NEW c, NEW H, Takes(b, c, n, H), Tidy(t), Learns(f, n, t, H),
           NEW to, NEW m, Sends(f, b, L, n, t, to, m),
           NEW M \in SUBSET L, NEW E \in SUBSET Op,
           SingleDevices => Proves(f, F, n, t, [f EXCEPT ![n] = t], to, m, E)
    PROVE  InvOf([f EXCEPT ![n] = t], Mailed(c, M, to, m), M, E)
  <1> DEFINE g == [f EXCEPT ![n] = t]
  <1>1. /\ f \in [Node -> Process] /\ b \in [Node -> Seq(Message)]
        /\ L \in SUBSET Node /\ F \in SUBSET Op
        /\ \A x \in Node : f[x].out = NoMail /\ \A o \in Op : Regular(f[x].ops[o])
    BY Zenon DEF InvOf, TypeOf
  <1>2. /\ Originated(f, b) /\ QueriedFirst(f, b, L) /\ Prepared(f, b, L) /\ Agreed(f, b, L)
        /\ SingleDevices => Truthful(f, b, F)
    BY Zenon DEF InvOf
  <1>3. g \in [Node -> Process] /\ g[n] = t /\ \A x \in Node \ {n} : g[x] = f[x]
    BY <1>1, Zenon DEF Tidy
  <1>4. m \in Message /\ to \in SUBSET Node /\ (m.type = "broadcast" => to = Node)
    BY Zenon DEF Sends
  <1>5. Agreed(g, c, L)
    <2>1. Tells(f[n], t, H) /\ Grows(f[n], t)
      BY Zenon DEF Learns
    <2> QED
      BY <1>1, <1>2, <2>1, AgreedUpdate, Zenon
  <1> HIDE DEF g
  <1>6. Step(f, b, g, c, n, H)
    BY <1>3, Zenon DEF Step, Learns
  <1>7. c \in [Node -> Seq(Message)]
    BY <1>1, <1>6, StepFacts, Zenon
  <1>9. TypeOf(g, Mailed(c, M, to, m), M, E)
    <2>1. Mailed(c, M, to, m) \in [Node -> Seq(Message)]
      BY <1>4, <1>7, MailedFacts, Zenon
    <2>2. \A x \in Node : g[x].out = NoMail /\ \A o \in Op : Regular(g[x].ops[o])
      BY <1>1, <1>3, Zenon DEF Tidy
    <2> QED
      BY <1>1, <1>3, <2>1, <2>2, Zenon DEF TypeOf
  <1>10. Originated(g, Mailed(c, M, to, m))
    <2>1. \A o \in Known(g[n]) \ Known(f[n]) : Rooted(f, o) \/ Owner(n, o)
      BY <1>3, Zenon DEF Learns
    <2>2. ASSUME NEW o, Rooted(f, o)
          PROVE  Rooted(g, o)
      <3>1. conf.at[o] \in Node
        BY <2>2, RequestedType, Zenon DEF Rooted
      <3> QED
        BY <1>1, <1>6, <2>2, <3>1, StepFacts, Zenon
    <2>3. m.type # "left" /\ to # {} => Rooted(g, m.op)
      BY <1>3, <2>2, Zenon DEF Sends, Owner, Rooted
    <2> QED
      BY <1>1, <1>2, <1>4, <1>6, <2>1, <2>3, OriginatedStep, Zenon
  <1>11. ASSUME SingleDevices
         PROVE  Truthful(g, Mailed(c, M, to, m), E)
    <2>1. Truthful(f, b, F) /\ Proves(f, F, n, t, g, to, m, E)
      BY <1>2, <1>11, Zenon DEF g
    <2>2. Proves(f, F, n, g[n], g, to, m, E)
      BY <1>3, <2>1, Zenon
    <2> QED
      BY <1>1, <1>4, <1>6, <2>1, <2>2, TruthfulStep, Zenon
  <1>12. QueriedFirst(g, Mailed(c, M, to, m), M)
    <2>1. Asks(f, b, L, n, g[n], to, m)
      BY <1>3, Zenon DEF Sends
    <2> QED
      BY <1>1, <1>2, <1>4, <1>6, <2>1, QueriedFirstStep, Zenon
  <1>13. Prepared(g, Mailed(c, M, to, m), M)
    <2>1. Prepared(g, c, L)
      BY <1>1, <1>2, <1>6, PreparedStep, Zenon
    <2>2. ASSUME to # {}, Failure(m)
          PROVE  Queried(g, c, L, m.op)
      <3>1. Queried(f, b, L, m.op)
        BY <2>2, Zenon DEF Sends
      <3> QED
        BY <1>1, <1>6, <3>1, QueriedStep, Zenon
    <2> QED
      BY <1>1, <1>4, <1>7, <2>1, <2>2, PreparedMail, Zenon
  <1>14. Agreed(g, Mailed(c, M, to, m), M)
    BY <1>3, <1>4, <1>5, <1>7, AgreedMail, Zenon
  <1>15. InvOf(g, Mailed(c, M, to, m), M, E)
    BY <1>9, <1>10, <1>11, <1>12, <1>13, <1>14, Zenon DEF InvOf
  <1> QED
    BY <1>15, Zenon DEF g

-----------------------------------------------------------------------------
(* From the steps of daemons to those of the system *)

(* What the environment may still do is all that changes of conf. *)
Kept ==
  /\ conf' \in Config /\ conf'.levels = conf.levels /\ conf'.at = conf.at
  /\ off' \in SUBSET (Device \cup {NoDev})

(* The configuration never changes. *)
LEMMA InvWhenKept ==
    ASSUME Kept, InvOf(fencer', inbox', live', fenced')
    PROVE  Inv'
  <1>1. /\ Levels' = Levels /\ Requested' = Requested
        /\ conf'.levels = conf.levels /\ conf'.at = conf.at
    BY Zenon DEF Kept, Levels, Requested
  <1>2. /\ SingleDevices' => SingleDevices
        /\ SingleDevices => SingleDevices'
    BY <1>1, Zenon DEF SingleDevices
  <1>3. OpRecord' = OpRecord /\ Message' = Message
    BY <1>1, Zenon DEF OpRecord, Message
  <1>4. Process' = Process
    BY <1>3, Zenon DEF Process
  <1>5. TypeOf(fencer, inbox, live, fenced)'
    <2>1. TypeOf(fencer', inbox', live', fenced')
      BY Zenon DEF InvOf
    <2>2. \A n \in Node : \A o \in Op : Regular(fencer'[n].ops[o]) => Regular(fencer[n].ops[o])'
      BY <1>1, <1>2, Zenon DEF Regular
    <2> QED
      BY <1>3, <1>4, <2>1, <2>2, Zenon DEF TypeOf, NoMail
  <1>6. Originated(fencer, inbox)'
    <2>1. Originated(fencer', inbox')
      BY Zenon DEF InvOf
    <2> QED
      BY <1>1, <2>1, Zenon DEF Originated, Rooted, Known, Pending, Elems
  <1>7. SingleDevices' => Truthful(fencer, inbox, fenced)'
    <2>1. SingleDevices => Truthful(fencer', inbox', fenced')
      BY Zenon DEF InvOf
    <2>2. Sound(fencer', fenced') = Sound(fencer, fenced)'
      BY <1>1, Zenon DEF Sound
    <2> QED
      BY <1>1, <1>2, <2>1, <2>2, Zenon DEF Truthful, Owner, Honest, Pending, Elems
  <1>8. QueriedFirst(fencer, inbox, live)'
    <2>1. QueriedFirst(fencer', inbox', live')
      BY Zenon DEF InvOf
    <2> QED
      BY <2>1, Zenon DEF QueriedFirst, Queried, Known, Timed, Pending, Elems, QueryMsg
  <1>9. Prepared(fencer, inbox, live)'
    <2>1. Prepared(fencer', inbox', live')
      BY Zenon DEF InvOf
    <2> QED
      BY <2>1, Zenon DEF Prepared, PreparedBy, Known, Failure, QueryMsg
  <1>10. Agreed(fencer, inbox, live)'
    <2>1. Agreed(fencer', inbox', live')
      BY Zenon DEF InvOf
    <2> QED
      BY <2>1, Zenon DEF Agreed, Merged, Known, Verdict, FirstSays, Announces, Says
  <1> QED
    BY <1>5, <1>6, <1>7, <1>8, <1>9, <1>10, Zenon DEF Inv, InvOf, Kept

(* The end of a handler *)
LEMMA ResetFacts ==
    ASSUME NEW t \in Process
    PROVE  /\ [t EXCEPT !.out = NoMail] \in Process
           /\ [t EXCEPT !.out = NoMail].out = NoMail
           /\ [t EXCEPT !.out = NoMail].ops = t.ops
           /\ [t EXCEPT !.out = NoMail].work = t.work
           /\ [t EXCEPT !.out = NoMail].view = t.view
  <1>1. <<>> \in Seq(Message)
    OBVIOUS
  <1>2. NoMail \in [Node -> Seq(Message)]
    BY <1>1, Zenon DEF NoMail
  <1> QED
    BY <1>2, Zenon DEF Process

LEMMA CommitMailed ==
    ASSUME NEW n, NEW s, s.out = NoMail, NEW t, NEW to, NEW m \in Message,
           t.out = Posted(s, to, m), NEW c \in [Node -> Seq(Message)], Commit(n, t, c)
    PROVE  inbox' = Mailed(c, live, to, m)
  <1>1. \A x \in Node : t.out[x] = IF x \in to THEN Append(<<>>, m) ELSE <<>>
    BY Zenon DEF Posted, NoMail
  <1>2. \A x \in Node : c[x] \o Append(<<>>, m) = Append(c[x], m) /\ c[x] \o <<>> = c[x]
    OBVIOUS
  <1>3. \A x \in Node : c[x] \o t.out[x] = IF x \in to THEN Append(c[x], m) ELSE c[x]
    BY <1>1, <1>2, Zenon
  <1> QED
    BY <1>3, Zenon DEF Commit, Mailed

(* What a handler has queued to send is delivered when it returns          *)
(* (Commit), so a handler that leaves one message in out is such a step.   *)
LEMMA CommitPreservesInv ==
    ASSUME Counting, Inv, NEW n \in Node, n \in live, NEW c, NEW H, Takes(inbox, c, n, H),
           NEW t \in Process, \A o \in Op : Regular(t.ops[o]), Learns(fencer, n, t, H),
           NEW to, NEW m, Sends(fencer, inbox, live, n, t, to, m),
           t.out = Posted(fencer[n], to, m), fenced' \in SUBSET Op,
           SingleDevices => Proves(fencer, fenced, n, t, [fencer EXCEPT ![n] = t], to, m, fenced'),
           Commit(n, t, c), live' = live, Kept
    PROVE  Inv'
  <1> DEFINE u == [t EXCEPT !.out = NoMail]
  <1>1. u \in Process /\ u.out = NoMail /\ u.ops = t.ops /\ u.work = t.work
    BY ResetFacts, Zenon
  <1>2. fencer' = [fencer EXCEPT ![n] = u]
    BY Zenon DEF Commit
  <1> HIDE DEF u
  <1>3. Known(u) = Known(t) /\ \A o : Merged(u, o) = Merged(t, o)
    BY <1>1, Zenon DEF Known, Merged
  <1>4. /\ conf \in Config /\ InvOf(fencer, inbox, live, fenced)
        /\ inbox \in [Node -> Seq(Message)] /\ fencer \in [Node -> Process]
        /\ fencer[n].out = NoMail /\ live \in SUBSET Node
    BY Zenon DEF Inv, InvOf, TypeOf
  <1>5. c \in [Node -> Seq(Message)]
    BY <1>4, TakesFacts, Zenon
  <1>6. m \in Message
    BY Zenon DEF Sends
  <1>7. inbox' = Mailed(c, live, to, m)
    BY <1>4, <1>5, <1>6, CommitMailed, Zenon
  <1>8. Tidy(u)
    BY <1>1, Zenon DEF Tidy
  <1>9. Learns(fencer, n, u, H)
    BY <1>1, <1>3, Zenon DEF Learns, Grows, Tells
  <1>10. Sends(fencer, inbox, live, n, u, to, m)
    BY <1>1, <1>3, Zenon DEF Sends, Asks
  <1>11. ASSUME SingleDevices
         PROVE  Proves(fencer, fenced, n, u, [fencer EXCEPT ![n] = u], to, m, fenced')
    <2>1. \A x \in Node : [fencer EXCEPT ![n] = u][x].ops = [fencer EXCEPT ![n] = t][x].ops
      BY <1>1, <1>4, Zenon
    <2>2. Sound([fencer EXCEPT ![n] = u], fenced') = Sound([fencer EXCEPT ![n] = t], fenced')
      BY <1>4, <2>1, RequestedType, Zenon DEF Sound
    <2>3. Proves(fencer, fenced, n, t, [fencer EXCEPT ![n] = t], to, m, fenced')
      BY <1>11, Zenon
    <2> QED
      BY <1>1, <2>2, <2>3, Zenon DEF Proves
  <1>12. live \in SUBSET live
    BY Zenon
  <1>13. InvOf([fencer EXCEPT ![n] = u], Mailed(c, live, to, m), live, fenced')
    BY <1>4, <1>8, <1>9, <1>10, <1>11, <1>12, StepPreservesInv, Zenon
  <1>14. InvOf(fencer', inbox', live', fenced')
    BY <1>2, <1>7, <1>13, Zenon
  <1> QED
    BY <1>14, InvWhenKept, Zenon

LEMMA QueriedRooted ==
    ASSUME NEW f, NEW b, NEW L \in SUBSET Node, Originated(f, b), NEW n \in L,
           NEW o, Queried(f, b, L, o)
    PROVE  Rooted(f, o)
  <1>1. QueryMsg(o).op = o /\ QueryMsg(o).type # "left"
    BY Zenon DEF QueryMsg
  <1>2. CASE o \in Known(f[n])
    BY <1>2, Zenon DEF Originated
  <1>3. CASE QueryMsg(o) \in Elems(b[n])
    <2>1. QueryMsg(o) \in Pending(f, b, n)
      BY <1>3, Zenon DEF Pending
    <2>2. Rooted(f, QueryMsg(o).op)
      BY <1>1, <2>1, Zenon DEF Originated
    <2> QED
      BY <1>1, <2>2, Zenon
  <1> QED
    BY <1>2, <1>3, Zenon DEF Queried

(* A message that is sent to nobody *)
LEMMA NothingPosted ==
    ASSUME NEW s, s.out = NoMail, NEW n \in Node
    PROVE  /\ LeftMsg(n) \in Message /\ LeftMsg(n).type = "left"
           /\ Posted(s, {}, LeftMsg(n)) = NoMail
  <1>1. LeftMsg(n) \in Message /\ LeftMsg(n).type = "left"
    BY Zenon DEF LeftMsg, Message
  <1>2. Posted(s, {}, LeftMsg(n)) = [p \in Node |-> NoMail[p]]
    BY Zenon DEF Posted
  <1>3. [p \in Node |-> NoMail[p]] = NoMail
    BY Zenon DEF NoMail
  <1> QED
    BY <1>1, <1>2, <1>3, Zenon

(* A function of the originator, called for a message or a timer *)
LEMMA EffectPreservesInv ==
    ASSUME Counting, Inv, NEW n \in Node, n \in live, NEW o \in Op, Queried(fencer, inbox, live, o),
           NEW c, NEW H, Takes(inbox, c, n, H), \A h \in H : h.type \notin {"query", "broadcast"},
           NEW t, Effect(fencer[n], t, o, Sound(fencer, fenced')), fenced \subseteq fenced',
           fenced' \in SUBSET Op, Commit(n, t, c), live' = live, Kept
    PROVE  Inv'
  <1> DEFINE s == fencer[n]
             g == [fencer EXCEPT ![n] = t]
  <1>1. /\ conf \in Config /\ fencer \in [Node -> Process] /\ s.out = NoMail
        /\ live \in SUBSET Node /\ Originated(fencer, inbox)
        /\ \A p \in Op : Regular(s.ops[p])
    BY Zenon DEF Inv, InvOf, TypeOf
  <1>2. Rooted(fencer, o)
    BY <1>1, QueriedRooted, Zenon
  <1>3. /\ t \in Process /\ t.work = s.work /\ \A p \in Op \ {o} : t.ops[p] = s.ops[p]
        /\ t.ops[o].told = s.ops[o].told /\ t.ops[o].duplicates = s.ops[o].duplicates
        /\ t.ops[o].state = "none" => s.ops[o].state = "none"
        /\ Regular(s.ops[o]) => Regular(t.ops[o])
    BY Zenon DEF Effect, Moves
  <1>4. \A p \in Op : t.ops[p].told = s.ops[p].told /\ t.ops[p].duplicates = s.ops[p].duplicates
    BY <1>3, Zenon
  <1>5. \A p \in Op : Regular(t.ops[p])
    BY <1>1, <1>3, Zenon
  <1>6. Learns(fencer, n, t, H)
    <2>1. Known(s) \subseteq Known(t) /\ Known(t) \subseteq Known(s) \cup {o}
      BY <1>3, Zenon DEF Known
    <2>2. Grows(s, t)
      BY <1>4, <2>1, Zenon DEF Grows
    <2>3. Tells(s, t, H)
      BY <1>4, Zenon DEF Tells, Announces
    <2> QED
      BY <1>2, <1>3, <2>1, <2>2, <2>3, Zenon DEF Learns
  <1>7. Sound(g, fenced') = Sound(fencer, fenced')
    <2>1. \A x \in Node : \A p \in Op : g[x].ops[p].duplicates = fencer[x].ops[p].duplicates
      <3>1. g[n] = t /\ \A x \in Node \ {n} : g[x] = fencer[x]
        BY <1>1, Zenon
      <3> HIDE DEF g
      <3> QED
        BY <1>4, <3>1, Zenon
    <2> HIDE DEF g
    <2> QED
      BY <1>1, <2>1, RequestedType, Zenon DEF Sound
  <1> HIDE DEF g
  <1>8. \A to, m : (to # {} => Honest(m, Sound(fencer, fenced'))) =>
                     Proves(fencer, fenced, n, t, g, to, m, fenced')
    BY <1>4, <1>7, Zenon DEF Proves
  <1>9. \A to, m : Asks(fencer, inbox, live, n, t, to, m) \/ m.op # o
    <2>1. \A p \in Op : Timed(t.ops[p]) => Timed(s.ops[p]) \/ Queried(fencer, inbox, live, p)
      BY <1>3, Zenon
    <2> QED
      BY <2>1, Zenon DEF Asks
  <1>10. CASE t.out = s.out
    <2>1. /\ LeftMsg(n) \in Message /\ LeftMsg(n).type = "left" /\ t.out = Posted(s, {}, LeftMsg(n))
      BY <1>1, <1>10, NothingPosted, Zenon
    <2>2. Sends(fencer, inbox, live, n, t, {}, LeftMsg(n))
      BY <1>3, <2>1, Zenon DEF Sends, Asks
    <2>3. Proves(fencer, fenced, n, t, g, {}, LeftMsg(n), fenced')
      BY <1>8, Zenon
    <2> QED
      BY <1>3, <1>5, <1>6, <2>1, <2>2, <2>3, CommitPreservesInv, Zenon DEF g
  <1>11. CASE t.out # s.out
    <2>1. PICK to, m : Mail(o, m, to, Sound(fencer, fenced')) /\ t.out = Posted(s, to, m)
      BY <1>11, Zenon DEF Effect
    <2>2. Sends(fencer, inbox, live, n, t, to, m)
      BY <1>2, <1>9, <2>1, Zenon DEF Sends, Mail
    <2>3. SingleDevices => Proves(fencer, fenced, n, t, g, to, m, fenced')
      <3>1. SingleDevices => Honest(m, Sound(fencer, fenced'))
        BY <2>1, Zenon DEF Mail, Honest
      <3> QED
        BY <1>8, <3>1, Zenon
    <2> QED
      BY <1>3, <1>5, <1>6, <2>1, <2>2, <2>3, CommitPreservesInv, Zenon DEF g
  <1> QED
    BY <1>10, <1>11, Zenon

-----------------------------------------------------------------------------
(* Timers *)

LEMMA RequestAfterUpdate ==
    ASSUME Counting, conf \in Config, NEW n, NEW s \in Process, NEW o \in Op, o \in Requested,
           NEW q, Moves(s.ops[o], q), Regular(q), NEW F, Guarded(q, o, F)
    PROVE  Effect(s, RequestPeerFencing(n, Update(s, o, q), o, NoPeer), o, F)
  <1> DEFINE u == Update(s, o, q)
  <1>1. q \in OpRecord
    BY Zenon DEF Moves
  <1>2. u \in Process /\ u.ops[o] = q
    BY <1>1, UpdateFacts, Zenon
  <1> HIDE DEF u
  <1>3. Effect(u, RequestPeerFencing(n, u, o, NoPeer), o, F)
    BY <1>2, RequestPeerFencingEffect, Zenon
  <1>4. Effect(Update(s, o, q), RequestPeerFencing(n, Update(s, o, q), o, NoPeer), o, F)
    BY <1>3, Zenon DEF u
  <1> QED
    BY <1>4, EffectAfterUpdate, Zenon

LEMMA ExpireKeeps ==
    ASSUME conf \in Config, off \in SUBSET (Device \cup {NoDev}), Expire
    PROVE  Kept /\ live' = live
  <1>1. CASE conf' = conf
    BY <1>1, Zenon DEF Expire, Kept
  <1>2. CASE conf.early > 0 /\ conf' = [conf EXCEPT !.early = @ - 1]
    <2>1. conf.early - 1 \in Nat
      <3>1. conf.early \in Nat
        BY Zenon DEF Config
      <3> QED
        BY <1>2, <3>1
    <2>2. conf' = [conf EXCEPT !.early = conf.early - 1]
      BY <1>2, Zenon
    <2>3. conf' \in Config /\ conf'.levels = conf.levels /\ conf'.at = conf.at
      BY <2>1, <2>2, Zenon DEF Config
    <2> QED
      BY <2>3, Zenon DEF Expire, Kept
  <1> QED
    BY <1>1, <1>2, Zenon DEF Expire

(* A daemon whose timer for operation o expires *)
LEMMA TimerFacts ==
    ASSUME Inv, NEW n \in Node, n \in live, NEW o \in Op, Timed(fencer[n].ops[o])
    PROVE  /\ Queried(fencer, inbox, live, o) /\ o \in Requested /\ conf \in Config
           /\ fencer[n] \in Process /\ fencer[n].ops[o] \in OpRecord
           /\ Regular(fencer[n].ops[o]) /\ fenced \in SUBSET Op
           /\ off \in SUBSET (Device \cup {NoDev})
  <1>1. /\ conf \in Config /\ fencer \in [Node -> Process] /\ Originated(fencer, inbox)
        /\ QueriedFirst(fencer, inbox, live) /\ Regular(fencer[n].ops[o])
        /\ live \in SUBSET Node /\ fenced \in SUBSET Op /\ off \in SUBSET (Device \cup {NoDev})
    BY Zenon DEF Inv, InvOf, TypeOf
  <1>2. Queried(fencer, inbox, live, o)
    BY <1>1, Zenon DEF QueriedFirst
  <1>3. Rooted(fencer, o)
    BY <1>1, <1>2, QueriedRooted, Zenon
  <1>4. fencer[n] \in Process
    BY <1>1, Zenon
  <1>5. fencer[n].ops[o] \in OpRecord
    BY <1>4, Zenon DEF Process
  <1> QED
    BY <1>1, <1>2, <1>3, <1>4, <1>5, Zenon DEF Rooted

(* A timer of operation o expires at n and its handler runs. *)
LEMMA TimerPreservesInv ==
    ASSUME Counting, Inv, NEW n \in Node, n \in live, NEW o \in Op, Timed(fencer[n].ops[o]),
           NEW t, Effect(fencer[n], t, o, Sound(fencer, fenced')), fenced \subseteq fenced',
           fenced' \in SUBSET Op, Commit(n, t, inbox), Expire
    PROVE  Inv'
  <1>1. /\ Queried(fencer, inbox, live, o) /\ conf \in Config
        /\ off \in SUBSET (Device \cup {NoDev})
    BY TimerFacts, Zenon
  <1>2. Kept /\ live' = live
    BY <1>1, ExpireKeeps, Zenon
  <1> DEFINE H == {}
  <1>3. Takes(inbox, inbox, n, H) /\ \A h \in H : h.type \notin {"query", "broadcast"}
    BY Zenon DEF Takes
  <1> HIDE DEF H
  <1> QED
    BY <1>1, <1>2, <1>3, EffectPreservesInv, Zenon

(* remote_op_query_timeout *)
LEMMA QueryTimeoutPreservesInv ==
    ASSUME Counting, Inv, NEW n \in Node, NEW o \in Op, QueryTimeout(n, o)
    PROVE  Inv'
  <1> DEFINE q == fencer[n].ops[o]
             r == [q EXCEPT !.queryTimer = FALSE]
             s == Update(fencer[n], o, r)
             F == Sound(fencer, fenced')
  <1>1. n \in live /\ q.queryTimer /\ Expire /\ fenced' = fenced
    BY Zenon DEF QueryTimeout
  <1>2. Timed(q)
    BY <1>1, Zenon DEF Timed
  <1>3. /\ o \in Requested /\ conf \in Config /\ fencer[n] \in Process /\ q \in OpRecord
        /\ Regular(q) /\ fenced \in SUBSET Op
    BY <1>1, <1>2, TimerFacts, Zenon
  <1>4. Moves(q, r) /\ r.queryTimer = FALSE
    BY <1>3, Zenon DEF Moves, OpRecord, Regular
  <1>5. PICK t : /\ Commit(n, t, inbox)
                 /\ t \in {s, RequestPeerFencing(n, s, o, NoPeer), FinalizeTimedOut(n, s, o, r)}
    BY Zenon DEF QueryTimeout
  <1> HIDE DEF F, r
  <1>6. Regular(r) /\ Guarded(r, o, F) /\ Moves(r, r) /\ r \in OpRecord
    BY <1>3, <1>4, Zenon DEF Moves, Guarded
  <1>7. Effect(fencer[n], s, o, F)
    BY <1>3, <1>4, UpdateEffect, Zenon
  <1>8. Effect(fencer[n], RequestPeerFencing(n, s, o, NoPeer), o, F)
    BY <1>3, <1>4, <1>6, RequestAfterUpdate, Zenon
  <1>9. Effect(fencer[n], FinalizeTimedOut(n, s, o, r), o, F)
    <2>1. s \in Process /\ s.ops[o] = r
      BY <1>3, <1>6, UpdateFacts, Zenon
    <2> HIDE DEF s
    <2>2. Effect(s, FinalizeTimedOut(n, s, o, r), o, F)
      BY <1>3, <1>6, <2>1, FinalizeTimedOutEffect, Zenon
    <2>3. Effect(Update(fencer[n], o, r), FinalizeTimedOut(n, s, o, r), o, F)
      BY <2>2, Zenon DEF s
    <2> QED
      BY <1>3, <1>4, <2>3, EffectAfterUpdate, Zenon
  <1>10. Effect(fencer[n], t, o, Sound(fencer, fenced'))
    BY <1>5, <1>7, <1>8, <1>9, Zenon DEF F
  <1> QED
    BY <1>1, <1>2, <1>3, <1>5, <1>10, TimerPreservesInv, Zenon

(* remote_op_timeout *)
LEMMA TotalTimeoutPreservesInv ==
    ASSUME Counting, Inv, NEW n \in Node, NEW o \in Op, TotalTimeout(n, o)
    PROVE  Inv'
  <1> DEFINE q == fencer[n].ops[o]
             r == [q EXCEPT !.totalTimer = FALSE]
             F == Sound(fencer, fenced')
  <1>1. n \in live /\ q.totalTimer /\ Expire /\ fenced' = fenced
    BY Zenon DEF TotalTimeout
  <1>2. Timed(q)
    BY <1>1, Zenon DEF Timed
  <1>3. /\ o \in Requested /\ conf \in Config /\ fencer[n] \in Process /\ q \in OpRecord
        /\ Regular(q) /\ fenced \in SUBSET Op
    BY <1>1, <1>2, TimerFacts, Zenon
  <1>4. Moves(q, r)
    BY <1>3, Zenon DEF Moves, OpRecord, Regular
  <1>5. PICK t : /\ Commit(n, t, inbox)
                 /\ t \in {Update(fencer[n], o, r), FinalizeTimedOut(n, fencer[n], o, r)}
    BY Zenon DEF TotalTimeout
  <1> HIDE DEF F, r
  <1>6. Regular(r)
    BY <1>3, <1>4, Zenon DEF Moves
  <1>7. Effect(fencer[n], Update(fencer[n], o, r), o, F)
    BY <1>3, <1>4, UpdateEffect, Zenon
  <1>8. Effect(fencer[n], FinalizeTimedOut(n, fencer[n], o, r), o, F)
    BY <1>3, <1>4, <1>6, FinalizeTimedOutEffect, Zenon
  <1>9. Effect(fencer[n], t, o, Sound(fencer, fenced'))
    BY <1>5, <1>7, <1>8, Zenon DEF F
  <1> QED
    BY <1>1, <1>2, <1>3, <1>5, <1>9, TimerPreservesInv, Zenon

(* remote_op_timeout_one *)
LEMMA PeerTimeoutPreservesInv ==
    ASSUME Counting, Inv, NEW n \in Node, NEW o \in Op, PeerTimeout(n, o)
    PROVE  Inv'
  <1> DEFINE q == fencer[n].ops[o]
             r == [q EXCEPT !.oneTimer = "none", !.result = "timeout"]
             F == Sound(fencer, fenced')
             t == RequestPeerFencing(n, Update(fencer[n], o, r), o, NoPeer)
  <1>1. n \in live /\ q.oneTimer = "peer" /\ Expire /\ fenced' = fenced /\ Commit(n, t, inbox)
    BY Zenon DEF PeerTimeout
  <1>2. Timed(q)
    BY <1>1, Zenon DEF Timed
  <1>3. /\ o \in Requested /\ conf \in Config /\ fencer[n] \in Process /\ q \in OpRecord
        /\ Regular(q) /\ fenced \in SUBSET Op
    BY <1>1, <1>2, TimerFacts, Zenon
  <1>4. Moves(q, r) /\ r.result = "timeout"
    BY <1>3, Zenon DEF Moves, OpRecord, Regular
  <1> HIDE DEF F, r
  <1>5. Regular(r) /\ Guarded(r, o, F)
    BY <1>3, <1>4, Zenon DEF Moves, Guarded
  <1>6. Effect(fencer[n], t, o, Sound(fencer, fenced'))
    BY <1>3, <1>4, <1>5, RequestAfterUpdate, Zenon DEF F
  <1> HIDE DEF t
  <1> QED
    BY <1>1, <1>2, <1>3, <1>6, TimerPreservesInv, Zenon

(* remote_op_watchdog_done *)
LEMMA WatchdogDonePreservesInv ==
    ASSUME Counting, Inv, NEW n \in Node, NEW o \in Op, WatchdogDone(n, o)
    PROVE  Inv'
  <1> DEFINE q == fencer[n].ops[o]
             r == [q EXCEPT !.oneTimer = "none", !.state = "done", !.result = "ok"]
             t == FinalizeOp(n, fencer[n], o, r)
  <1>1. /\ n \in live /\ q.oneTimer = "watchdog" /\ Expire /\ Commit(n, t, inbox)
        /\ fenced' = fenced \cup Covered(o)
    BY Zenon DEF WatchdogDone
  <1>2. Timed(q)
    BY <1>1, Zenon DEF Timed
  <1>3. /\ o \in Requested /\ conf \in Config /\ fencer[n] \in Process /\ q \in OpRecord
        /\ Regular(q) /\ fenced \in SUBSET Op
    BY <1>1, <1>2, TimerFacts, Zenon
  <1>4. Moves(q, r)
    BY <1>3, Zenon DEF Moves, OpRecord, Regular
  <1>5. fenced \subseteq fenced' /\ fenced' \in SUBSET Op
    BY <1>1, <1>3, RequestedType, Zenon DEF Covered
  <1>6. o \in Sound(fencer, fenced')
    BY <1>1, Zenon DEF Sound, Covered
  <1> HIDE DEF r
  <1>7. Effect(fencer[n], t, o, Sound(fencer, fenced'))
    BY <1>3, <1>4, <1>6, FinalizeOpEffect, Zenon
  <1> HIDE DEF t
  <1> QED
    BY <1>1, <1>2, <1>5, <1>7, TimerPreservesInv, Zenon

-----------------------------------------------------------------------------
(* Steps that leave the table of operations alone *)

LEMMA SameOpsFacts ==
    ASSUME NEW f, NEW n, NEW t, t.ops = f[n].ops, NEW H, t.work \subseteq f[n].work \cup H,
           \A h \in H : h.type \notin {"query", "broadcast"}
    PROVE  Learns(f, n, t, H)
  <1>1. Known(t) = Known(f[n])
    BY Zenon DEF Known
  <1>2. Grows(f[n], t)
    BY <1>1, Zenon DEF Grows
  <1>3. Tells(f[n], t, H)
    BY Zenon DEF Tells, Announces
  <1> QED
    BY <1>1, <1>2, <1>3, Zenon DEF Learns

(* Steps that leave the table of operations alone *)
LEMMA SameOpsStep ==
    ASSUME Counting, conf \in Config, NEW f, NEW b, NEW L, NEW F, InvOf(f, b, L, F),
           NEW n \in Node, n \in L,
           NEW t \in Process, t.ops = f[n].ops, t.out = NoMail,
           NEW c, NEW H, Takes(b, c, n, H), t.work \subseteq f[n].work \cup H,
           \A h \in H : h.type \notin {"query", "broadcast"},
           NEW m \in Message, NEW to \in SUBSET Node, m.type # "broadcast",
           m.type # "left" /\ to # {} => Queried(f, b, L, m.op),
           NEW M \in SUBSET L, NEW E \in SUBSET Op, F \subseteq E,
           SingleDevices /\ to # {} => Honest(m, Sound(f, E))
    PROVE  InvOf([f EXCEPT ![n] = t], Mailed(c, M, to, m), M, E)
  <1> DEFINE g == [f EXCEPT ![n] = t]
  <1>1. /\ f \in [Node -> Process] /\ L \in SUBSET Node /\ Originated(f, b)
        /\ \A o \in Op : Regular(f[n].ops[o])
    BY Zenon DEF InvOf, TypeOf
  <1>2. Learns(f, n, t, H)
    BY <1>1, SameOpsFacts, Zenon
  <1>3. Sound(g, E) = Sound(f, E)
    <2>1. \A x \in Node : g[x].ops = f[x].ops
      BY <1>1, Zenon
    <2> HIDE DEF g
    <2> QED
      BY <2>1, RequestedType, Zenon DEF Sound
  <1>4. Tidy(t)
    BY <1>1, Zenon DEF Tidy
  <1>5. Asks(f, b, L, n, t, to, m)
    BY Zenon DEF Asks
  <1>6. m.type # "left" /\ to # {} => Rooted(f, m.op)
    BY <1>1, QueriedRooted, Zenon
  <1>7. Sends(f, b, L, n, t, to, m)
    BY <1>5, <1>6, Zenon DEF Sends, Failure
  <1> HIDE DEF g
  <1>8. SingleDevices => Proves(f, F, n, t, g, to, m, E)
    BY <1>3, Zenon DEF Proves
  <1> QED
    BY <1>2, <1>4, <1>7, <1>8, StepPreservesInv, Zenon DEF g

(* A reply to what the originator has asked *)
LEMMA AnswerStep ==
    ASSUME Counting, conf \in Config, NEW f, NEW b, NEW L, NEW F, InvOf(f, b, L, F),
           NEW n \in Node, n \in L,
           NEW t \in Process, t.ops = f[n].ops, t.out = NoMail, t.work \subseteq f[n].work,
           NEW k \in f[n].work, k.type \in {"query", "fence"},
           NEW m \in Message, m.type \in {"query-reply", "fence-reply"}, m.op = k.op,
           NEW E \in SUBSET Op, F \subseteq E,
           SingleDevices => Honest(m, Sound(f, E))
    PROVE  InvOf([f EXCEPT ![n] = t], Mailed(b, L, {conf.at[m.op]}, m), L, E)
  <1>1. Originated(f, b) /\ QueriedFirst(f, b, L)
    BY Zenon DEF InvOf
  <1>2. k \in Pending(f, b, n)
    BY Zenon DEF Pending
  <1>3. Queried(f, b, L, m.op)
    BY <1>1, <1>2, Zenon DEF QueriedFirst
  <1>4. Rooted(f, m.op)
    BY <1>1, <1>2, Zenon DEF Originated
  <1> DEFINE to == {conf.at[m.op]}
             H == {}
  <1>5. to \in SUBSET Node
    BY <1>4, RequestedType, Zenon DEF Rooted
  <1>6. /\ Takes(b, b, n, H) /\ \A h \in H : h.type \notin {"query", "broadcast"}
        /\ t.work \subseteq f[n].work \cup H
    BY Zenon DEF Takes
  <1> HIDE DEF H, to
  <1>7. /\ L \in SUBSET L /\ m.type # "broadcast"
        /\ m.type # "left" /\ to # {} => Queried(f, b, L, m.op)
        /\ SingleDevices /\ to # {} => Honest(m, Sound(f, E))
    BY <1>3, Zenon
  <1>8. InvOf([f EXCEPT ![n] = t], Mailed(b, L, to, m), L, E)
    BY <1>5, <1>6, <1>7, SameOpsStep
  <1> QED
    BY <1>8, Zenon DEF to

(* A daemon that is gone, of which the others learn by CPG *)
LEMMA DeathStep ==
    ASSUME Counting, conf \in Config, NEW f, NEW b, NEW L, NEW F, InvOf(f, b, L, F),
           NEW n \in Node, n \in L,
           NEW t \in Process, t.ops = f[n].ops, t.out = NoMail, t.work = {},
           NEW E \in SUBSET Op, F \subseteq E
    PROVE  InvOf([f EXCEPT ![n] = t], Mailed(b, L \ {n}, Node, LeftMsg(n)), L \ {n}, E)
  <1>1. LeftMsg(n) \in Message /\ LeftMsg(n).type = "left"
    BY Zenon DEF LeftMsg, Message
  <1>2. Honest(LeftMsg(n), Sound(f, E)) /\ LeftMsg(n).type # "broadcast"
    BY <1>1, Zenon DEF Honest
  <1> DEFINE H == {}
  <1>3. /\ Takes(b, b, n, H) /\ \A h \in H : h.type \notin {"query", "broadcast"}
        /\ t.work \subseteq f[n].work \cup H
    BY Zenon DEF Takes
  <1> HIDE DEF H
  <1>4. L \ {n} \in SUBSET L /\ Node \in SUBSET Node
    BY Zenon
  <1> QED
    BY <1>1, <1>2, <1>3, <1>4, SameOpsStep, Zenon

Reply(s, k, to, m) == Send([s EXCEPT !.work = @ \ {k}], to, m)

LEMMA ReplyFacts ==
    ASSUME NEW s \in Process, s.out = NoMail, NEW k, NEW to, NEW m \in Message
    PROVE  /\ Reply(s, k, to, m) \in Process /\ Reply(s, k, to, m).ops = s.ops
           /\ Reply(s, k, to, m).work = s.work \ {k}
           /\ Reply(s, k, to, m).out = Posted(s, to, m)
  <1> DEFINE u == [s EXCEPT !.work = @ \ {k}]
  <1>1. s.work \in SUBSET Message
    BY Zenon DEF Process
  <1>2. u = [s EXCEPT !.work = s.work \ {k}] /\ s.work \ {k} \in SUBSET Message
    BY <1>1, Zenon
  <1>3. u \in Process /\ u.ops = s.ops /\ u.work = s.work \ {k} /\ u.out = s.out
    BY <1>2, Zenon DEF Process
  <1> HIDE DEF u
  <1>4. Posted(u, to, m) = Posted(s, to, m)
    BY <1>3, Zenon DEF Posted
  <1>5. /\ Send(u, to, m) \in Process /\ Send(u, to, m).ops = s.ops
        /\ Send(u, to, m).work = s.work \ {k} /\ Send(u, to, m).out = Posted(s, to, m)
    <2>1. /\ Send(u, to, m) \in Process /\ Send(u, to, m).ops = u.ops
          /\ Send(u, to, m).work = u.work /\ Send(u, to, m).out = Posted(u, to, m)
      BY <1>3, SendFacts
    <2> QED
      BY <1>3, <1>4, <2>1, Zenon
  <1> QED
    BY <1>5, Zenon DEF u, Reply

(* A query or a request to fence that waited at n is answered. *)
LEMMA AnswerPreservesInv ==
    ASSUME Counting, Inv, NEW n \in Node, n \in live, NEW k \in fencer[n].work,
           k.type \in {"query", "fence"},
           NEW m \in Message, m.type \in {"query-reply", "fence-reply"}, m.op = k.op,
           SingleDevices => Honest(m, Sound(fencer, fenced)),
           Commit(n, Send([fencer[n] EXCEPT !.work = @ \ {k}], {conf.at[m.op]}, m), inbox),
           UNCHANGED <<conf, live, off, fenced>>
    PROVE  Inv'
  <1> DEFINE to == {conf.at[m.op]}
             t == Reply(fencer[n], k, to, m)
             u == [t EXCEPT !.out = NoMail]
  <1>1. /\ conf \in Config /\ InvOf(fencer, inbox, live, fenced)
        /\ inbox \in [Node -> Seq(Message)] /\ fencer \in [Node -> Process]
        /\ fencer[n].out = NoMail /\ fenced \in SUBSET Op
        /\ off \in SUBSET (Device \cup {NoDev})
    BY Zenon DEF Inv, InvOf, TypeOf
  <1>2. fencer[n] \in Process /\ Commit(n, t, inbox)
    BY <1>1, Zenon DEF Reply
  <1> HIDE DEF to
  <1>3. /\ t \in Process /\ t.ops = fencer[n].ops /\ t.work = fencer[n].work \ {k}
        /\ t.out = Posted(fencer[n], to, m)
    BY <1>1, <1>2, ReplyFacts
  <1> HIDE DEF t
  <1>4. /\ u \in Process /\ u.out = NoMail /\ u.ops = fencer[n].ops
        /\ u.work \subseteq fencer[n].work
    BY <1>3, ResetFacts, Zenon
  <1>5. fencer' = [fencer EXCEPT ![n] = u]
    BY <1>2, Zenon DEF Commit
  <1>6. inbox' = Mailed(inbox, live, to, m)
    BY <1>1, <1>2, <1>3, CommitMailed
  <1> HIDE DEF u
  <1>7. InvOf([fencer EXCEPT ![n] = u], Mailed(inbox, live, {conf.at[m.op]}, m), live, fenced)
    BY <1>1, <1>4, AnswerStep, Zenon
  <1>8. InvOf(fencer', inbox', live', fenced')
    BY <1>5, <1>6, <1>7, Zenon DEF to
  <1>9. Kept
    BY <1>1, Zenon DEF Kept
  <1> QED
    BY <1>8, <1>9, InvWhenKept, Zenon

(* What a message is about *)
LEMMA MessageFacts ==
    ASSUME NEW k \in Message
    PROVE  /\ k.type \in {"query", "query-reply", "fence", "fence-reply", "broadcast", "left"}
           /\ k.type # "left" => k.op \in Requested
           /\ k.type = "left" => k.node \in Node
           /\ k.type = "query-reply" => k.from \in Node
           /\ k.type = "fence" => /\ k.device \in Device \cup {NoDev}
                                  /\ k.action \in {"reboot", "off", "on"}
           /\ k.type = "fence-reply" => k.result \in {"ok", "error", "timeout"}
           /\ k.type = "broadcast" =>
                k.result \in {"unknown", "ok", "error", "timeout", "no device"}
  BY Zenon DEF Message

LEMMA WorkFacts ==
    ASSUME Inv, NEW n \in Node, NEW k \in fencer[n].work
    PROVE  k \in Message
  <1>1. fencer[n] \in Process
    BY Zenon DEF Inv, InvOf, TypeOf
  <1> QED
    BY <1>1, Zenon DEF Process

(* stonith_query_capable_device_cb *)
LEMMA AnswerQueryPreservesInv ==
    ASSUME Counting, Inv, NEW n \in Node, AnswerQuery(n)
    PROVE  Inv'
  <1>1. PICK k \in fencer[n].work :
          /\ k.type = "query"
          /\ Commit(n, Send([fencer[n] EXCEPT !.work = @ \ {k}], {conf.at[k.op]},
                            QueryReply(k.op, n)), inbox)
    BY Zenon DEF AnswerQuery
  <1> DEFINE m == QueryReply(k.op, n)
  <1>2. k.op \in Requested
    BY <1>1, WorkFacts, MessageFacts, Zenon
  <1>3. m \in Message /\ m.type = "query-reply" /\ m.op = k.op
    BY <1>2, Zenon DEF Message, QueryReply
  <1> HIDE DEF m
  <1>4. SingleDevices => Honest(m, Sound(fencer, fenced))
    BY <1>3, Zenon DEF Honest
  <1>5. Commit(n, Send([fencer[n] EXCEPT !.work = @ \ {k}], {conf.at[m.op]}, m), inbox)
    BY <1>1, <1>3, Zenon DEF m
  <1>6. n \in live /\ UNCHANGED <<conf, live, off, fenced>>
    BY Zenon DEF AnswerQuery
  <1> QED
    BY <1>1, <1>3, <1>4, <1>5, <1>6, AnswerPreservesInv, Zenon

(* A fence agent that fails *)
LEMMA AgentFailsPreservesInv ==
    ASSUME Counting, Inv, NEW n \in Node, AgentFails(n)
    PROVE  Inv'
  <1>1. PICK k \in fencer[n].work, result \in {"error", "timeout"} :
          /\ k.type = "fence"
          /\ Commit(n, Send([fencer[n] EXCEPT !.work = @ \ {k}], {conf.at[k.op]},
                            FenceReply(k.op, k.device, result)), inbox)
    BY Zenon DEF AgentFails
  <1> DEFINE m == FenceReply(k.op, k.device, result)
  <1>2. k.op \in Requested /\ k.device \in Device \cup {NoDev}
    BY <1>1, WorkFacts, MessageFacts, Zenon
  <1>3. /\ m \in Message /\ m.type = "fence-reply" /\ m.op = k.op
        /\ m.result \in {"error", "timeout"}
    BY <1>2, Zenon DEF Message, FenceReply
  <1> HIDE DEF m
  <1>4. SingleDevices => Honest(m, Sound(fencer, fenced))
    <2>1. m.result # "ok" /\ m.type # "fence"
      BY <1>3
    <2> QED
      BY <2>1, Zenon DEF Honest
  <1>5. Commit(n, Send([fencer[n] EXCEPT !.work = @ \ {k}], {conf.at[m.op]}, m), inbox)
    BY <1>1, <1>3, Zenon DEF m
  <1>6. n \in live /\ UNCHANGED <<conf, live, off, fenced>>
    BY Zenon DEF AgentFails
  <1> QED
    BY <1>1, <1>3, <1>4, <1>5, <1>6, AnswerPreservesInv, Zenon

(* A process whose work is lost *)
LEMMA DropWork ==
    ASSUME NEW s \in Process
    PROVE  /\ [s EXCEPT !.work = {}] \in Process /\ [s EXCEPT !.work = {}].ops = s.ops
           /\ [s EXCEPT !.work = {}].out = s.out /\ [s EXCEPT !.work = {}].work = {}
  BY Zenon DEF Process

(* A daemon or its node dies. *)
LEMMA DiePreservesInv ==
    ASSUME Counting, Inv, NEW n \in Node, Die(n)
    PROVE  Inv'
  <1> DEFINE u == [fencer[n] EXCEPT !.work = {}]
             m == LeftMsg(n)
  <1>1. /\ conf \in Config /\ InvOf(fencer, inbox, live, fenced) /\ fenced \in SUBSET Op
        /\ fencer \in [Node -> Process] /\ fencer[n].out = NoMail
        /\ off \in SUBSET (Device \cup {NoDev})
    BY Zenon DEF Inv, InvOf, TypeOf
  <1>2. /\ n \in live /\ conf.deaths > 0 /\ conf' = [conf EXCEPT !.deaths = conf.deaths - 1]
        /\ live' = live \ {n} /\ off' = off /\ fenced' = fenced
    BY Zenon DEF Die
  <1>3. fencer' = [fencer EXCEPT ![n] = u]
    BY Zenon DEF Die
  <1>4. inbox' = Mailed(inbox, live \ {n}, Node, m)
    <2>1. inbox' = [p \in Node |-> IF p \in live \ {n} THEN Append(inbox[p], m) ELSE <<>>]
      BY <1>2, Zenon DEF Die
    <2> QED
      BY <2>1, Zenon DEF Mailed
  <1>5. u \in Process /\ u.ops = fencer[n].ops /\ u.out = NoMail /\ u.work = {}
    <2>1. fencer[n] \in Process
      BY <1>1, Zenon
    <2> QED
      BY <1>1, <2>1, DropWork, Zenon
  <1> HIDE DEF u
  <1>6. InvOf([fencer EXCEPT ![n] = u], Mailed(inbox, live \ {n}, Node, m), live \ {n}, fenced)
    BY <1>1, <1>2, <1>5, DeathStep, Zenon
  <1>7. InvOf(fencer', inbox', live', fenced')
    BY <1>2, <1>3, <1>4, <1>6, Zenon
  <1>8. Kept
    <2>1. conf.deaths - 1 \in Nat
      <3>1. conf.deaths \in Nat
        BY <1>1, Zenon DEF Config
      <3> QED
        BY <1>2, <3>1
    <2>2. conf' \in Config /\ conf'.levels = conf.levels /\ conf'.at = conf.at
      BY <1>1, <1>2, <2>1, Zenon DEF Config
    <2> QED
      BY <1>1, <1>2, <2>2, Zenon DEF Kept
  <1> QED
    BY <1>7, <1>8, InvWhenKept, Zenon

(* A fence agent that succeeds *)
LEMMA AgentSucceedsPreservesInv ==
    ASSUME Counting, Inv, NEW n \in Node, AgentSucceeds(n)
    PROVE  Inv'
  <1> DEFINE All == {o \in Requested : fencer[conf.at[o]].ops[o].state # "none"}
  <1>1. PICK k \in fencer[n].work :
          LET s == Reply(fencer[n], k, {conf.at[k.op]}, FenceReply(k.op, k.device, "ok"))
              down == k.action = "reboot" \/ (k.action = "off" /\ Cut(off \cup {k.device}))
              dead == IF down THEN {conf.target} \cap live ELSE {}
          IN  /\ k.type = "fence"
              /\ off' = IF k.action = "off" THEN off \cup {k.device} ELSE off \ {k.device}
              /\ fenced' = IF down THEN fenced \cup All ELSE fenced
              /\ live' = live \ dead
              /\ fencer' = [p \in Node |->
                   IF p \in dead THEN [fencer[p] EXCEPT !.work = {}]
                   ELSE IF p = n THEN [s EXCEPT !.out = NoMail] ELSE fencer[p]]
              /\ inbox' = [p \in Node |->
                   IF p \notin live' THEN <<>>
                   ELSE inbox[p] \o (IF n \in dead THEN <<>> ELSE s.out[p])
                                 \o (IF dead = {} THEN <<>> ELSE <<LeftMsg(conf.target)>>)]
    BY Zenon DEF AgentSucceeds, Reply
  <1> DEFINE m == FenceReply(k.op, k.device, "ok")
             to == {conf.at[k.op]}
             t == Reply(fencer[n], k, to, m)
             u == [t EXCEPT !.out = NoMail]
             down == k.action = "reboot" \/ (k.action = "off" /\ Cut(off \cup {k.device}))
             d == conf.target
             dead == IF down THEN {d} \cap live ELSE {}
             left == LeftMsg(d)
  <1>2. /\ conf \in Config /\ InvOf(fencer, inbox, live, fenced) /\ fenced \in SUBSET Op
        /\ fencer \in [Node -> Process] /\ inbox \in [Node -> Seq(Message)]
        /\ \A x \in Node : fencer[x].out = NoMail
        /\ off \in SUBSET (Device \cup {NoDev}) /\ live \in SUBSET Node
        /\ Originated(fencer, inbox) /\ (SingleDevices => Truthful(fencer, inbox, fenced))
    BY Zenon DEF Inv, InvOf, TypeOf
  <1>3. n \in live /\ conf' = conf /\ d \in Node /\ fencer[n] \in Process
    BY <1>2, Zenon DEF AgentSucceeds, Config
  <1>4. /\ k.op \in Requested /\ k.device \in Device \cup {NoDev} /\ k.type = "fence"
    BY <1>1, WorkFacts, MessageFacts, Zenon
  <1>5. /\ m \in Message /\ m.type = "fence-reply" /\ m.op = k.op /\ m.result = "ok"
    BY <1>4, Zenon DEF Message, FenceReply
  <1>6. /\ off' = IF k.action = "off" THEN off \cup {k.device} ELSE off \ {k.device}
        /\ fenced' = IF down THEN fenced \cup All ELSE fenced
        /\ live' = live \ dead
        /\ fencer' = [p \in Node |-> IF p \in dead THEN [fencer[p] EXCEPT !.work = {}]
                                      ELSE IF p = n THEN u ELSE fencer[p]]
        /\ inbox' = [p \in Node |->
             IF p \notin live' THEN <<>>
             ELSE inbox[p] \o (IF n \in dead THEN <<>> ELSE t.out[p])
                           \o (IF dead = {} THEN <<>> ELSE <<left>>)]
    BY <1>1
  <1>7. fenced \subseteq fenced' /\ fenced' \in SUBSET Op /\ (down => All \subseteq fenced')
    <2>1. All \subseteq Op
      BY <1>2, RequestedType, Zenon
    <2> HIDE DEF All, down
    <2> QED
      BY <1>2, <1>6, <2>1, Zenon
  <1>8. Kept
    BY <1>2, <1>3, <1>4, <1>6, Zenon DEF Kept
  <1>9. SingleDevices => Honest(m, Sound(fencer, fenced'))
    <2>1. SUFFICES ASSUME SingleDevices
                   PROVE  m.op \in Sound(fencer, fenced')
      BY <1>5, Zenon DEF Honest
    <2>2. k \in Pending(fencer, inbox, n)
      BY Zenon DEF Pending
    <2>3. k.action = "reboot"
      BY <1>2, <1>4, <2>1, <2>2, Zenon DEF Truthful, Honest
    <2>4. ASSUME NEW o, Rooted(fencer, o)
          PROVE  o \in fenced'
      <3>1. o \in All
        BY <2>4, Zenon DEF Rooted, Known
      <3> QED
        BY <1>7, <2>3, <3>1, Zenon
    <2>5. Rooted(fencer, k.op)
      BY <1>2, <1>4, <2>2, Zenon DEF Originated
    <2>6. ASSUME NEW p \in Requested, p \in fencer[conf.at[p]].ops[k.op].duplicates
          PROVE  p \in fenced'
      <3>1. conf.at[p] \in Node /\ k.op \in Op
        BY <1>2, <1>4, RequestedType, Zenon
      <3>2. p \in Known(fencer[conf.at[p]])
        BY <1>2, <2>6, <3>1, Zenon DEF Originated
      <3>3. Rooted(fencer, p)
        BY <3>2, Zenon DEF Rooted
      <3> QED
        BY <2>4, <3>3, Zenon
    <2> QED
      BY <1>5, <2>4, <2>5, <2>6, Zenon DEF Sound
  <1> HIDE DEF m, to, down, All
  <1>10. /\ t \in Process /\ t.ops = fencer[n].ops /\ t.work = fencer[n].work \ {k}
         /\ t.out = Posted(fencer[n], to, m)
    BY <1>2, <1>3, <1>5, ReplyFacts
  <1> HIDE DEF t
  <1>11. /\ u \in Process /\ u.out = NoMail /\ u.ops = fencer[n].ops
         /\ u.work \subseteq fencer[n].work
    BY <1>10, ResetFacts, Zenon
  <1> HIDE DEF u
  <1>12. InvOf([fencer EXCEPT ![n] = u], Mailed(inbox, live, to, m), live, fenced')
    <2>1. k.type \in {"query", "fence"} /\ m.type \in {"query-reply", "fence-reply"}
      BY <1>4, <1>5, Zenon
    <2>2. InvOf([fencer EXCEPT ![n] = u], Mailed(inbox, live, {conf.at[m.op]}, m), live, fenced')
      BY <1>2, <1>3, <1>5, <1>7, <1>9, <1>11, <2>1, AnswerStep, Zenon
    <2> QED
      BY <1>5, <2>2, Zenon DEF to
  <1>13. \A x \in Node : t.out[x] = IF x \in to THEN Append(<<>>, m) ELSE <<>>
    <2>1. fencer[n].out = NoMail /\ t.out = Posted(fencer[n], to, m)
      BY <1>2, <1>10, Zenon
    <2> QED
      BY <2>1, Zenon DEF Posted, NoMail
  <1>14. dead = {} \/ (dead = {d} /\ d \in live)
    BY Zenon
  <1> HIDE DEF dead, left, d
  <1>15. CASE dead = {}
    <2>1. fencer' = [fencer EXCEPT ![n] = u] /\ live' = live
      BY <1>2, <1>6, <1>15, Zenon
    <2>2. \A x \in Node : /\ inbox[x] \o Append(<<>>, m) \o <<>> = Append(inbox[x], m)
                          /\ inbox[x] \o <<>> \o <<>> = inbox[x]
      BY <1>2, <1>5
    <2>3. inbox' = [p \in Node |-> IF p \notin live THEN <<>> ELSE inbox[p] \o t.out[p] \o <<>>]
      BY <1>6, <1>15, <2>1, Zenon
    <2>4. inbox' = Mailed(inbox, live, to, m)
      BY <1>13, <2>2, <2>3, Zenon DEF Mailed
    <2>5. InvOf(fencer', inbox', live', fenced')
      BY <1>12, <2>1, <2>4, Zenon
    <2> QED
      BY <1>8, <2>5, InvWhenKept, Zenon
  <1>16. CASE dead = {d} /\ d \in live /\ d # n
    <2> DEFINE f == [fencer EXCEPT ![n] = u]
               b == Mailed(inbox, live, to, m)
               v == [fencer[d] EXCEPT !.work = {}]
    <2>1. fencer[d] \in Process /\ fencer[d].out = NoMail /\ f[d] = fencer[d]
      BY <1>2, <1>3, <1>16, Zenon
    <2>2. v \in Process /\ v.ops = f[d].ops /\ v.out = NoMail /\ v.work = {}
      BY <2>1, DropWork, Zenon
    <2>3. live' = live \ {d} /\ fencer' = [f EXCEPT ![d] = v]
      <3>1. live' = live \ {d}
        BY <1>6, <1>16, Zenon
      <3>2. fencer' = [p \in Node |-> IF p = d THEN v ELSE IF p = n THEN u ELSE fencer[p]]
        BY <1>6, <1>16, Zenon
      <3> HIDE DEF v
      <3>3. [f EXCEPT ![d] = v] =
              [p \in Node |-> IF p = d THEN v ELSE IF p = n THEN u ELSE fencer[p]]
        BY <1>2, Zenon
      <3> QED
        BY <3>1, <3>2, <3>3, Zenon
    <2>4. \A x \in Node :
            /\ inbox[x] \o Append(<<>>, m) \o <<left>> = Append(Append(inbox[x], m), left)
            /\ inbox[x] \o <<>> \o <<left>> = Append(inbox[x], left)
      BY <1>2, <1>5
    <2>5. inbox' = [p \in Node |-> IF p \notin live \ {d} THEN <<>>
                                   ELSE inbox[p] \o t.out[p] \o <<left>>]
      BY <1>6, <1>16, <2>3, Zenon
    <2>6. \A x \in Node : x \in live => b[x] = IF x \in to THEN Append(inbox[x], m) ELSE inbox[x]
      BY Zenon DEF Mailed
    <2> HIDE DEF f, b, v
    <2>7. inbox' = Mailed(b, live \ {d}, Node, left)
      BY <1>13, <2>4, <2>5, <2>6, Zenon DEF Mailed
    <2>8. InvOf(f, b, live, fenced')
      BY <1>12, Zenon DEF f, b
    <2>9. InvOf([f EXCEPT ![d] = v], Mailed(b, live \ {d}, Node, LeftMsg(d)), live \ {d}, fenced')
      BY <1>2, <1>3, <1>7, <1>16, <2>2, <2>8, DeathStep, Zenon
    <2>10. InvOf(fencer', inbox', live', fenced')
      BY <2>3, <2>7, <2>9, Zenon DEF left
    <2> QED
      BY <1>8, <2>10, InvWhenKept, Zenon
  <1>17. CASE dead = {d} /\ d \in live /\ d = n
    <2> DEFINE v == [fencer[n] EXCEPT !.work = {}]
    <2>1. v \in Process /\ v.ops = fencer[n].ops /\ v.out = NoMail /\ v.work = {}
      BY <1>2, <1>3, DropWork, Zenon
    <2>2. live' = live \ {n} /\ fencer' = [fencer EXCEPT ![n] = v]
      BY <1>2, <1>6, <1>17, Zenon
    <2>3. \A x \in Node : inbox[x] \o <<>> \o <<left>> = Append(inbox[x], left)
      BY <1>2
    <2>4. inbox' = [p \in Node |-> IF p \notin live \ {n} THEN <<>>
                                   ELSE inbox[p] \o <<>> \o <<left>>]
      BY <1>6, <1>17, <2>2, Zenon
    <2>5. inbox' = Mailed(inbox, live \ {n}, Node, left)
      BY <2>3, <2>4, Zenon DEF Mailed
    <2> HIDE DEF v
    <2>6. InvOf([fencer EXCEPT ![n] = v], Mailed(inbox, live \ {n}, Node, LeftMsg(n)),
                live \ {n}, fenced')
      BY <1>2, <1>3, <1>7, <2>1, DeathStep, Zenon
    <2>7. left = LeftMsg(n)
      BY <1>17, Zenon DEF left
    <2>8. InvOf(fencer', inbox', live', fenced')
      BY <2>2, <2>5, <2>6, <2>7, Zenon
    <2> QED
      BY <1>8, <2>8, InvWhenKept, Zenon
  <1> QED
    BY <1>14, <1>15, <1>16, <1>17, Zenon

-----------------------------------------------------------------------------
(* Creating operations *)

(* What becomes of the operations of process s when o is created *)
Creates(s, t, o) ==
  /\ t \in Process
  /\ t.ops[o].state # "none" /\ t.ops[o].told = "nothing" /\ t.ops[o].duplicates = {}
  /\ \A p \in Op \ {o} :
       /\ t.ops[p].told = s.ops[p].told /\ (Timed(t.ops[p]) => Timed(s.ops[p]))
       /\ t.ops[p].state = "none" <=> s.ops[p].state = "none"
       /\ s.ops[p].duplicates \subseteq t.ops[p].duplicates
       /\ t.ops[p].duplicates \subseteq s.ops[p].duplicates \cup {o}
       /\ o \in t.ops[p].duplicates => o \in s.ops[p].duplicates \/ p \in Known(s)
  /\ (\A p \in Op : Regular(s.ops[p])) => \A p \in Op : Regular(t.ops[p])

(* create_remote_stonith_op *)
LEMMA CreateOpFacts ==
    ASSUME Counting, conf \in Config, NEW s \in Process, NEW o \in Op, NEW old
    PROVE  /\ Creates(s, CreateOp(s, o, old), o)
           /\ CreateOp(s, o, old).view = s.view /\ CreateOp(s, o, old).work = s.work
           /\ CreateOp(s, o, old).out = s.out
           /\ ~Timed(CreateOp(s, o, old).ops[o])
  <1> DEFINE c == CreateOp(s, o, old)
             orphans == {p \in Alike(s, o) : conf.at[p] \notin s.view}
             merged == (Alike(s, o) \ orphans) \ old
             N == NewOp(ActivePeers(s))
             new == [N EXCEPT !.state = IF merged = {} THEN N.state ELSE "duplicate"]
             Old(p) == IF p \in orphans THEN [s.ops[p] EXCEPT !.state = "failed"]
                       ELSE IF p \in merged
                       THEN [s.ops[p] EXCEPT !.duplicates = s.ops[p].duplicates \cup {o}]
                       ELSE s.ops[p]
             ops == [p \in Op |-> IF p = o THEN new ELSE Old(p)]
  <1>1. s.ops \in [Op -> OpRecord] /\ s.view \in SUBSET Node
    BY Zenon DEF Process
  <1>2. c = [s EXCEPT !.ops = ops]
    BY Zenon DEF CreateOp
  <1>3. /\ new \in OpRecord /\ new.state # "none" /\ new.told = "nothing"
        /\ new.duplicates = {} /\ ~Timed(new) /\ Regular(new)
    <2>1. ActivePeers(s) \in Nat
      BY <1>1, Zenon DEF ActivePeers, Counting
    <2>2. 0 \in 0..(Levels + 1) /\ 0 \in Nat /\ <<>> \in Seq(Device) /\ <<>> \in Seq(Node)
      BY DEF Levels, Config
    <2>3. /\ N \in OpRecord /\ N.state = "query" /\ N.told = "nothing" /\ N.duplicates = {}
          /\ N.phase = "requested" /\ ~N.queryTimer /\ ~N.totalTimer /\ N.oneTimer = "none"
      BY <2>1, <2>2, Zenon DEF NewOp, OpRecord
    <2> HIDE DEF N
    <2>4. PICK st \in {"query", "duplicate"} : new = [N EXCEPT !.state = st]
      BY <2>3, Zenon
    <2>5. /\ new \in OpRecord /\ new.state = st /\ new.told = "nothing"
          /\ new.duplicates = {} /\ new.phase = "requested"
          /\ ~new.queryTimer /\ ~new.totalTimer /\ new.oneTimer = "none"
      BY <2>3, <2>4, Zenon DEF OpRecord
    <2> HIDE DEF new
    <2>6. st # "none"
      BY <2>4
    <2> QED
      BY <2>5, <2>6, Zenon DEF Timed, Regular
  <1> HIDE DEF new
  <1>4. \A p \in Alike(s, o) : p \in Known(s) /\ p \in Op /\ s.ops[p].state # "none"
    BY Zenon DEF Alike, Known
  <1>5. ASSUME NEW p \in Op \ {o}
        PROVE  /\ Old(p) \in OpRecord
               /\ Old(p).told = s.ops[p].told /\ (Timed(Old(p)) => Timed(s.ops[p]))
               /\ Old(p).state = "none" <=> s.ops[p].state = "none"
               /\ s.ops[p].duplicates \subseteq Old(p).duplicates
               /\ Old(p).duplicates \subseteq s.ops[p].duplicates \cup {o}
               /\ o \in Old(p).duplicates => o \in s.ops[p].duplicates \/ p \in Known(s)
               /\ Regular(s.ops[p]) => Regular(Old(p))
    <2> DEFINE r == s.ops[p]
    <2>1. r \in OpRecord
      BY <1>1, Zenon
    <2>2. CASE p \in orphans
      <3>1. Old(p) = [r EXCEPT !.state = "failed"]
        BY <2>2, Zenon
      <3>2. r.state # "none"
        BY <1>4, <2>2, Zenon
      <3> HIDE DEF orphans, merged, Old, r
      <3>3. /\ Old(p) \in OpRecord /\ Old(p).state = "failed" /\ Old(p).told = r.told
            /\ Old(p).duplicates = r.duplicates /\ Old(p).phase = r.phase
            /\ Old(p).level = r.level /\ Old(p).queryTimer = r.queryTimer
            /\ Old(p).totalTimer = r.totalTimer /\ Old(p).oneTimer = r.oneTimer
        BY <2>1, <3>1, Zenon DEF OpRecord
      <3>4. Timed(Old(p)) = Timed(r) /\ (Regular(r) => Regular(Old(p)))
        BY <3>3, Zenon DEF Timed, Regular
      <3> QED
        BY <3>2, <3>3, <3>4, Zenon DEF r
    <2>3. CASE p \notin orphans /\ p \in merged
      <3>1. Old(p) = [r EXCEPT !.duplicates = r.duplicates \cup {o}]
        BY <2>3, Zenon
      <3>2. p \in Known(s)
        BY <1>4, <2>3, Zenon
      <3>3. r.duplicates \cup {o} \in SUBSET Op
        BY <2>1, Zenon DEF OpRecord
      <3> HIDE DEF orphans, merged, Old, r
      <3>4. /\ Old(p) \in OpRecord /\ Old(p).state = r.state /\ Old(p).told = r.told
            /\ Old(p).duplicates = r.duplicates \cup {o} /\ Old(p).phase = r.phase
            /\ Old(p).level = r.level /\ Old(p).queryTimer = r.queryTimer
            /\ Old(p).totalTimer = r.totalTimer /\ Old(p).oneTimer = r.oneTimer
        BY <2>1, <3>1, <3>3, Zenon DEF OpRecord
      <3>5. Timed(Old(p)) = Timed(r) /\ (Regular(r) => Regular(Old(p)))
        BY <3>4, Zenon DEF Timed, Regular
      <3> QED
        BY <3>2, <3>4, <3>5, Zenon DEF r
    <2>4. CASE p \notin orphans /\ p \notin merged
      <3>1. Old(p) = r
        BY <2>4, Zenon
      <3> HIDE DEF orphans, merged, Old
      <3> QED
        BY <2>1, <3>1, Zenon
    <2> QED
      BY <2>2, <2>3, <2>4, Zenon
  <1> HIDE DEF Old
  <1>6. ops \in [Op -> OpRecord] /\ ops[o] = new /\ \A p \in Op \ {o} : ops[p] = Old(p)
    BY <1>3, <1>5, Zenon
  <1> HIDE DEF ops
  <1>7. /\ c \in Process /\ c.ops = ops /\ c.view = s.view /\ c.work = s.work
        /\ c.out = s.out
    BY <1>2, <1>6, Zenon DEF Process
  <1> HIDE DEF c
  <1>8. /\ c.ops[o] = new /\ \A p \in Op \ {o} : c.ops[p] = Old(p)
    BY <1>6, <1>7, Zenon
  <1>9. (\A p \in Op : Regular(s.ops[p])) => \A p \in Op : Regular(c.ops[p])
    BY <1>3, <1>5, <1>8, Zenon
  <1>10. Creates(s, c, o)
    BY <1>3, <1>5, <1>7, <1>8, <1>9, Zenon DEF Creates
  <1> QED
    BY <1>3, <1>7, <1>8, <1>10, Zenon DEF c

(* Daemon n creates o and goes to state t having taken the messages in H. *)
CreatesAt(f, n, t, o, H) ==
  /\ Creates(f[n], t, o) /\ o \notin Known(f[n]) /\ (Rooted(f, o) \/ Owner(n, o))
  /\ t.work \subseteq f[n].work \cup H
  /\ \A h \in H : h.type # "broadcast" /\ h.op = o
  /\ \A p \in Op : Regular(f[n].ops[p])

(* What a new record in the table (create_remote_stonith_op) adds to what  *)
(* n knows                                                                 *)
LEMMA CreatesLearns ==
    ASSUME NEW f, NEW b, Originated(f, b), NEW n \in Node, NEW t, NEW o \in Op, NEW H,
           CreatesAt(f, n, t, o, H)
    PROVE  Learns(f, n, t, H)
  <1> USE DEF CreatesAt
  <1> DEFINE s == f[n]
  <1>1. s.ops[o].state = "none"
    BY Zenon DEF Known
  <1>2. s.ops[o].told = "nothing"
    BY <1>1, Zenon DEF Regular
  <1>3. Known(t) = Known(s) \cup {o}
    BY Zenon DEF Creates, Known
  <1>4. \A p \in Op : \A q \in s.ops[p].duplicates : {q, p} \subseteq Known(s)
    BY Zenon DEF Originated
  <1>5. s.ops[o].duplicates = {}
    BY <1>4, Zenon
  <1> HIDE DEF s
  <1>6. \A p \in Op : s.ops[p].duplicates \subseteq t.ops[p].duplicates
    BY <1>5, Zenon DEF Creates, s
  <1>7. \A p \in Op : \A q \in t.ops[p].duplicates :
          q \in s.ops[p].duplicates \/ (q = o /\ p \in Known(s))
    BY Zenon DEF Creates, s
  <1>8. o \notin Known(s)
    BY Zenon DEF s
  <1>9. Grows(s, t)
    BY <1>3, <1>6, <1>7, <1>8, Zenon DEF Grows
  <1>10. \A p \in Op : t.ops[p].told = s.ops[p].told
    BY <1>2, Zenon DEF Creates, s
  <1>11. Tells(s, t, H)
    BY <1>10, Zenon DEF Tells, Announces
  <1>12. \A p \in Known(t) \ Known(s) : Rooted(f, p) \/ Owner(n, p)
    BY <1>3, Zenon
  <1> QED
    BY <1>2, <1>3, <1>9, <1>11, <1>12, Zenon DEF Learns, s

(* An operation that is new at its originator is new everywhere, and new   *)
(* operations stand for no others.                                         *)
LEMMA CreatesSound ==
    ASSUME conf \in Config, NEW f \in [Node -> Process], NEW b, Originated(f, b),
           NEW n \in Node, NEW t, NEW o \in Op, Owner(n, o), o \notin Known(f[n]),
           Creates(f[n], t, o), NEW E \in SUBSET Op, o \in E
    PROVE  o \in Sound([f EXCEPT ![n] = t], E)
  <1>1. \A x \in Node : f[x].ops[o].duplicates = {}
    <2>1. \A x \in Node : o \notin Known(f[x])
      BY Zenon DEF Originated, Rooted, Owner
    <2> QED
      BY <2>1, Zenon DEF Originated
  <1>2. t.ops[o].duplicates = {}
    BY Zenon DEF Creates
  <1>3. \A x \in Node : [f EXCEPT ![n] = t][x].ops[o].duplicates = {}
    BY <1>1, <1>2, Zenon
  <1>4. \A p \in Requested : conf.at[p] \in Node
    BY RequestedType, Zenon
  <1> QED
    BY <1>3, <1>4, Zenon DEF Sound

(* The originator has created o and sends m to all nodes or to nobody. *)
LEMMA RequestStep ==
    ASSUME Counting, Inv, NEW n \in Node, n \in live, NEW o \in Op, Owner(n, o),
           o \notin Known(fencer[n]),
           NEW t, Creates(fencer[n], t, o), t.work = fencer[n].work,
           NEW to \in {{}, Node}, NEW m \in Message, t.out = Posted(fencer[n], to, m),
           Timed(t.ops[o]) => m = QueryMsg(o) /\ to = Node,
           to = Node => m = QueryMsg(o) \/ (m = BroadcastMsg(o, "ok") /\ o \in fenced'),
           m.type = "broadcast" => to = Node,
           fenced \subseteq fenced', fenced' \in SUBSET Op,
           \A p \in fenced : o \in t.ops[p].duplicates => o \in fenced',
           Commit(n, t, inbox), UNCHANGED <<conf, live, off>>
    PROVE  Inv'
  <1> DEFINE s == fencer[n]
             H == {}
             g == [fencer EXCEPT ![n] = t]
  <1>1. /\ conf \in Config /\ fencer \in [Node -> Process] /\ s.out = NoMail
        /\ live \in SUBSET Node /\ Originated(fencer, inbox) /\ fenced \in SUBSET Op
        /\ \A p \in Op : Regular(s.ops[p])
    BY Zenon DEF Inv, InvOf, TypeOf
  <1>2. /\ Takes(inbox, inbox, n, H) /\ t.work \subseteq s.work \cup H
        /\ \A h \in H : h.type # "broadcast" /\ h.op = o
    BY Zenon DEF Takes
  <1> HIDE DEF H
  <1>a. CreatesAt(fencer, n, t, o, H)
    BY <1>1, <1>2, Zenon DEF CreatesAt
  <1>3. Learns(fencer, n, t, H) /\ Known(t) = Known(s) \cup {o} /\ s.ops[o].told = "nothing"
    <2>1. Originated(fencer, inbox) /\ CreatesAt(fencer, n, t, o, H)
      BY <1>1, <1>a, Zenon
    <2>2. Learns(fencer, n, t, H)
      BY <2>1, CreatesLearns, Zenon
    <2>3. Known(t) = Known(fencer[n]) \cup {o}
      BY Zenon DEF Creates, Known
    <2>4. fencer[n].ops[o].told = "nothing"
      BY <1>1, Zenon DEF Regular, Known
    <2> QED
      BY <2>2, <2>3, <2>4, Zenon
  <1>4. t \in Process /\ \A p \in Op : Regular(t.ops[p])
    BY <1>1, Zenon DEF Creates
  <1>5. /\ QueryMsg(o).type = "query" /\ QueryMsg(o).op = o
        /\ BroadcastMsg(o, "ok").type = "broadcast" /\ BroadcastMsg(o, "ok").op = o
        /\ BroadcastMsg(o, "ok").result = "ok"
    BY Zenon DEF QueryMsg, BroadcastMsg
  <1>6. Sends(fencer, inbox, live, n, t, to, m)
    <2>1. \A p \in Op : Timed(t.ops[p]) => Timed(s.ops[p]) \/ (m = QueryMsg(p) /\ to = Node)
      BY Zenon DEF Creates
    <2>2. to # {} /\ m.type \notin {"left", "broadcast"} => m = QueryMsg(m.op) /\ to = Node
      BY <1>5, Zenon
    <2>3. Asks(fencer, inbox, live, n, t, to, m)
      BY <2>1, <2>2, Zenon DEF Asks
    <2>4. to # {} => m.op = o /\ ~Failure(m)
      BY <1>5 DEF Failure
    <2> QED
      BY <1>3, <2>3, <2>4, Zenon DEF Sends
  <1>7. Proves(fencer, fenced, n, t, g, to, m, fenced')
    <2>1. \A p \in fenced : \A q \in t.ops[p].duplicates :
            Owner(n, q) /\ q \notin s.ops[p].duplicates => q \in fenced'
      BY <1>1, Zenon DEF Creates
    <2>2. \A p \in Op : t.ops[p].told = s.ops[p].told
      BY <1>3, Zenon DEF Creates
    <2>3. to # {} => Honest(m, Sound(g, fenced'))
      <3>1. o \in fenced' => o \in Sound(g, fenced')
        BY <1>1, CreatesSound, Zenon
      <3> HIDE DEF g
      <3>2. CASE m = QueryMsg(o)
        <4>1. m.type = "query"
          BY <1>5, <3>2, Zenon
        <4> QED
          BY <4>1 DEF Honest
      <3>3. CASE m = BroadcastMsg(o, "ok") /\ o \in fenced'
        <4>1. m.type # "fence" /\ m.op \in Sound(g, fenced')
          BY <1>5, <3>1, <3>3
        <4> QED
          BY <4>1, Zenon DEF Honest
      <3> QED
        BY <3>2, <3>3, Zenon
    <2> HIDE DEF g
    <2> QED
      BY <2>1, <2>2, <2>3, Zenon DEF Proves
  <1>8. Kept /\ live' = live
    <2>1. off \in SUBSET (Device \cup {NoDev})
      BY Zenon DEF Inv
    <2> QED
      BY <1>1, <2>1, Zenon DEF Kept
  <1> QED
    BY <1>2, <1>3, <1>4, <1>6, <1>7, <1>8, CommitPreservesInv, Zenon DEF g

LEMMA CreatesUpdate ==
    ASSUME NEW s, NEW c, NEW o \in Op, Creates(s, c, o), NEW q, Moves(c.ops[o], q),
           q.state # "none"
    PROVE  Creates(s, Update(c, o, q), o)
  <1> DEFINE t == Update(c, o, q)
  <1>1. c \in Process /\ c.ops[o].told = "nothing" /\ c.ops[o].duplicates = {}
    BY Zenon DEF Creates
  <1>2. /\ q \in OpRecord /\ q.told = "nothing" /\ q.duplicates = {}
        /\ Regular(c.ops[o]) => Regular(q)
    BY <1>1, Zenon DEF Moves
  <1>3. t \in Process /\ t.ops[o] = q /\ \A p \in Op \ {o} : t.ops[p] = c.ops[p]
    BY <1>1, <1>2, UpdateFacts, Zenon
  <1> HIDE DEF t
  <1>4. (\A p \in Op : Regular(s.ops[p])) => \A p \in Op : Regular(t.ops[p])
    <2>1. (\A p \in Op : Regular(s.ops[p])) => \A p \in Op : Regular(c.ops[p])
      BY Zenon DEF Creates
    <2> QED
      BY <1>2, <1>3, <2>1, Zenon
  <1>5. Creates(s, t, o)
    BY <1>2, <1>3, <1>4, Zenon DEF Creates
  <1> QED
    BY <1>5, Zenon DEF t

LEMMA CreatesSend ==
    ASSUME NEW s, NEW c, NEW o \in Op, Creates(s, c, o), NEW to, NEW m \in Message
    PROVE  Creates(s, Send(c, to, m), o)
  <1> DEFINE t == Send(c, to, m)
  <1>1. c \in Process
    BY Zenon DEF Creates
  <1>2. t \in Process /\ t.ops = c.ops
    BY <1>1, SendFacts, Zenon
  <1> HIDE DEF t
  <1>3. Creates(s, t, o)
    BY <1>2, Zenon DEF Creates
  <1> QED
    BY <1>3, Zenon DEF t

(* The originator updates the operation it has created and sends m. *)
Opened(s, c, t, o, q, to, m) ==
  /\ Creates(s, t, o) /\ t.work = s.work /\ t.out = Posted(s, to, m)
  /\ t.ops[o] = q /\ \A p \in Op \ {o} : t.ops[p] = c.ops[p]

LEMMA CreatedFacts ==
    ASSUME NEW s, NEW c, NEW o \in Op, Creates(s, c, o), NEW q, Moves(c.ops[o], q),
           q.state # "none", NEW to, NEW m \in Message,
           c.work = s.work, c.out = s.out
    PROVE  Opened(s, c, Send(Update(c, o, q), to, m), o, q, to, m)
  <1> DEFINE u == Update(c, o, q)
             t == Send(u, to, m)
  <1>1. c \in Process /\ q \in OpRecord
    BY Zenon DEF Creates, Moves
  <1>2. /\ u \in Process /\ u.ops[o] = q /\ u.work = c.work /\ u.out = c.out
        /\ \A p \in Op \ {o} : u.ops[p] = c.ops[p]
    BY <1>1, UpdateFacts, Zenon
  <1>3. Creates(s, u, o)
    BY CreatesUpdate, Zenon
  <1> HIDE DEF u
  <1>4. t.ops = u.ops /\ t.work = u.work /\ t.out = Posted(u, to, m)
    BY <1>2, SendFacts, Zenon
  <1>5. Creates(s, t, o)
    BY <1>3, CreatesSend, Zenon
  <1>6. Posted(u, to, m) = Posted(s, to, m)
    BY <1>2, Zenon DEF Posted
  <1> HIDE DEF t
  <1>7. Opened(s, c, t, o, q, to, m)
    BY <1>2, <1>4, <1>5, <1>6, Zenon DEF Opened
  <1> QED
    BY <1>7, Zenon DEF t, u

(* handle_fence_request for a client *)
LEMMA RequestPreservesInv ==
    ASSUME Counting, Inv, NEW n \in Node, NEW o \in Op, Request(n, o)
    PROVE  Inv'
  <1> DEFINE s == fencer[n]
  <1>1. /\ conf \in Config /\ s \in Process /\ s.out = NoMail /\ fenced \in SUBSET Op
        /\ \A p \in Op : Regular(s.ops[p])
    BY Zenon DEF Inv, InvOf, TypeOf
  <1>2. /\ n \in live /\ Owner(n, o) /\ o \notin Known(s) /\ o \in Requested
        /\ UNCHANGED <<conf, live, off>>
    BY Zenon DEF Request, Known, Owner
  <1>3. PICK old \in SUBSET MayBeOld(s) :
          IF o \in conf.manual
          THEN /\ Commit(n, ManualConfirmation(n, s, o, old), inbox)
               /\ fenced' = fenced \cup {o}
          ELSE /\ Commit(n, InitiateOp(n, s, o, old), inbox)
               /\ fenced' = IF \/ Cut(off)
                               \/ \E p \in fenced : o \in CreateOp(s, o, old).ops[p].duplicates
                            THEN fenced \cup {o} ELSE fenced
    BY Zenon DEF Request
  <1> DEFINE c == CreateOp(s, o, old)
             r == c.ops[o]
  <1>4. Creates(s, c, o) /\ c.work = s.work /\ c.out = s.out /\ ~Timed(r)
    BY <1>1, CreateOpFacts, Zenon
  <1>5. /\ r \in OpRecord /\ r.told = "nothing" /\ r.duplicates = {} /\ r.state # "none"
        /\ c \in Process /\ Regular(r)
    BY <1>1, <1>4, Zenon DEF Creates, Process
  <1>6. CASE o \in conf.manual
    <2> DEFINE d == [r EXCEPT !.state = "done", !.result = "ok"]
               q == [ClearTimers(d) EXCEPT !.phase = "requested"]
               m == BroadcastMsg(o, "ok")
               t == Send(Update(c, o, q), Node, m)
    <2>1. d \in OpRecord /\ d.told = "nothing" /\ d.result = "ok"
      BY <1>5, Zenon DEF OpRecord
    <2>2. ManualConfirmation(n, s, o, old) = t
      BY <2>1, Zenon DEF ManualConfirmation, FinalizeOp
    <2>3. Moves(r, q) /\ q.state # "none" /\ ~Timed(q)
      <3>1. /\ d.state = "done" /\ d.duplicates = r.duplicates /\ d.phase = r.phase
            /\ d.level = r.level
        BY <1>5, Zenon DEF OpRecord
      <3> HIDE DEF d
      <3> DEFINE e == ClearTimers(d)
      <3>a. /\ e \in OpRecord /\ e.told = d.told /\ e.state = d.state
            /\ e.duplicates = d.duplicates /\ e.queryTimer = FALSE /\ e.totalTimer = FALSE
            /\ e.oneTimer = "none"
        BY <2>1, Zenon DEF OpRecord, ClearTimers
      <3> HIDE DEF e
      <3>b. q = [e EXCEPT !.phase = "requested"]
        BY Zenon DEF e
      <3>2. /\ q \in OpRecord /\ q.told = d.told /\ q.state = d.state
            /\ q.duplicates = d.duplicates /\ q.phase = "requested"
            /\ ~q.queryTimer /\ ~q.totalTimer /\ q.oneTimer = "none"
        BY <3>a, <3>b, Zenon DEF OpRecord
      <3> HIDE DEF q
      <3>3. "done" # "none"
        OBVIOUS
      <3> QED
        BY <1>5, <2>1, <3>1, <3>2, <3>3, Zenon DEF Moves, Regular, Timed
    <2>4. m \in Message
      BY <1>2, Zenon DEF BroadcastMsg, Message
    <2> HIDE DEF q, m, c
    <2>5. /\ Creates(s, t, o) /\ t.work = s.work /\ t.out = Posted(s, Node, m)
          /\ t.ops[o] = q
      <3>1. Opened(s, c, t, o, q, Node, m)
        BY <1>4, <2>3, <2>4, CreatedFacts, Zenon
      <3> QED
        BY <3>1, Zenon DEF Opened
    <2>6. Commit(n, t, inbox) /\ fenced' = fenced \cup {o}
      BY <1>3, <1>6, <2>2, Zenon
    <2> HIDE DEF t
    <2>7. /\ fenced \subseteq fenced' /\ fenced' \in SUBSET Op /\ o \in fenced'
          /\ \A p \in fenced : o \in t.ops[p].duplicates => o \in fenced'
      BY <1>1, <2>6, Zenon
    <2>8. Timed(t.ops[o]) => m = QueryMsg(o) /\ Node = Node
      BY <2>3, <2>5, Zenon
    <2>9. Node \in {{}, Node} /\ m = BroadcastMsg(o, "ok")
      BY Zenon DEF m
    <2> QED
      BY <1>2, <2>4, <2>5, <2>6, <2>7, <2>8, <2>9, RequestStep, Zenon
  <1>7. CASE o \notin conf.manual
    <2> DEFINE q == IF Topology THEN AdvanceLevel(r) ELSE r
    <2>1. /\ Moves(r, q) /\ q.state = r.state /\ q.queryTimer = r.queryTimer
          /\ q.totalTimer = r.totalTimer /\ q.oneTimer = r.oneTimer
      <3>1. CASE Topology
        <4>1. r.level + 1 \in Nat /\ r.level + 1 > 0
          <5>1. r.level \in 0..(Levels + 1)
            BY <1>5, Zenon DEF OpRecord
          <5> HIDE DEF r
          <5> QED
            BY <5>1
        <4> DEFINE l == r.level + 1
        <4>2. q = AtLevel(r, l)
          BY <3>1, Zenon DEF AdvanceLevel
        <4> HIDE DEF l, r
        <4>3. l \in Nat /\ l > 0
          BY <4>1, Zenon DEF l
        <4> QED
          BY <1>1, <1>5, <3>1, <4>2, <4>3, AtLevelMoves, Zenon
      <3>2. CASE ~Topology
        <4>1. q = r
          BY <3>2, Zenon
        <4> HIDE DEF q
        <4> QED
          BY <1>5, <4>1, Zenon DEF Moves
      <3> QED
        BY <3>1, <3>2, Zenon
    <2>2. /\ Commit(n, InitiateOp(n, s, o, old), inbox)
          /\ fenced' = IF Cut(off) \/ \E p \in fenced : o \in c.ops[p].duplicates
                       THEN fenced \cup {o} ELSE fenced
      BY <1>3, <1>7, Zenon
    <2>3. InitiateOp(n, s, o, old) =
            IF q.state = "duplicate" THEN Update(c, o, q)
            ELSE Send(Update(c, o, [q EXCEPT !.queryTimer = TRUE]), Node, QueryMsg(o))
      BY Zenon DEF InitiateOp
    <2> HIDE DEF q, c, r
    <2>4. /\ fenced \subseteq fenced' /\ fenced' \in SUBSET Op
          /\ \A p \in fenced : o \in c.ops[p].duplicates => o \in fenced'
      BY <1>1, <2>2, Zenon
    <2>5. CASE q.state = "duplicate"
      <3> DEFINE t == Update(c, o, q)
                 m == LeftMsg(n)
                 to == {}
      <3>1. /\ Creates(s, t, o) /\ t.work = s.work /\ t.out = s.out /\ t.ops[o] = q
            /\ \A p \in Op \ {o} : t.ops[p] = c.ops[p]
        <4>1. q \in OpRecord /\ q.state # "none"
          BY <1>5, <2>1, Zenon DEF Moves
        <4>2. Creates(s, t, o)
          BY <1>4, <2>1, <4>1, CreatesUpdate, Zenon DEF r
        <4> QED
          BY <1>4, <1>5, <4>1, <4>2, UpdateFacts, Zenon
      <3>2. Commit(n, t, inbox)
        BY <2>2, <2>3, <2>5, Zenon
      <3> HIDE DEF t
      <3>3. m \in Message /\ m.type = "left" /\ t.out = Posted(s, to, m)
        BY <1>1, <3>1, NothingPosted, Zenon
      <3>4. ~Timed(t.ops[o])
        BY <1>4, <2>1, <3>1, Zenon DEF Timed
      <3>5. \A p \in fenced : o \in t.ops[p].duplicates => o \in fenced'
        <4>1. t.ops[o].duplicates = {}
          BY <3>1, Zenon DEF Creates
        <4> QED
          BY <1>1, <2>4, <3>1, <4>1, Zenon
      <3>6. to \in {{}, Node} /\ to # Node /\ m.type # "broadcast"
        BY <3>3, Zenon
      <3> HIDE DEF to, m
      <3> QED
        BY <1>2, <2>4, <3>1, <3>2, <3>3, <3>4, <3>5, <3>6, RequestStep, Zenon
    <2>6. CASE q.state # "duplicate"
      <3> DEFINE e == [q EXCEPT !.queryTimer = TRUE]
                 m == QueryMsg(o)
                 t == Send(Update(c, o, e), Node, m)
      <3>1. Moves(r, e) /\ e.state # "none"
        <4>1. /\ q \in OpRecord /\ q.state # "none"
          BY <1>5, <2>1, Zenon DEF Moves
        <4>2. /\ e \in OpRecord /\ e.state = q.state /\ e.told = q.told
              /\ e.duplicates = q.duplicates /\ e.phase = q.phase /\ e.level = q.level
          BY <4>1, Zenon DEF OpRecord
        <4> HIDE DEF e
        <4> QED
          BY <2>1, <4>1, <4>2, Zenon DEF Moves, Regular
      <3>2. m \in Message /\ m.type = "query"
        BY <1>2, Zenon DEF QueryMsg, Message
      <3>3. Commit(n, t, inbox)
        BY <2>2, <2>3, <2>6, Zenon
      <3> HIDE DEF e, m
      <3>4. Opened(s, c, t, o, e, Node, m)
        BY <1>4, <3>1, <3>2, CreatedFacts, Zenon DEF r
      <3>5. /\ Creates(s, t, o) /\ t.work = s.work /\ t.out = Posted(s, Node, m)
            /\ \A p \in Op \ {o} : t.ops[p] = c.ops[p]
        BY <3>4, Zenon DEF Opened
      <3> HIDE DEF t
      <3>6. \A p \in fenced : o \in t.ops[p].duplicates => o \in fenced'
        <4>1. t.ops[o].duplicates = {}
          BY <3>5, Zenon DEF Creates
        <4> QED
          BY <1>1, <2>4, <3>5, <4>1, Zenon
      <3> DEFINE to == Node
      <3>7. /\ to \in {{}, Node} /\ (m.type = "broadcast" => to = Node)
            /\ Timed(t.ops[o]) => m = QueryMsg(o) /\ to = Node
            /\ to = Node => m = QueryMsg(o) \/ (m = BroadcastMsg(o, "ok") /\ o \in fenced')
            /\ t.out = Posted(s, to, m)
        BY <3>2, <3>5, Zenon DEF m
      <3> HIDE DEF to
      <3> QED
        BY <1>2, <2>4, <3>2, <3>3, <3>5, <3>6, <3>7, RequestStep, Zenon
    <2> QED
      BY <2>5, <2>6, Zenon
  <1> QED
    BY <1>6, <1>7, Zenon

-----------------------------------------------------------------------------
(* Delivering messages *)

(* The message that is delivered to node n, and what is known of it *)
LEMMA DeliverFacts ==
    ASSUME Inv, NEW n \in Node, inbox[n] # <<>>
    PROVE  /\ Head(inbox[n]) \in Message /\ Head(inbox[n]) \in Pending(fencer, inbox, n)
           /\ Takes(inbox, [inbox EXCEPT ![n] = Tail(@)], n, {Head(inbox[n])})
  <1>1. inbox \in [Node -> Seq(Message)]
    BY Zenon DEF Inv, InvOf, TypeOf
  <1>2. inbox[n] \in Seq(Message)
    BY <1>1, Zenon
  <1>3. Head(inbox[n]) \in Message /\ Head(inbox[n]) \in Elems(inbox[n])
    <2>1. Head(inbox[n]) = inbox[n][1] /\ 1 \in 1..Len(inbox[n]) /\ Head(inbox[n]) \in Message
      BY <1>2
    <2> QED
      BY <2>1, Zenon DEF Elems
  <1> QED
    BY <1>3, Zenon DEF Pending, Takes

(* Something is known of operation m.op if m is pending. *)
LEMMA PendingFacts ==
    ASSUME Inv, NEW n \in Node, NEW m \in Pending(fencer, inbox, n), m.type # "left"
    PROVE  /\ Rooted(fencer, m.op) /\ m.op \in Requested /\ m.op \in Op
           /\ m.type # "broadcast" => Queried(fencer, inbox, live, m.op)
           /\ SingleDevices => Honest(m, Sound(fencer, fenced))
  <1>1. /\ conf \in Config /\ Originated(fencer, inbox) /\ QueriedFirst(fencer, inbox, live)
        /\ SingleDevices => Truthful(fencer, inbox, fenced)
    BY Zenon DEF Inv, InvOf
  <1>2. Rooted(fencer, m.op)
    BY <1>1, Zenon DEF Originated
  <1>3. m.op \in Requested
    BY <1>2, Zenon DEF Rooted
  <1>4. m.op \in Op
    BY <1>1, <1>3, RequestedType, Zenon
  <1>5. m.type # "broadcast" => Queried(fencer, inbox, live, m.op)
    BY <1>1, Zenon DEF QueriedFirst
  <1>6. SingleDevices => Honest(m, Sound(fencer, fenced))
    BY <1>1, Zenon DEF Truthful
  <1> QED
    BY <1>2, <1>3, <1>4, <1>5, <1>6, Zenon

(* Handlers that send nothing *)
Silent(n, t, H) ==
  /\ t \in Process /\ (\A o \in Op : Regular(t.ops[o])) /\ Learns(fencer, n, t, H)
  /\ t.out = NoMail /\ \A o \in Op : Timed(t.ops[o]) => Timed(fencer[n].ops[o])
  /\ SingleDevices =>
       /\ \A p \in fenced : \A o \in t.ops[p].duplicates :
            Owner(n, o) => o \in fencer[n].ops[p].duplicates
       /\ \A o \in Op : t.ops[o].told = "ok" =>
            fencer[n].ops[o].told = "ok" \/ IF Owner(n, o) THEN o \in fenced ELSE fenced # {}

(* A message is handled without anything being sent. *)
LEMMA SilentPreservesInv ==
    ASSUME Counting, Inv, NEW n \in Node, n \in live, NEW c, NEW H, Takes(inbox, c, n, H),
           NEW t, Silent(n, t, H), Commit(n, t, c), UNCHANGED <<conf, live, off, fenced>>
    PROVE  Inv'
  <1> DEFINE g == [fencer EXCEPT ![n] = t]
             to == {}
             m == LeftMsg(n)
  <1>1. /\ conf \in Config /\ fencer[n].out = NoMail /\ fenced \in SUBSET Op
        /\ off \in SUBSET (Device \cup {NoDev})
    BY Zenon DEF Inv, InvOf, TypeOf
  <1>2. /\ t \in Process /\ (\A o \in Op : Regular(t.ops[o])) /\ Learns(fencer, n, t, H)
        /\ t.out = NoMail /\ \A o \in Op : Timed(t.ops[o]) => Timed(fencer[n].ops[o])
    BY Zenon DEF Silent
  <1>3. m \in Message /\ m.type = "left" /\ t.out = Posted(fencer[n], to, m)
    BY <1>1, <1>2, NothingPosted, Zenon
  <1>4. to = {} /\ to \in SUBSET Node
    BY Zenon
  <1> HIDE DEF g, to, m
  <1>5. Sends(fencer, inbox, live, n, t, to, m)
    BY <1>2, <1>3, <1>4, Zenon DEF Sends, Asks
  <1>6. SingleDevices => Proves(fencer, fenced, n, t, g, to, m, fenced')
    <2>1. fenced' = fenced
      BY Zenon
    <2> QED
      BY <1>4, <2>1, Zenon DEF Silent, Proves
  <1>7. Kept /\ live' = live /\ fenced' \in SUBSET Op
    BY <1>1, Zenon DEF Kept
  <1> QED
    BY <1>2, <1>3, <1>5, <1>6, <1>7, CommitPreservesInv, Zenon DEF g

(* Handlers that leave the table of operations alone *)
LEMMA SameOpsSilent ==
    ASSUME Inv, NEW n \in Node, NEW t \in Process, t.ops = fencer[n].ops, t.out = NoMail,
           NEW H, t.work \subseteq fencer[n].work \cup H,
           \A h \in H : h.type # "broadcast" /\ (h.type = "query" => h.op \in Known(fencer[n]))
    PROVE  Silent(n, t, H)
  <1>1. \A o \in Op : Regular(t.ops[o])
    BY Zenon DEF Inv, InvOf, TypeOf
  <1>2. Known(t) = Known(fencer[n])
    BY Zenon DEF Known
  <1>3. Grows(fencer[n], t)
    BY <1>2, Zenon DEF Grows
  <1>4. Tells(fencer[n], t, H)
    BY Zenon DEF Tells, Announces
  <1>5. Learns(fencer, n, t, H)
    BY <1>2, <1>3, <1>4, Zenon DEF Learns
  <1> QED
    BY <1>1, <1>5, Zenon DEF Silent

(* finalize_op for a broadcast: clients of o, and of the operations merged *)
(* with it, are told v unless they were told before.                       *)
Concludes(c, t, o, v) ==
  /\ t \in Process /\ t.work = c.work /\ t.out = c.out
  /\ \A p \in Op : /\ t.ops[p].duplicates = c.ops[p].duplicates
                   /\ t.ops[p].state = "none" <=> c.ops[p].state = "none"
                   /\ Timed(t.ops[p]) => Timed(c.ops[p])
                   /\ Regular(c.ops[p]) => Regular(t.ops[p])
                   /\ \/ t.ops[p].told = c.ops[p].told
                      \/ p = o /\ c.ops[p].told = "nothing" /\ t.ops[p].told = v
                      \/ p \in c.ops[o].duplicates /\ t.ops[p].told = v
  /\ c.ops[o].told = "nothing" => t.ops[o].told = v

(* What becomes of one operation *)
Settles(q, r, v) ==
  /\ r \in OpRecord /\ r.duplicates = q.duplicates /\ r.state # "none" /\ ~Timed(r)
  /\ Regular(q) => Regular(r)
  /\ r.told = IF q.told = "nothing" THEN v ELSE q.told

LEMMA NoResults == <<>> \in Seq(Node)
  OBVIOUS

LEMMA NotifySettles ==
    ASSUME NEW q \in OpRecord, NEW st \in {"done", "failed"},
           NEW res \in {"unknown", "ok", "error", "timeout", "no device"}
    PROVE  /\ q.told = "nothing" =>
                Settles(q, Notify([q EXCEPT !.state = st, !.result = res]),
                        IF res = "ok" THEN "ok" ELSE "failure")
           /\ q.told # "nothing" =>
                /\ Settles(q, ClearTimers([q EXCEPT !.state = st, !.result = res]), "ok")
                /\ Settles(q, [ClearTimers(q) EXCEPT !.state = st, !.result = res], "ok")
  <1> DEFINE r == [q EXCEPT !.state = st, !.result = res]
             v == IF res = "ok" THEN "ok" ELSE "failure"
  <1>1. /\ r \in OpRecord /\ r.state = st /\ r.result = res /\ r.told = q.told
        /\ r.duplicates = q.duplicates /\ r.phase = q.phase /\ r.level = q.level
    BY Zenon DEF OpRecord
  <1>2. st # "none"
    OBVIOUS
  <1> HIDE DEF r
  <1> DEFINE e == ClearTimers(r)
  <1>3. /\ e \in OpRecord /\ e.state = st /\ e.told = q.told
        /\ e.duplicates = q.duplicates /\ e.phase = q.phase /\ e.level = q.level
        /\ e.queryTimer = FALSE /\ e.totalTimer = FALSE /\ e.oneTimer = "none"
    BY <1>1, Zenon DEF OpRecord, ClearTimers
  <1> HIDE DEF e
  <1>4. ASSUME q.told = "nothing" PROVE Settles(q, Notify(r), v)
    <2>1. Notify(r) = [e EXCEPT !.phase = "requested", !.results = <<>>, !.used = {}, !.told = v]
      BY <1>1, Zenon DEF Notify, e
    <2>2. v \in {"nothing", "ok", "failure"}
      BY Zenon
    <2> HIDE DEF v
    <2> DEFINE u == Notify(r)
    <2>b. e \in OpRecord
      BY <1>3, Zenon
    <2>c. u \in OpRecord
      BY <2>1, <2>2, <2>b, NoResults, Zenon DEF OpRecord
    <2>3. /\ u.state = st /\ u.told = v /\ u.phase = "requested"
          /\ u.duplicates = q.duplicates
          /\ u.queryTimer = FALSE /\ u.totalTimer = FALSE /\ u.oneTimer = "none"
      BY <1>3, <2>1, Zenon DEF OpRecord
    <2> HIDE DEF u
    <2>4. Settles(q, u, v)
      BY <1>2, <1>4, <2>c, <2>3, Zenon DEF Settles, Timed, Regular
    <2> QED
      BY <2>4, Zenon DEF u
  <1>5. ASSUME q.told # "nothing" PROVE Settles(q, e, "ok")
    BY <1>2, <1>3, <1>5, Zenon DEF Settles, Timed, Regular
  <1>6. ASSUME q.told # "nothing"
        PROVE  Settles(q, [ClearTimers(q) EXCEPT !.state = st, !.result = res], "ok")
    <2> DEFINE d == ClearTimers(q)
               u == [d EXCEPT !.state = st, !.result = res]
    <2>1. /\ d \in OpRecord /\ d.told = q.told
          /\ d.duplicates = q.duplicates /\ d.phase = q.phase /\ d.level = q.level
          /\ d.queryTimer = FALSE /\ d.totalTimer = FALSE /\ d.oneTimer = "none"
      BY Zenon DEF OpRecord, ClearTimers
    <2> HIDE DEF d
    <2>a. d \in OpRecord
      BY <2>1, Zenon
    <2>b. u \in OpRecord
      BY <2>a, Zenon DEF OpRecord
    <2>2. /\ u.state = st /\ u.told = q.told
          /\ u.duplicates = q.duplicates /\ u.phase = q.phase /\ u.level = q.level
          /\ u.queryTimer = FALSE /\ u.totalTimer = FALSE /\ u.oneTimer = "none"
      BY <2>1, Zenon DEF OpRecord
    <2> HIDE DEF u
    <2>3. Settles(q, u, "ok")
      BY <1>2, <1>6, <2>b, <2>2, Zenon DEF Settles, Timed, Regular
    <2> QED
      BY <2>3, Zenon DEF u, d
  <1> QED
    BY <1>4, <1>5, <1>6, Zenon DEF r, e

(* finalize_op for a broadcast, with finalize_op_duplicates *)
LEMMA FinalizeBroadcastFacts ==
    ASSUME NEW c \in Process, NEW o \in Op, c.ops[o].state # "none",
           NEW res \in {"unknown", "ok", "error", "timeout", "no device"},
           NEW st \in {"done", "failed"}
    PROVE  Concludes(c, FinalizeBroadcast(c, o, [c.ops[o] EXCEPT !.result = res, !.state = st]),
                     o, IF res = "ok" THEN "ok" ELSE "failure")
  <1> DEFINE q == c.ops[o]
             r == [q EXCEPT !.result = res, !.state = st]
             t == FinalizeBroadcast(c, o, r)
             v == IF res = "ok" THEN "ok" ELSE "failure"
  <1>1. c.ops \in [Op -> OpRecord] /\ q \in OpRecord
    BY Zenon DEF Process
  <1>2. r = [q EXCEPT !.state = st, !.result = res]
    BY <1>1, Zenon DEF OpRecord
  <1>3. r.told = q.told /\ r.state = st /\ r.result = res /\ r.duplicates = q.duplicates
    BY <1>1, Zenon DEF OpRecord
  <1> HIDE DEF r, v
  <1>4. CASE q.told # "nothing"
    <2> DEFINE e == ClearTimers(r)
    <2>1. t = Update(c, o, e)
      BY <1>3, <1>4, Zenon DEF FinalizeBroadcast
    <2>2. Settles(q, e, "ok")
      BY <1>1, <1>2, <1>4, NotifySettles, Zenon
    <2> HIDE DEF e, t
    <2>3. /\ e \in OpRecord /\ e.duplicates = q.duplicates /\ e.state # "none" /\ ~Timed(e)
          /\ Regular(q) => Regular(e)
          /\ e.told = q.told
      BY <1>4, <2>2, Zenon DEF Settles
    <2>4. /\ t \in Process /\ t.ops[o] = e /\ \A p \in Op \ {o} : t.ops[p] = c.ops[p]
          /\ t.work = c.work /\ t.out = c.out
      BY <2>1, <2>3, UpdateFacts, Zenon
    <2>5. Concludes(c, t, o, v)
      BY <1>4, <2>3, <2>4, Zenon DEF Concludes
    <2> QED
      BY <2>5, Zenon DEF t, r, v
  <1>5. CASE q.told = "nothing"
    <2> DEFINE Dup(p) == IF c.ops[p].told # "nothing"
                         THEN [ClearTimers(c.ops[p]) EXCEPT !.state = st, !.result = res]
                         ELSE Notify([c.ops[p] EXCEPT !.state = st, !.result = res])
               W == [p \in Op |-> IF p = o THEN Notify(r)
                                 ELSE IF p \in q.duplicates /\ c.ops[p].state = "duplicate"
                                 THEN Dup(p) ELSE c.ops[p]]
    <2>1. t = [c EXCEPT !.ops = W]
      BY <1>3, <1>5, Zenon DEF FinalizeBroadcast
    <2>2. Settles(q, Notify(r), v)
      BY <1>1, <1>2, <1>5, NotifySettles, Zenon DEF v
    <2>3. ASSUME NEW p \in Op
          PROVE  Settles(c.ops[p], Dup(p), v)
      <3> DEFINE k == c.ops[p]
      <3>1. k \in OpRecord
        BY <1>1, Zenon
      <3>2. CASE k.told # "nothing"
        <4>1. Settles(k, [ClearTimers(k) EXCEPT !.state = st, !.result = res], "ok")
          BY <3>1, <3>2, NotifySettles, Zenon
        <4> QED
          BY <3>2, <4>1, Zenon DEF Settles
      <3>3. CASE k.told = "nothing"
        <4>1. Settles(k, Notify([k EXCEPT !.state = st, !.result = res]), v)
          BY <3>1, <3>3, NotifySettles, Zenon DEF v
        <4> QED
          BY <3>3, <4>1, Zenon
      <3> QED
        BY <3>2, <3>3, Zenon
    <2> HIDE DEF Dup
    <2>4. /\ W[o] = Notify(r)
          /\ \A p \in Op \ {o} : \/ W[p] = c.ops[p]
                               \/ /\ W[p] = Dup(p) /\ p \in q.duplicates
                                  /\ c.ops[p].state = "duplicate"
      BY Zenon
    <2>5. W \in [Op -> OpRecord]
      BY <1>1, <2>2, <2>3, Zenon DEF Settles
    <2> HIDE DEF W
    <2>6. t \in Process /\ t.ops = W /\ t.work = c.work /\ t.out = c.out
      BY <2>1, <2>5, Zenon DEF Process
    <2> HIDE DEF t, q
    <2>7. ASSUME NEW p \in Op
          PROVE  \/ W[p] = c.ops[p] /\ p # o
                 \/ /\ Settles(c.ops[p], W[p], v) /\ c.ops[p].state # "none"
                    /\ p = o \/ p \in q.duplicates
      <3>1. "duplicate" # "none"
        OBVIOUS
      <3> QED
        BY <2>2, <2>3, <2>4, <3>1, Zenon DEF q
    <2>8. ASSUME NEW p \in Op
          PROVE  /\ W[p].duplicates = c.ops[p].duplicates
                 /\ W[p].state = "none" <=> c.ops[p].state = "none"
                 /\ Timed(W[p]) => Timed(c.ops[p])
                 /\ Regular(c.ops[p]) => Regular(W[p])
                 /\ \/ W[p].told = c.ops[p].told
                    \/ p = o /\ c.ops[p].told = "nothing" /\ W[p].told = v
                    \/ p \in q.duplicates /\ W[p].told = v
      BY <2>7, Zenon DEF Settles
    <2>9. W[o].told = v
      BY <1>5, <2>2, <2>4, Zenon DEF Settles
    <2>10. Concludes(c, t, o, v)
      BY <2>6, <2>8, <2>9, Zenon DEF Concludes, q
    <2> QED
      BY <2>10, Zenon DEF t, r, v, q
  <1> QED
    BY <1>4, <1>5, Zenon DEF r, v

(* Daemon n has o in its table, which it may have created for a broadcast. *)
Opens(n, c, o) ==
  /\ Grows(fencer[n], c) /\ Known(c) = Known(fencer[n]) \cup {o}
  /\ c.work = fencer[n].work /\ c.out = NoMail
  /\ c.ops[o].duplicates = fencer[n].ops[o].duplicates
  /\ \A p \in Op : /\ c.ops[p].told = fencer[n].ops[p].told
                   /\ Timed(c.ops[p]) => Timed(fencer[n].ops[p])
                   /\ Regular(c.ops[p])
                   /\ \A q \in c.ops[p].duplicates :
                        Owner(n, q) => q \in fencer[n].ops[p].duplicates

LEMMA ConcludesSilent ==
    ASSUME Inv, NEW n \in Node, NEW m \in Pending(fencer, inbox, n), m.type = "broadcast",
           NEW c, Opens(n, c, m.op), NEW t, Concludes(c, t, m.op, Says(m))
    PROVE  Silent(n, t, {m})
  <1> DEFINE s == fencer[n]
             o == m.op
             v == Says(m)
  <1>1. /\ Rooted(fencer, o) /\ o \in Op
        /\ SingleDevices => Honest(m, Sound(fencer, fenced))
    BY PendingFacts
  <1>2. /\ t \in Process /\ t.work = s.work /\ t.out = NoMail
        /\ \A p \in Op : Regular(t.ops[p]) /\ (Timed(t.ops[p]) => Timed(s.ops[p]))
    BY Zenon DEF Concludes, Opens
  <1>3. Known(t) = Known(s) \cup {o}
    BY Zenon DEF Concludes, Opens, Known
  <1>4. \A p \in Op : t.ops[p].duplicates = c.ops[p].duplicates
    BY Zenon DEF Concludes
  <1>5. Grows(s, t)
    <2>1. Grows(s, c) /\ Known(c) = Known(t)
      BY <1>3, Zenon DEF Opens
    <2> HIDE DEF s
    <2> QED
      BY <1>4, <2>1, Zenon DEF Grows
  <1>6. ASSUME NEW p \in Op
        PROVE  \/ t.ops[p].told = s.ops[p].told
               \/ p = o /\ s.ops[p].told = "nothing" /\ t.ops[p].told = v
               \/ p \in s.ops[o].duplicates /\ t.ops[p].told = v
    BY <1>1, Zenon DEF Opens, Concludes
  <1>7. s.ops[o].told = "nothing" => t.ops[o].told = v
    BY <1>1, Zenon DEF Opens, Concludes
  <1>8. \A p \in s.ops[o].duplicates : Merged(t, p)
    <2>1. o \in Known(t) /\ t.ops[o].duplicates = s.ops[o].duplicates
      BY <1>1, <1>3, <1>4, Zenon DEF Opens
    <2> QED
      BY <2>1, Zenon DEF Merged
  <1>9. Tells(s, t, {m})
    <2>1. ASSUME NEW p \in Op
          PROVE  \/ Merged(t, p)
                 \/ /\ t.ops[p].told = s.ops[p].told
                    /\ \A h \in {m} : Announces(h, p) => s.ops[p].told # "nothing"
                 \/ /\ s.ops[p].told = "nothing"
                    /\ \E h \in {m} : Announces(h, p) /\ t.ops[p].told = Says(h)
      <3>1. CASE p = o
        <4>1. Announces(m, p)
          BY <3>1, Zenon DEF Announces
        <4> QED
          BY <1>6, <1>7, <1>8, <3>1, <4>1, Zenon
      <3>2. CASE p # o
        <4>1. ~Announces(m, p)
          BY <3>2, Zenon DEF Announces
        <4> QED
          BY <1>6, <1>8, <3>2, <4>1, Zenon
      <3> QED
        BY <3>1, <3>2, Zenon
    <2> QED
      BY <2>1, Zenon DEF Tells
  <1>10. \A h \in {m} : h.type = "query" => h.op \in Known(t)
    <2>1. m.type # "query"
      OBVIOUS
    <2> QED
      BY <2>1, Zenon
  <1>11. Learns(fencer, n, t, {m})
    BY <1>1, <1>2, <1>3, <1>5, <1>9, <1>10, Zenon DEF Learns
  <1>12. ASSUME SingleDevices
         PROVE  /\ \A p \in fenced : \A q \in t.ops[p].duplicates :
                     Owner(n, q) => q \in s.ops[p].duplicates
                /\ \A p \in Op : t.ops[p].told = "ok" =>
                     s.ops[p].told = "ok" \/ IF Owner(n, p) THEN p \in fenced ELSE fenced # {}
    <2>1. fenced \subseteq Op
      BY Zenon DEF Inv, InvOf, TypeOf
    <2>2. \A p \in fenced : \A q \in t.ops[p].duplicates : Owner(n, q) => q \in s.ops[p].duplicates
      BY <1>4, <2>1, Zenon DEF Opens
    <2>3. v = "ok" => o \in Sound(fencer, fenced)
      <3>1. v = "ok" => m.result = "ok"
        BY DEF Says
      <3> QED
        BY <1>1, <1>12, <3>1, Zenon DEF Honest
    <2>4. v = "ok" => /\ o \in fenced
                      /\ \A p \in s.ops[o].duplicates : Owner(n, p) => p \in fenced
      BY <2>3, Zenon DEF Sound, Owner
    <2> HIDE DEF v
    <2>5. \A p \in Op : t.ops[p].told = "ok" =>
            s.ops[p].told = "ok" \/ IF Owner(n, p) THEN p \in fenced ELSE fenced # {}
      BY <1>6, <2>4, Zenon
    <2> QED
      BY <2>2, <2>5, Zenon
  <1> QED
    BY <1>2, <1>11, <1>12, Zenon DEF Silent

(* create_remote_stonith_op for an operation of another node *)
LEMMA CreatesOpens ==
    ASSUME Inv, NEW n \in Node, NEW o \in Op, o \notin Known(fencer[n]), Rooted(fencer, o),
           NEW c, Creates(fencer[n], c, o), c.work = fencer[n].work, c.out = NoMail,
           ~Timed(c.ops[o])
    PROVE  Opens(n, c, o)
  <1> DEFINE s == fencer[n]
             H == {}
  <1>1. Originated(fencer, inbox) /\ \A p \in Op : Regular(s.ops[p])
    BY Zenon DEF Inv, InvOf, TypeOf
  <1>2. CreatesAt(fencer, n, c, o, H)
    BY <1>1, Zenon DEF CreatesAt
  <1> HIDE DEF H
  <1>3. Grows(s, c)
    <2>1. Learns(fencer, n, c, H)
      BY <1>1, <1>2, CreatesLearns, Zenon
    <2> QED
      BY <2>1, Zenon DEF Learns
  <1>4. Known(c) = Known(s) \cup {o}
    BY Zenon DEF Creates, Known
  <1>5. s.ops[o].told = "nothing"
    BY <1>1, Zenon DEF Regular, Known
  <1>6. s.ops[o].duplicates = {}
    <2>1. \A p \in Op : \A q \in s.ops[p].duplicates : {q, p} \subseteq Known(s)
      BY <1>1, Zenon DEF Originated
    <2> QED
      BY <2>1, Zenon
  <1>7. ~Owner(n, o)
    BY Zenon DEF Owner, Rooted
  <1>8. \A p \in Op : /\ c.ops[p].told = s.ops[p].told
                      /\ Timed(c.ops[p]) => Timed(s.ops[p])
                      /\ Regular(c.ops[p])
    BY <1>1, <1>5, Zenon DEF Creates
  <1>9. \A p \in Op : \A q \in c.ops[p].duplicates : Owner(n, q) => q \in s.ops[p].duplicates
    BY <1>6, <1>7, Zenon DEF Creates
  <1>10. c.ops[o].duplicates = s.ops[o].duplicates
    BY <1>6, Zenon DEF Creates
  <1> QED
    BY <1>3, <1>4, <1>8, <1>9, <1>10, Zenon DEF Opens

(* fenced_process_fencing_reply for a broadcast *)
LEMMA HandleBroadcastSilent ==
    ASSUME Counting, Inv, NEW n \in Node, n \in live, inbox[n] # <<>>,
           Head(inbox[n]).type = "broadcast",
           NEW old
    PROVE  Silent(n, HandleBroadcast(fencer[n], Head(inbox[n]), old), {Head(inbox[n])})
  <1> DEFINE s == fencer[n]
             m == Head(inbox[n])
             o == m.op
             st == IF m.result = "ok" THEN "done" ELSE "failed"
             c == IF o \in Known(s) THEN s
                  ELSE IF m.result = "ok" THEN CreateOp(s, o, old) ELSE s
  <1>1. m \in Message /\ m \in Pending(fencer, inbox, n)
    BY DeliverFacts, Zenon
  <1>2. /\ Rooted(fencer, o) /\ o \in Op
        /\ m.result \in {"unknown", "ok", "error", "timeout", "no device"}
    <2>1. m.type # "left"
      OBVIOUS
    <2> QED
      BY <1>1, <2>1, PendingFacts, MessageFacts, Zenon
  <1>3. /\ conf \in Config /\ s \in Process /\ s.out = NoMail
        /\ \A p \in Op : Regular(s.ops[p])
        /\ Prepared(fencer, inbox, live) /\ inbox[n] \in Seq(Message)
    BY Zenon DEF Inv, InvOf, TypeOf
  <1>4. o \in Known(s) \/ m.result = "ok"
    <2>1. 1 \in 1..Len(inbox[n]) /\ m = inbox[n][1] /\ 1..(1 - 1) = {}
      BY <1>3
    <2>2. PreparedBy(inbox[n], Known(s))
      BY <1>3, Zenon DEF Prepared
    <2>3. Failure(m) => m.op \in Known(s)
      <3> HIDE DEF m
      <3> QED
        BY <2>1, <2>2, Zenon DEF PreparedBy
    <2> QED
      BY <2>3, Zenon DEF Failure
  <1> HIDE DEF m
  <1>5. Opens(n, c, o) /\ c \in Process /\ o \in Known(c)
    <2>1. CASE o \in Known(s)
      <3>1. c = s
        BY <2>1, Zenon
      <3>2. Grows(s, s) /\ Known(s) = Known(s) \cup {o}
        BY <2>1, Zenon DEF Grows
      <3>3. Opens(n, s, o)
        BY <1>3, <3>2, Zenon DEF Opens
      <3> QED
        BY <1>3, <2>1, <3>1, <3>3, Zenon
    <2>2. CASE o \notin Known(s)
      <3>1. c = CreateOp(s, o, old)
        BY <1>4, <2>2, Zenon
      <3> HIDE DEF c
      <3>2. Creates(s, c, o) /\ c.work = s.work /\ c.out = s.out /\ ~Timed(c.ops[o])
        BY <1>2, <1>3, <3>1, CreateOpFacts, Zenon
      <3>3. Opens(n, c, o)
        BY <1>2, <1>3, <2>2, <3>2, CreatesOpens, Zenon
      <3> QED
        BY <1>2, <3>2, <3>3, Zenon DEF Creates, Known
    <2> QED
      BY <2>1, <2>2, Zenon
  <1> DEFINE r == [c.ops[o] EXCEPT !.result = m.result, !.state = st]
             t == FinalizeBroadcast(c, o, r)
  <1>6. HandleBroadcast(s, m, old) = t
    BY <1>5, Zenon DEF HandleBroadcast
  <1>7. Concludes(c, t, o, Says(m))
    <2>1. st \in {"done", "failed"} /\ Says(m) = IF m.result = "ok" THEN "ok" ELSE "failure"
      BY Zenon DEF Says
    <2>2. c.ops[o].state # "none"
      BY <1>5, Zenon DEF Known
    <2> HIDE DEF c, st
    <2> QED
      BY <1>2, <1>5, <2>1, <2>2, FinalizeBroadcastFacts, Zenon
  <1> HIDE DEF c, r, t
  <1>8. Silent(n, t, {m})
    <2>1. m.type = "broadcast"
      BY Zenon DEF m
    <2> QED
      BY <1>1, <1>5, <1>7, <2>1, ConcludesSilent, Zenon
  <1>9. Silent(n, HandleBroadcast(s, m, old), {m})
    BY <1>6, <1>8, Zenon
  <1> QED
    BY <1>9, Zenon DEF m

(* Work that a process takes on *)
LEMMA AddWork ==
    ASSUME NEW s \in Process, NEW m \in Message
    PROVE  /\ [s EXCEPT !.work = @ \cup {m}] \in Process
           /\ [s EXCEPT !.work = @ \cup {m}].ops = s.ops
           /\ [s EXCEPT !.work = @ \cup {m}].out = s.out
           /\ [s EXCEPT !.work = @ \cup {m}].work = s.work \cup {m}
  <1>1. s.work \cup {m} \in SUBSET Message
    BY Zenon DEF Process
  <1> QED
    BY <1>1, Zenon DEF Process

(* handle_query_request *)
LEMMA HandleQuerySilent ==
    ASSUME Counting, Inv, NEW n \in Node, NEW m \in Message, m \in Pending(fencer, inbox, n),
           m.type = "query", NEW old
    PROVE  Silent(n, HandleQuery(fencer[n], m, old), {m})
  <1> DEFINE s == fencer[n]
             o == m.op
             c == IF o \in Known(s) THEN s ELSE CreateOp(s, o, old)
             t == [c EXCEPT !.work = @ \cup {m}]
  <1>1. m.type # "left" /\ m.type # "broadcast"
    OBVIOUS
  <1>2. Rooted(fencer, o) /\ o \in Op
    BY <1>1, PendingFacts, Zenon
  <1>3. /\ conf \in Config /\ s \in Process /\ s.out = NoMail /\ Originated(fencer, inbox)
        /\ \A p \in Op : Regular(s.ops[p])
        /\ fenced \in SUBSET Op
    BY Zenon DEF Inv, InvOf, TypeOf
  <1>4. HandleQuery(s, m, old) = t
    BY Zenon DEF HandleQuery
  <1>5. CASE o \in Known(s)
    <2>1. t = [s EXCEPT !.work = @ \cup {m}]
      BY <1>5, Zenon
    <2> HIDE DEF t
    <2>2. t \in Process /\ t.ops = s.ops /\ t.out = NoMail /\ t.work = s.work \cup {m}
      BY <1>3, <2>1, AddWork, Zenon
    <2> DEFINE H == {m}
    <2>3. /\ t.work \subseteq s.work \cup H
          /\ \A h \in H : h.type # "broadcast" /\ (h.type = "query" => h.op \in Known(s))
      BY <1>1, <1>5, <2>2, Zenon
    <2> HIDE DEF H
    <2>4. Silent(n, t, H)
      BY <2>2, <2>3, SameOpsSilent, Zenon
    <2> QED
      BY <1>4, <2>4, Zenon DEF H
  <1>6. CASE o \notin Known(s)
    <2>1. c = CreateOp(s, o, old)
      BY <1>6, Zenon
    <2> HIDE DEF c
    <2>2. Creates(s, c, o) /\ c.work = s.work /\ c.out = s.out /\ ~Timed(c.ops[o])
      BY <1>2, <1>3, <2>1, CreateOpFacts, Zenon
    <2>3. c \in Process
      BY <2>2, Zenon DEF Creates
    <2>4. t \in Process /\ t.ops = c.ops /\ t.out = NoMail /\ t.work = s.work \cup {m}
      BY <1>3, <2>2, <2>3, AddWork, Zenon
    <2> HIDE DEF t
    <2>5. Opens(n, c, o)
      BY <1>2, <1>3, <1>6, <2>2, CreatesOpens, Zenon
    <2> DEFINE H == {m}
    <2>6. CreatesAt(fencer, n, t, o, H)
      <3>1. Creates(s, t, o)
        BY <2>2, <2>4, Zenon DEF Creates
      <3>2. t.work \subseteq s.work \cup H /\ \A h \in H : h.type # "broadcast" /\ h.op = o
        BY <1>1, <2>4, Zenon
      <3> HIDE DEF H
      <3> QED
        BY <1>2, <1>3, <1>6, <3>1, <3>2, Zenon DEF CreatesAt
    <2> HIDE DEF H
    <2>7. Learns(fencer, n, t, H)
      BY <1>2, <1>3, <2>6, CreatesLearns, Zenon
    <2>8. \A p \in Op : /\ Regular(t.ops[p]) /\ (Timed(t.ops[p]) => Timed(s.ops[p]))
                        /\ t.ops[p].told = s.ops[p].told
                        /\ \A q \in t.ops[p].duplicates :
                             Owner(n, q) => q \in s.ops[p].duplicates
      BY <2>4, <2>5, Zenon DEF Opens
    <2>9. Silent(n, t, H)
      BY <1>3, <2>4, <2>7, <2>8, Zenon DEF Silent
    <2> QED
      BY <1>4, <2>9, Zenon DEF H
  <1> QED
    BY <1>5, <1>6, Zenon

(* fenced_peer_message *)
LEMMA DeliverPreservesInv ==
    ASSUME Counting, Inv, NEW n \in Node, Deliver(n)
    PROVE  Inv'
  <1> DEFINE s == fencer[n]
             m == Head(inbox[n])
             c == [inbox EXCEPT ![n] = Tail(@)]
             H == {m}
  <1>1. n \in live /\ inbox[n] # <<>> /\ UNCHANGED <<conf, live, off, fenced>>
    BY Zenon DEF Deliver
  <1>2. PICK old : Commit(n, Handle(n, s, m, old), c)
    BY Zenon DEF Deliver
  <1>3. m \in Message /\ m \in Pending(fencer, inbox, n) /\ Takes(inbox, c, n, H)
    BY <1>1, DeliverFacts, Zenon
  <1>4. /\ conf \in Config /\ s \in Process /\ s.out = NoMail /\ fenced \in SUBSET Op
        /\ \A p \in Op : Regular(s.ops[p])
        /\ off \in SUBSET (Device \cup {NoDev})
    BY Zenon DEF Inv, InvOf, TypeOf
  <1>5. m.type = "broadcast" =>
          Silent(n, HandleBroadcast(s, m, old), H)
    BY <1>1, HandleBroadcastSilent, Zenon
  <1> HIDE DEF m, c
  <1>6. \A t : Silent(n, t, H) /\ Commit(n, t, c) => Inv'
    <2> HIDE DEF H
    <2> QED
      BY <1>1, <1>3, SilentPreservesInv, Zenon
  <1>7. Kept /\ live' = live /\ fenced' = fenced
    BY <1>1, <1>4, Zenon DEF Kept
  <1>8. CASE m.type = "left"
    <2> DEFINE t == [s EXCEPT !.view = @ \ {m.node}]
    <2>1. Handle(n, s, m, old) = t
      BY <1>8 DEF Handle
    <2>2. t \in Process /\ t.ops = s.ops /\ t.out = NoMail /\ t.work = s.work
      <3>1. s.view \ {m.node} \in SUBSET Node
        BY <1>4, Zenon DEF Process
      <3> QED
        BY <1>4, <3>1, Zenon DEF Process
    <2> HIDE DEF t
    <2>3. /\ t.work \subseteq s.work \cup H
          /\ \A h \in H : h.type # "broadcast" /\ (h.type = "query" => h.op \in Known(s))
      BY <1>8, <2>2
    <2> HIDE DEF H
    <2>4. Silent(n, t, H)
      BY <2>2, <2>3, SameOpsSilent, Zenon
    <2> QED
      BY <1>2, <1>6, <2>1, <2>4, Zenon
  <1>9. CASE m.type = "query"
    <2>1. Handle(n, s, m, old) = HandleQuery(s, m, old)
      BY <1>9 DEF Handle
    <2>2. Silent(n, HandleQuery(s, m, old), H)
      BY <1>3, <1>9, HandleQuerySilent, Zenon
    <2> QED
      BY <1>2, <1>6, <2>1, <2>2, Zenon
  <1>10. CASE m.type = "fence"
    <2> DEFINE t == [s EXCEPT !.work = @ \cup {m}]
    <2>1. Handle(n, s, m, old) = t
      BY <1>10 DEF Handle, HandleFence
    <2>2. t \in Process /\ t.ops = s.ops /\ t.out = NoMail /\ t.work = s.work \cup {m}
      BY <1>3, <1>4, AddWork, Zenon
    <2> HIDE DEF t
    <2>3. /\ t.work \subseteq s.work \cup H
          /\ \A h \in H : h.type # "broadcast" /\ (h.type = "query" => h.op \in Known(s))
      BY <1>10, <2>2
    <2> HIDE DEF H
    <2>4. Silent(n, t, H)
      BY <2>2, <2>3, SameOpsSilent, Zenon
    <2> QED
      BY <1>2, <1>6, <2>1, <2>4, Zenon
  <1>11. CASE m.type = "broadcast"
    <2>1. Handle(n, s, m, old) = HandleBroadcast(s, m, old)
      BY <1>11 DEF Handle
    <2> QED
      BY <1>2, <1>5, <1>6, <1>11, <2>1, Zenon
  <1>12. ASSUME m.type \in {"query-reply", "fence-reply"}
         PROVE  /\ m.op \in Op /\ m.op \in Requested /\ Queried(fencer, inbox, live, m.op)
                /\ m.type = "fence-reply" /\ SingleDevices /\ m.result = "ok" =>
                     m.op \in Sound(fencer, fenced)
                /\ \A h \in H : h.type \notin {"query", "broadcast"}
    <2>1. m.type # "left" /\ m.type # "broadcast" /\ m.type # "query"
      BY <1>12
    <2>2. /\ m.op \in Requested /\ m.op \in Op /\ Queried(fencer, inbox, live, m.op)
          /\ SingleDevices => Honest(m, Sound(fencer, fenced))
      BY <1>3, <2>1, PendingFacts, Zenon
    <2> QED
      BY <2>1, <2>2, Zenon DEF Honest
  <1>13. CASE m.type = "query-reply"
    <2> DEFINE t == HandleQueryReply(n, s, m)
    <2>1. Handle(n, s, m, old) = t
      BY <1>13 DEF Handle
    <2>2. m.from \in Node
      BY <1>3, <1>13, MessageFacts, Zenon
    <2>3. /\ m.op \in Op /\ m.op \in Requested /\ Queried(fencer, inbox, live, m.op)
          /\ \A h \in H : h.type \notin {"query", "broadcast"}
      BY <1>12, <1>13, Zenon
    <2>4. Effect(s, t, m.op, Sound(fencer, fenced'))
      BY <1>4, <2>2, <2>3, HandleQueryReplyEffect, Zenon
    <2> HIDE DEF t, H
    <2>5. Commit(n, t, c) /\ fenced \subseteq fenced' /\ fenced' \in SUBSET Op
      BY <1>2, <1>4, <1>7, <2>1, Zenon
    <2> QED
      BY <1>1, <1>3, <1>7, <2>3, <2>4, <2>5, EffectPreservesInv, Zenon
  <1>14. CASE m.type = "fence-reply"
    <2> DEFINE t == HandleFenceReply(n, s, m)
    <2>1. Handle(n, s, m, old) = t
      BY <1>14 DEF Handle
    <2>2. m.result \in {"ok", "error", "timeout"}
      BY <1>3, <1>14, MessageFacts, Zenon
    <2>3. /\ m.op \in Op /\ m.op \in Requested /\ Queried(fencer, inbox, live, m.op)
          /\ SingleDevices /\ m.result = "ok" => m.op \in Sound(fencer, fenced')
          /\ \A h \in H : h.type \notin {"query", "broadcast"}
      BY <1>7, <1>12, <1>14, Zenon
    <2>4. Effect(s, t, m.op, Sound(fencer, fenced'))
      BY <1>4, <2>2, <2>3, HandleFenceReplyEffect, Zenon
    <2> HIDE DEF t, H
    <2>5. Commit(n, t, c) /\ fenced \subseteq fenced' /\ fenced' \in SUBSET Op
      BY <1>2, <1>4, <1>7, <2>1, Zenon
    <2> QED
      BY <1>1, <1>3, <1>7, <2>3, <2>4, <2>5, EffectPreservesInv, Zenon
  <1>15. m.type \in {"query", "query-reply", "fence", "fence-reply", "broadcast", "left"}
    BY <1>3, MessageFacts, Zenon
  <1> QED
    BY <1>8, <1>9, <1>10, <1>11, <1>13, <1>14, <1>15, Zenon

-----------------------------------------------------------------------------
(* Theorems *)

LEMMA InitInv == Init => Inv
  <1> SUFFICES ASSUME Init PROVE Inv
    OBVIOUS
  <1>1. conf \in Config /\ off \in SUBSET (Device \cup {NoDev})
    BY FencerAssumption, Zenon DEF Init
  <1>2. /\ <<>> \in Seq(Message) /\ <<>> \in Seq(Node) /\ <<>> \in Seq(Device)
        /\ 0 \in Nat /\ 0 \in 0..(Levels + 1)
    BY <1>1 DEF Levels, Config
  <1>3. /\ NoOp \in OpRecord /\ NoOp.state = "none" /\ NoOp.told = "nothing"
        /\ NoOp.duplicates = {} /\ NoOp.phase = "requested"
        /\ ~NoOp.queryTimer /\ ~NoOp.totalTimer /\ NoOp.oneTimer = "none"
    <2> DEFINE N == NewOp(0)
    <2>1. /\ N \in OpRecord /\ N.told = "nothing"
          /\ N.duplicates = {} /\ N.phase = "requested"
          /\ ~N.queryTimer /\ ~N.totalTimer /\ N.oneTimer = "none"
      BY <1>2, Zenon DEF NewOp, OpRecord
    <2>2. NoOp = [N EXCEPT !.state = "none"]
      BY Zenon DEF NoOp
    <2> HIDE DEF N
    <2> QED
      BY <2>1, <2>2, Zenon DEF OpRecord
  <1>4. Regular(NoOp) /\ ~Timed(NoOp)
    BY <1>3, Zenon DEF Regular, Timed
  <1>5. NoMail \in [Node -> Seq(Message)] /\ \A n \in Node : NoMail[n] = <<>>
    BY <1>2, Zenon DEF NoMail
  <1>6. conf.up \in SUBSET Node
    BY <1>1, Zenon DEF Config
  <1>7. ASSUME NEW n \in Node
        PROVE  /\ fencer[n] \in Process /\ fencer[n].out = NoMail /\ fencer[n].work = {}
               /\ \A o \in Op : fencer[n].ops[o] = NoOp
    <2> DEFINE ops == [o \in Op |-> NoOp]
               t == [view |-> conf.up, ops |-> ops, work |-> {}, out |-> NoMail,
                     checkFailed |-> FALSE]
    <2>1. ops \in [Op -> OpRecord] /\ \A o \in Op : ops[o] = NoOp
      BY <1>3, Zenon
    <2>2. fencer[n] = t
      BY Zenon DEF Init
    <2> HIDE DEF ops
    <2>3. t \in Process /\ t.out = NoMail /\ t.work = {} /\ t.ops = ops
      BY <1>5, <1>6, <2>1, Zenon DEF Process
    <2> HIDE DEF t
    <2> QED
      BY <2>1, <2>2, <2>3, Zenon
  <1>8. /\ fencer \in [Node -> Process] /\ inbox = NoMail /\ live \in SUBSET Node
        /\ fenced \in SUBSET Op
    <2>1. fencer = [n \in Node |-> fencer[n]]
      BY Zenon DEF Init
    <2> QED
      BY <1>6, <1>7, <2>1, Zenon DEF Init
  <1>9. TypeOf(fencer, inbox, live, fenced)
    BY <1>4, <1>5, <1>7, <1>8, Zenon DEF TypeOf
  <1>10. \A n \in Node : Known(fencer[n]) = {} /\ Pending(fencer, inbox, n) = {}
    <2>1. 1..Len(<<>>) = {}
      OBVIOUS
    <2>2. Elems(<<>>) = {}
      BY <2>1, Zenon DEF Elems
    <2> QED
      BY <1>3, <1>5, <1>7, <1>8, <2>2, Zenon DEF Known, Pending
  <1>11. \A n \in Node : \A o \in Op : /\ fencer[n].ops[o].duplicates = {}
                                      /\ fencer[n].ops[o].told = "nothing"
                                      /\ ~Timed(fencer[n].ops[o])
    BY <1>3, <1>4, <1>7, Zenon
  <1>12. Originated(fencer, inbox)
    BY <1>10, <1>11, Zenon DEF Originated
  <1>13. Truthful(fencer, inbox, fenced)
    <2>1. "nothing" # "ok"
      OBVIOUS
    <2> QED
      BY <1>10, <1>11, <2>1, Zenon DEF Truthful
  <1>14. QueriedFirst(fencer, inbox, live)
    BY <1>10, <1>11, Zenon DEF QueriedFirst
  <1>15. Prepared(fencer, inbox, live)
    <2>1. \A n \in Node : inbox[n] = <<>>
      BY <1>5, <1>8, Zenon
    <2>2. 1..Len(<<>>) = {}
      OBVIOUS
    <2>3. \A K : PreparedBy(<<>>, K)
      BY <2>2, Zenon DEF PreparedBy
    <2> QED
      BY <1>8, <2>1, <2>3, Zenon DEF Prepared
  <1>16. Agreed(fencer, inbox, live)
    <2>1. \A n \in Node : inbox[n] = <<>>
      BY <1>5, <1>8, Zenon
    <2>2. 1..Len(<<>>) = {}
      OBVIOUS
    <2>3. \A o, v : ~FirstSays(<<>>, o, v)
      BY <2>2, Zenon DEF FirstSays
    <2>4. "nothing" \notin {"ok", "failure"}
      OBVIOUS
    <2>5. \A n \in Node : \A o \in Op : \A v \in {"ok", "failure"} :
            ~Verdict(fencer, inbox, n, o, v)
      BY <1>11, <2>1, <2>3, <2>4, Zenon DEF Verdict
    <2> QED
      BY <1>11, <2>4, <2>5, Zenon DEF Agreed
  <1> QED
    BY <1>1, <1>9, <1>12, <1>13, <1>14, <1>15, <1>16, Zenon DEF Inv, InvOf

(* Every step preserves the invariant. *)
LEMMA NextInv == Counting /\ Inv /\ [Next]_vars => Inv'
  <1> SUFFICES ASSUME Counting, Inv, [Next]_vars PROVE Inv'
    OBVIOUS
  <1>1. ASSUME NEW n \in Node, NEW o \in Op, Request(n, o) PROVE Inv'
    BY <1>1, RequestPreservesInv, Zenon
  <1>2. ASSUME NEW n \in Node, Deliver(n) PROVE Inv'
    BY <1>2, DeliverPreservesInv, Zenon
  <1>3. ASSUME NEW n \in Node, AnswerQuery(n) PROVE Inv'
    BY <1>3, AnswerQueryPreservesInv, Zenon
  <1>4. ASSUME NEW n \in Node, AgentFails(n) PROVE Inv'
    BY <1>4, AgentFailsPreservesInv, Zenon
  <1>5. ASSUME NEW n \in Node, AgentSucceeds(n) PROVE Inv'
    BY <1>5, AgentSucceedsPreservesInv, Zenon
  <1>6. ASSUME NEW n \in Node, Timeouts(n) PROVE Inv'
    BY <1>6, QueryTimeoutPreservesInv, TotalTimeoutPreservesInv, PeerTimeoutPreservesInv,
       WatchdogDonePreservesInv, Zenon DEF Timeouts
  <1>7. ASSUME NEW n \in Node, Die(n) PROVE Inv'
    BY <1>7, DiePreservesInv, Zenon
  <1>8. ASSUME UNCHANGED vars PROVE Inv'
    <2>1. UNCHANGED <<conf, fencer, live, inbox, off, fenced>>
      BY <1>8, Zenon DEF vars
    <2>2. /\ conf \in Config /\ off \in SUBSET (Device \cup {NoDev})
          /\ InvOf(fencer, inbox, live, fenced)
      BY Zenon DEF Inv
    <2>3. Kept /\ InvOf(fencer', inbox', live', fenced')
      BY <2>1, <2>2, Zenon DEF Kept
    <2> QED
      BY <2>3, InvWhenKept, Zenon
  <1> QED
    BY <1>1, <1>2, <1>3, <1>4, <1>5, <1>6, <1>7, <1>8, Zenon DEF Next

-----------------------------------------------------------------------------
(* Theorems: what every behaviour of the fencers satisfies.  The lemmas    *)
(* above take the facts about minima and cardinalities they need as the    *)
(* hypothesis Counting, which is proved here.                              *)
INSTANCE FiniteSetTheorems
INSTANCE WellFoundedInduction

(* The facts about numbers that Counting collects *)
LEMMA CountingHolds == Counting
  <1>1. ASSUME NEW S \in SUBSET Nat, S # {}
        PROVE  Min(S) \in S /\ \A x \in S : Min(S) <= x
    <2>1. PICK m \in S : \A x \in S : ~(<<x, m>> \in OpToRel(<, Nat))
      BY <1>1, NatLessThanWellFounded, WFMin, Zenon
    <2>2. \A x \in S : ~(x < m)
      BY <2>1 DEF OpToRel
    <2>3. \A x \in S : m <= x
      BY <2>2
    <2> QED
      BY <2>3 DEF Min
  <1>2. ASSUME NEW S \in SUBSET Node
        PROVE  Cardinality(S) \in Nat
    BY FencerAssumption, FS_Subset, FS_CardinalityType
  <1>3. ASSUME NEW k \in Nat, NEW S \in SUBSET (1..k)
        PROVE  Cardinality(S) \in 0..k
    <2>1. IsFiniteSet(1..k) /\ Cardinality(1..k) = k
      BY FS_Interval
    <2>2. /\ IsFiniteSet(S) /\ Cardinality(S) <= Cardinality(1..k)
          /\ Cardinality(S) \in Nat
      BY <2>1, FS_Subset, FS_CardinalityType
    <2> QED
      BY <2>1, <2>2
  <1> QED
    BY <1>1, <1>2, <1>3, Zenon DEF Counting

(* Every step of a daemon, of a fence agent and of the cluster keeps the   *)
(* inductive invariant.                                                    *)
THEOREM Invariance == Spec => []Inv
  BY CountingHolds, InitInv, NextInv, PTL DEF Spec

(* The records of the daemons stay well formed, and whatever a handler     *)
(* sends has left the daemon when it returns, for every cluster and every  *)
(* configuration.                                                          *)
THEOREM TypeCorrect == Spec => []TypeOK
  <1>1. Inv => TypeOK
    BY Zenon DEF Inv, InvOf, TypeOf, TypeOK
  <1> QED
    BY <1>1, Invariance, PTL

(* A client is told that its node was fenced only if the target really     *)
(* was without power since the request, or since that of an operation it   *)
(* was merged with (finalize_op, handle_local_reply_and_notify), for every *)
(* cluster in which no topology level has two devices.                     *)
THEOREM SuccessIsFenced == Spec => [](SingleDevices => SuccessMeansFenced)
  <1>1. Inv => (SingleDevices => SuccessMeansFenced)
    BY Zenon DEF Inv, InvOf, Truthful, SuccessMeansFenced, Known
  <1> QED
    BY <1>1, Invariance, PTL

(* Clients on different nodes are told the same of an operation that was   *)
(* merged with no other, also if finalize_op was reached twice for it (a   *)
(* result after a timeout), in every cluster and configuration.            *)
THEOREM AnswersAlwaysAgree == Spec => []AnswersAgree
  <1>1. ASSUME Inv PROVE AnswersAgree
    <2>1. TypeOK
      BY <1>1, Zenon DEF Inv, InvOf, TypeOf, TypeOK
    <2>2. \A n \in Node : \A o \in Op : fencer[n].ops[o].told \in {"nothing", "ok", "failure"}
      BY <2>1, ToldType, Zenon DEF TypeOK
    <2>3. ASSUME NEW n \in Node, NEW p \in Node, NEW o \in Known(fencer[n]) \cap Known(fencer[p])
          PROVE  \/ fencer[n].ops[o].told = fencer[p].ops[o].told
                 \/ "nothing" \in {fencer[n].ops[o].told, fencer[p].ops[o].told}
                 \/ Merged(fencer[n], o) \/ Merged(fencer[p], o)
      <3>1. o \in Op
        BY Zenon DEF Known
      <3> QED
        BY <1>1, <2>2, <3>1, Zenon DEF Inv, InvOf, Agreed
    <2> QED
      BY <2>1, <2>3, Zenon DEF AnswersAgree
  <1> QED
    BY <1>1, Invariance, PTL
===============================================================================
