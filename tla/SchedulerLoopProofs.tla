-------------------------- MODULE SchedulerLoopProofs --------------------------
(***************************************************************************)
(* Proofs about SchedulerLoop: the inductive invariant, and the theorems.  *)
(***************************************************************************)
EXTENDS SchedulerLoopIdle

-----------------------------------------------------------------------------
(* Steps of the controller *)

(* Functions of the controller leave the loop of the FSA alone, and do not  *)
(* start the timer of a scheduler request.                                 *)
Step(d, e) ==
  /\ Good(e)
  /\ e.running = d.running /\ e.busy = d.busy
  /\ e.timer => d.timer /\ e.ref = d.ref

-----------------------------------------------------------------------------
(* Queues *)

LEMMA QueueAppend ==
  ASSUME NEW q, Queue(q), NEW m \in Msgs, Kept(m)
  PROVE  Queue(Append(q, m))
  <1>1. Append(q, m) \in Seq(Msgs)
    BY DEF Queue
  <1>2. ASSUME NEW i \in DOMAIN Append(q, m) PROVE Kept(Append(q, m)[i])
    <2>1. CASE i = Len(q) + 1 BY <2>1 DEF Queue
    <2>2. CASE i # Len(q) + 1 BY <1>2, <2>2 DEF Queue
    <2> QED BY <2>1, <2>2
  <1> QED BY <1>1, <1>2 DEF Queue

LEMMA QueuePrepend ==
  ASSUME NEW q, Queue(q), NEW m \in Msgs, Kept(m)
  PROVE  Queue(<<m>> \o q)
  <1>1. <<m>> \o q \in Seq(Msgs)
    BY DEF Queue
  <1>2. ASSUME NEW i \in DOMAIN (<<m>> \o q) PROVE Kept((<<m>> \o q)[i])
    <2>1. CASE i = 1 BY <2>1 DEF Queue
    <2>2. CASE i # 1 BY <1>2, <2>2 DEF Queue
    <2> QED BY <2>1, <2>2
  <1> QED BY <1>1, <1>2 DEF Queue

LEMMA EmptyQueue == Queue(<<>>)
  BY DEF Queue

-----------------------------------------------------------------------------
(* Operators on the controller *)

LEMMA TriggerStep ==
  ASSUME NEW d, Good(d)
  PROVE  Step(d, SetTrigger(d))
  BY Zenon DEF Good, Step, SetTrigger, Controllers, Invokes

LEMMA QueueStep ==
  ASSUME NEW d, Good(d), NEW q, Queue(q)
  PROVE  Step(d, [d EXCEPT !.queue = q])
  <1>1. q \in Seq(Msgs) BY DEF Queue
  <1> QED BY <1>1 DEF Good, Step, Controllers, Invokes

LEMMA StepTrans ==
  ASSUME NEW d, NEW e, NEW f, Step(d, e), Step(e, f)
  PROVE  Step(d, f)
  BY DEF Step

LEMMA SelfStep ==
  ASSUME NEW d, Good(d)
  PROVE  Step(d, d)
  BY DEF Step

LEMMA AppendStep ==
  ASSUME NEW d, Good(d), NEW input \in Inputs, NEW data \in Data,
         input = "I_PE_SUCCESS" => data.kind = "graph"
  PROVE  Step(d, FsaAppend(d, input, data))
  <1> DEFINE m == Msg(input, data, {})
             e == [d EXCEPT !.queue = Append(@, m)]
  <1>1. m \in Msgs /\ Kept(m)
    BY MsgTypes DEF Kept
  <1>2. Queue(Append(d.queue, m))
    BY <1>1, QueueAppend DEF Good
  <1>3. Step(d, e)
    BY <1>2, QueueStep, Zenon
  <1>4. Step(d, SetTrigger(e))
    BY <1>3, TriggerStep, StepTrans, Zenon DEF Step
  <1> QED BY <1>4, SelfStep DEF FsaAppend

LEMMA PrependStep ==
  ASSUME NEW d, Good(d), NEW input \in Inputs, input # "I_PE_SUCCESS"
  PROVE  Step(d, FsaPrepend(d, input))
  <1> DEFINE m == Msg(input, NoData, {})
             e == [d EXCEPT !.queue = <<m>> \o @]
  <1>1. m \in Msgs /\ Kept(m)
    BY MsgTypes, DataTypes DEF Kept
  <1>2. Queue(<<m>> \o d.queue)
    BY <1>1, QueuePrepend DEF Good
  <1>3. Step(d, e)
    BY <1>2, QueueStep, Zenon
  <1>4. Step(d, SetTrigger(e))
    BY <1>3, TriggerStep, StepTrans, Zenon DEF Step
  <1> QED BY <1>4 DEF FsaPrepend

LEMMA StallStep ==
  ASSUME NEW d, Good(d), NEW action \in Actions, action # "A_TE_INVOKE"
  PROVE  Step(d, FsaStall(d, action))
  <1> DEFINE m == Msg("I_WAIT_FOR_EVENT", d.cur.data, d.acts \cup {action})
             e == [d EXCEPT !.stalled = TRUE, !.acts = @ \cup {action}]
             f == [d EXCEPT !.stalled = TRUE, !.acts = {}, !.queue = Append(@, m)]
  <1>1. CASE d.cur.data = NoData
    <2>1. "A_TE_INVOKE" \notin d.acts
      BY <1>1, DataTypes DEF Good, Invokes
    <2>2. Step(d, e)
      BY <2>1, Zenon DEF Good, Step, Controllers, Invokes
    <2> QED BY <1>1, <2>2 DEF FsaStall
  <1>2. CASE d.cur.data # NoData
    <2>1. /\ "I_WAIT_FOR_EVENT" \in Inputs /\ d.cur.data \in Data
          /\ d.acts \cup {action} \in SUBSET Actions
      BY InputSet DEF Good, Controllers, Msgs
    <2>2. m \in Msgs /\ Kept(m)
      BY <2>1, MsgTypes DEF Kept, Good, Invokes
    <2>3. Queue(Append(d.queue, m))
      BY <2>2, QueueAppend DEF Good
    <2>4. Append(d.queue, m) \in Seq(Msgs)
      BY <2>3 DEF Queue
    <2> HIDE DEF m
    <2>5. Step(d, f)
      BY <2>3, <2>4, Zenon DEF Good, Step, Controllers, Invokes
    <2> QED BY <1>2, <2>5 DEF FsaStall, m
  <1> QED BY <1>1, <1>2

LEMMA ErrorStep ==
  ASSUME NEW d, Good(d), NEW input \in Inputs, input # "I_PE_SUCCESS"
  PROVE  Step(d, FsaError(d, input))
  <1> DEFINE m == Msg("I_NULL", d.cur.data, d.acts)
             saved == IF d.acts = {} THEN <<>> ELSE <<m>>
             e == [d EXCEPT !.acts = {}, !.queue = saved \o @]
  <1>1. "I_NULL" \in Inputs /\ d.cur.data \in Data /\ d.acts \in SUBSET Actions
    BY InputSet DEF Good, Controllers, Msgs
  <1>2. m \in Msgs /\ Kept(m)
    BY <1>1, MsgTypes DEF Kept, Good, Invokes
  <1>3. Queue(saved \o d.queue)
    <2> HIDE DEF m
    <2>1. CASE d.acts = {}
      <3>1. saved \o d.queue = d.queue
        BY <2>1 DEF Good, Queue
      <3> QED BY <3>1, Zenon DEF Good
    <2>2. CASE d.acts # {}
      BY <2>2, <1>2, QueuePrepend DEF Good
    <2> QED BY <2>1, <2>2
  <1>4. saved \o d.queue \in Seq(Msgs)
    BY <1>3 DEF Queue
  <1> HIDE DEF saved
  <1>5. Step(d, e)
    BY <1>3, <1>4, Zenon DEF Good, Step, Controllers, Invokes
  <1>6. Step(e, FsaPrepend(e, input))
    BY <1>5, PrependStep, Zenon DEF Step
  <1>7. Step(d, FsaPrepend(e, input))
    BY <1>5, <1>6, StepTrans
  <1> QED BY <1>7 DEF FsaError, saved

LEMMA ForgetStep ==
  ASSUME NEW d, Good(d)
  PROVE  /\ Step(d, ExpectReply(d, NoRef))
         /\ ~ExpectReply(d, NoRef).timer
  BY Zenon DEF Good, Step, Controllers, Invokes, ExpectReply, NoRef

LEMMA AbortStep ==
  ASSUME NEW d, Good(d), NEW action \in Completions
  PROVE  Step(d, AbortTransition(d, action))
  <1> DEFINE e == ExpectReply(d, NoRef)
             f == [e EXCEPT !.action = IF @ = "restart" THEN @ ELSE action]
             g == [e EXCEPT !.delay = TRUE]
  <1>1. Step(d, e)
    BY ForgetStep
  <1> HIDE DEF e
  <1>2. Step(e, f) /\ Step(e, g)
    BY <1>1, Zenon DEF Good, Step, Controllers, Invokes
  <1>3. Step(e, FsaAppend(e, "I_PE_CALC", NoData))
    BY <1>1, AppendStep, InputSet, DataTypes DEF Step
  <1>4. Step(d, f) /\ Step(d, g) /\ Step(d, FsaAppend(e, "I_PE_CALC", NoData))
    BY <1>1, <1>2, <1>3, StepTrans
  <1> QED BY <1>4 DEF AbortTransition, e

LEMMA InvokeStep ==
  ASSUME NEW d, Good(d)
  PROVE  Step(d, DoPeInvoke(d))
  <1> DEFINE s == FsaStall(d, "A_PE_INVOKE")
             e == [s EXCEPT !.acts = @ \cup {"A_PE_START"}]
             f == [d EXCEPT !.asked = Append(@, "cib")]
  <1>1. Step(d, SetTrigger(e))
    <2>1. Step(d, s)
      BY StallStep DEF Actions
    <2> HIDE DEF s
    <2>2. Step(s, e)
      BY <2>1, Zenon DEF Good, Step, Controllers, Invokes, Actions
    <2> HIDE DEF e
    <2>3. Step(e, SetTrigger(e))
      BY <2>2, TriggerStep DEF Step
    <2> QED BY <2>1, <2>2, <2>3, StepTrans
  <1>2. Step(d, ExpectReply(f, NoRef))
    <2>1. Step(d, f)
      <3>1. Append(d.asked, "cib") \in Seq({"cib", "saved"})
        BY DEF Good, Controllers
      <3> QED BY <3>1, Zenon DEF Good, Step, Controllers, Invokes
    <2> HIDE DEF f
    <2>2. Step(f, ExpectReply(f, NoRef))
      BY <2>1, ForgetStep DEF Step
    <2> QED BY <2>1, <2>2, StepTrans
  <1> QED BY <1>1, <1>2, SelfStep DEF DoPeInvoke

LEMMA StopStep ==
  ASSUME NEW d, Good(d), NEW action \in Actions, action # "A_TE_INVOKE",
         NEW completion \in Completions
  PROVE  Step(d, DoTeStop(d, action, completion))
  <1> DEFINE e == AbortTransition(d, completion)
  <1>1. Step(d, e)
    BY AbortStep
  <1> HIDE DEF e
  <1>2. Step(e, FsaStall(e, action))
    BY <1>1, StallStep DEF Step
  <1>3. Step(d, FsaStall(e, action))
    BY <1>1, <1>2, StepTrans
  <1> QED BY <1>1, <1>3 DEF DoTeStop, e

LEMMA UnpackStep ==
  ASSUME NEW d, Good(d), NEW data \in Data
  PROVE  Step(d, UnpackGraph(d, data))
  BY Zenon DEF Good, Step, Controllers, Invokes, UnpackGraph, Completions, Data

LEMMA TeInvokeStep ==
  ASSUME NEW d, Good(d)
  PROVE  Step(d, DoTeInvoke(d))
  <1> DEFINE e == IF d.ref # NoRef /\ d.ref = d.cur.data.ref THEN d
                  ELSE AbortTransition(d, "restart")
  <1>1. Step(d, FsaError(d, "I_FAIL"))
    BY ErrorStep, InputSet
  <1>2. Step(d, AbortTransition(d, "restart"))
    BY AbortStep DEF Completions
  <1>3. Step(d, e)
    BY <1>2, SelfStep
  <1> HIDE DEF e
  <1>4. d.cur.data \in Data
    BY DEF Good, Controllers, Msgs
  <1>5. Step(d, UnpackGraph(e, d.cur.data))
    BY <1>3, <1>4, UnpackStep, StepTrans DEF Step
  <1>6. Step(d, IF e.delay THEN e ELSE UnpackGraph(e, d.cur.data))
    BY <1>3, <1>5
  <1> QED BY <1>1, <1>2, <1>6, SelfStep DEF DoTeInvoke, e

LEMMA NotifyStep ==
  ASSUME NEW d, Good(d)
  PROVE  Step(d, NotifyCrmd(d))
  <1> DEFINE e == [d EXCEPT !.complete = TRUE, !.action = "done"]
             f == [e EXCEPT !.delay = TRUE]
             g == [e EXCEPT !.acts = @ \cup {"A_PE_INVOKE"}]
  <1>1. Step(d, e)
    BY Zenon DEF Good, Step, Controllers, Invokes, Completions
  <1> HIDE DEF e
  <1>2. Step(e, f) /\ Step(e, g)
    BY <1>1, Zenon DEF Good, Step, Controllers, Invokes, Actions
  <1> HIDE DEF f, g
  <1>3. Step(d, SetTrigger(e)) /\ Step(d, SetTrigger(f)) /\ Step(d, SetTrigger(g))
    BY <1>1, <1>2, TriggerStep, StepTrans DEF Step
  <1>4. /\ Step(d, FsaAppend(e, "I_TE_SUCCESS", NoData))
        /\ Step(d, FsaAppend(e, "I_PE_CALC", NoData))
    <2>1. /\ Step(e, FsaAppend(e, "I_TE_SUCCESS", NoData))
          /\ Step(e, FsaAppend(e, "I_PE_CALC", NoData))
      BY <1>1, AppendStep, InputSet, DataTypes DEF Step
    <2> QED BY <1>1, <2>1, StepTrans
  <1> QED BY <1>3, <1>4 DEF NotifyCrmd, e, f, g

-----------------------------------------------------------------------------
(* Steps of the FSA *)

LEMMA SettleStable ==
  ASSUME NEW d, Good(d), d.busy => d.running
  PROVE  /\ Good(Settle(d)) /\ Stable(Settle(d))
         /\ Settle(d).timer => d.timer /\ Settle(d).ref = d.ref
  <1> DEFINE e == [d EXCEPT !.busy = FALSE, !.cur = NoMsg,
                            !.running = ~d.stalled /\ d.queue # <<>>]
  <1>1. Good(Leave(d)) /\ Stable(Leave(d)) /\ ~Leave(d).timer
    <2>1. /\ NoMsg \in Msgs /\ <<>> \in Seq(Msgs) /\ {} \in SUBSET Actions
          /\ NoRef \in Nat /\ "S_RECOVERY" \in States
      BY DataTypes DEF NoRef, States
    <2>2. Leave(d) \in Controllers
      BY <2>1, Zenon DEF Good, Controllers, Leave
    <2>3. /\ Leave(d).queue = <<>> /\ Leave(d).acts = {} /\ ~Leave(d).timer
          /\ ~Leave(d).running /\ ~Leave(d).busy
      BY DEF Good, Controllers, Leave
    <2> QED BY <2>2, <2>3, EmptyQueue DEF Good, Stable, Invokes
  <1>2. ASSUME ~(d.busy /\ d.acts # {} /\ ~d.stalled)
        PROVE  Good(e) /\ Stable(e) /\ (e.timer => d.timer /\ e.ref = d.ref)
    <2>1. "A_TE_INVOKE" \notin d.acts
      BY <1>2 DEF Good, Invokes
    <2>2. (~d.stalled /\ d.queue # <<>>) \in BOOLEAN
      OBVIOUS
    <2> DEFINE r == ~d.stalled /\ d.queue # <<>>
    <2> HIDE DEF r
    <2>3. e \in Controllers
      BY <2>2, DataTypes, Zenon DEF Good, Controllers, r
    <2>4. /\ e.queue = d.queue /\ e.acts = d.acts /\ e.timer = d.timer
          /\ e.ref = d.ref /\ e.busy = FALSE /\ e.stalled = d.stalled
          /\ e.running = (~d.stalled /\ d.queue # <<>>)
      BY DEF Good, Controllers
    <2> HIDE DEF e
    <2> QED BY <2>1, <2>3, <2>4, Zenon DEF Good, Stable, Invokes
  <1>3. ASSUME d.busy /\ d.acts # {} /\ ~d.stalled
        PROVE  Good(d) /\ Stable(d)
    BY <1>3 DEF Stable
  <1> HIDE DEF e
  <1>4. CASE d.state = "S_RECOVERY"
    BY <1>1, <1>4 DEF Settle
  <1>5. CASE d.state # "S_RECOVERY" /\ d.busy /\ d.acts # {} /\ ~d.stalled
    <2>1. Settle(d) = d BY <1>5 DEF Settle
    <2> QED BY <1>3, <1>5, <2>1
  <1>6. CASE d.state # "S_RECOVERY" /\ ~(d.busy /\ d.acts # {} /\ ~d.stalled)
    <2>1. Settle(d) = e BY <1>6 DEF Settle, e
    <2> QED BY <1>2, <1>6, <2>1
  <1> QED BY <1>4, <1>5, <1>6

(* What an operator did before the FSA settles *)
LEMMA SettleStep ==
  ASSUME NEW d, NEW e, Step(d, e), d.running
  PROVE  /\ Good(Settle(e)) /\ Stable(Settle(e))
         /\ Settle(e).timer => d.timer /\ Settle(e).ref = d.ref
  BY SettleStable, Zenon DEF Step

-----------------------------------------------------------------------------
(* Answers in the pipe *)

INSTANCE FiniteSetTheorems

LEMMA UpdatedFinite ==
  ASSUME NEW p \in Seq(CibMsgs)
  PROVE  /\ IsFiniteSet(Updated(p)) /\ Cardinality(Updated(p)) \in Nat
         /\ Updated(p) \in SUBSET (1 .. Len(p))
  <1>1. Updated(p) \in SUBSET (1 .. Len(p))
    BY DEF Updated
  <1>2. IsFiniteSet(1 .. Len(p))
    BY FS_Interval
  <1>3. IsFiniteSet(Updated(p))
    BY <1>1, <1>2, FS_Subset
  <1> QED BY <1>1, <1>3, FS_CardinalityType

LEMMA UpdatedAppend ==
  ASSUME NEW p \in Seq(CibMsgs), NEW m \in CibMsgs
  PROVE  /\ Append(p, m) \in Seq(CibMsgs)
         /\ Cardinality(Updated(Append(p, m)))
              <= Cardinality(Updated(p)) + (IF m.type = "updated" THEN 1 ELSE 0)
  <1>1. Append(p, m) \in Seq(CibMsgs)
    OBVIOUS
  <1>2. CASE m.type = "updated"
    <2>1. Updated(Append(p, m)) = Updated(p) \cup {Len(p) + 1}
      BY <1>2 DEF Updated
    <2>2. Len(p) + 1 \notin Updated(p)
      BY UpdatedFinite
    <2>3. Cardinality(Updated(p) \cup {Len(p) + 1}) = Cardinality(Updated(p)) + 1
      BY <2>2, UpdatedFinite, FS_AddElement, Zenon
    <2> QED BY <1>1, <1>2, <2>1, <2>3, UpdatedFinite
  <1>3. CASE m.type # "updated"
    <2>1. Updated(Append(p, m)) = Updated(p)
      BY <1>3 DEF Updated
    <2> QED BY <1>1, <1>3, <2>1, UpdatedFinite
  <1> QED BY <1>2, <1>3

LEMMA UpdatedTail ==
  ASSUME NEW p \in Seq(CibMsgs), p # <<>>
  PROVE  /\ Tail(p) \in Seq(CibMsgs) /\ Head(p) \in CibMsgs
         /\ Cardinality(Updated(Tail(p)))
              <= Cardinality(Updated(p))
                 - (IF Head(p).type = "updated" THEN 1 ELSE 0)
  <1> DEFINE U == Updated(Tail(p))
             T == Updated(p) \ {1}
             f == [i \in U |-> i + 1]
  <1>1. Tail(p) \in Seq(CibMsgs) /\ Head(p) \in CibMsgs
    OBVIOUS
  <1>2. U \in SUBSET (1 .. Len(Tail(p)))
    BY <1>1, UpdatedFinite, Zenon
  <1>3. \A i \in U : i \in Nat /\ i + 1 \in T
    BY <1>2 DEF Updated
  <1>4. f \in [U -> T] /\ \A i, j \in U : f[i] = f[j] => i = j
    BY <1>3
  <1>5. f \in Injection(U, T)
    BY <1>4 DEF Injection, IsInjective
  <1>6. /\ IsFiniteSet(T)
        /\ Cardinality(T) = IF 1 \in Updated(p) THEN Cardinality(Updated(p)) - 1
                            ELSE Cardinality(Updated(p))
    BY UpdatedFinite, FS_RemoveElement
  <1>7. Cardinality(U) <= Cardinality(T)
    <2> HIDE DEF f, U, T
    <2> QED BY <1>5, <1>6, FS_Injection
  <1>8. 1 \in Updated(p) <=> Head(p).type = "updated"
    BY DEF Updated
  <1> QED BY <1>1, <1>6, <1>7, <1>8, UpdatedFinite

-----------------------------------------------------------------------------
(* The inductive invariant *)

(* Each update whose answer is in the pipe still has its callback. *)
Counted == Cardinality(Updated(pipe)) <= updates

Inv ==
  /\ Good(dc) /\ Stable(dc)
  /\ cib \in Nat /\ updates \in Nat /\ budget \in Bounds
  /\ pipe \in Seq(CibMsgs) /\ sched \in Seq(Requests)
  /\ Counted /\ TimerMeansPending

LEMMA InvInit == Init => Inv
  <1> SUFFICES ASSUME Init PROVE Inv
    OBVIOUS
  <1>1. budget \in Bounds /\ budget.delayed \in BOOLEAN
    BY SchedulerLoopAssumption DEF Init, Bounds
  <1>2. /\ NoMsg \in Msgs /\ <<>> \in Seq(Msgs) /\ <<>> \in Seq({"cib", "saved"})
        /\ NoRef \in Nat /\ "S_IDLE" \in States /\ "done" \in Completions
        /\ {} \in SUBSET Actions /\ 0 \in Nat
    BY DataTypes DEF NoRef, States, Completions
  <1>3. dc \in Controllers
    BY <1>1, <1>2, Zenon DEF Init, Controllers
  <1>4. /\ dc.queue = <<>> /\ dc.acts = {} /\ ~dc.running /\ ~dc.busy /\ ~dc.timer
    BY DEF Init
  <1>5. Good(dc) /\ Stable(dc)
    BY <1>3, <1>4, EmptyQueue DEF Good, Stable, Invokes
  <1>6. Counted
    <2>1. Updated(pipe) = {}
      BY DEF Init, Updated
    <2> QED BY <2>1, FS_EmptySet DEF Counted, Init
  <1> QED BY <1>1, <1>4, <1>5, <1>6 DEF Inv, Init, TimerMeansPending

(* A callback that leaves the channels alone, or a step of the FSA *)
LEMMA QuietStep ==
  ASSUME Inv, Good(dc'), Stable(dc'), dc'.timer => dc.timer /\ dc'.ref = dc.ref,
         UNCHANGED <<cib, pipe, sched, updates>>, budget' \in Bounds
  PROVE  Inv'
  BY DEF Inv, Counted, TimerMeansPending

(* Outside of the FSA, functions of the controller keep it stable. *)
LEMMA CallbackStable ==
  ASSUME Inv, Ready, NEW e, Step(dc, e)
  PROVE  Good(e) /\ Stable(e) /\ (e.timer => dc.timer /\ e.ref = dc.ref)
  BY DEF Inv, Ready, Step, Stable

LEMMA BudgetTypes ==
  ASSUME NEW b \in Bounds
  PROVE  /\ b.changes > 0 => [b EXCEPT !.changes = @ - 1] \in Bounds
         /\ b.joins > 0 => [b EXCEPT !.joins = @ - 1] \in Bounds
         /\ b.elections > 0 => [b EXCEPT !.elections = @ - 1] \in Bounds
         /\ b.updates > 0 => [b EXCEPT !.updates = @ - 1] \in Bounds
         /\ b.rechecks > 0 => [b EXCEPT !.rechecks = @ - 1] \in Bounds
         /\ b.late > 0 => [b EXCEPT !.late = @ - 1] \in Bounds
         /\ b.failures > 0 => [b EXCEPT !.failures = @ - 1] \in Bounds
         /\ b.losses > 0 => [b EXCEPT !.losses = @ - 1] \in Bounds
  BY DEF Bounds

-----------------------------------------------------------------------------
(* The invariant is preserved by the FSA *)

LEMMA FsaBeginInv == Inv /\ FsaBegin => Inv'
  <1> SUFFICES ASSUME Inv, FsaBegin PROVE Inv'
    OBVIOUS
  <1> DEFINE m == Msg("I_NULL", NoData, {})
             q == IF dc.queue = <<>> /\ dc.acts # {} THEN <<m>> ELSE dc.queue
             d == [dc EXCEPT !.trigger = FALSE, !.stalled = FALSE, !.queue = q]
  <1>1. ~dc.busy /\ "A_TE_INVOKE" \notin dc.acts
    BY DEF Inv, FsaBegin, Stable, Good, Invokes
  <1>2. m \in Msgs /\ Kept(m)
    BY MsgTypes, DataTypes, InputSet DEF Kept
  <1>3. Queue(<<m>>)
    <2> HIDE DEF m
    <2>1. <<m>> = Append(<<>>, m)
      OBVIOUS
    <2> QED BY <1>2, <2>1, EmptyQueue, QueueAppend, Zenon
  <1>4. Queue(q) /\ q \in Seq(Msgs)
    <2> HIDE DEF m
    <2> QED BY <1>3 DEF Inv, Good, Queue
  <1>5. dc' = Settle(d)
    BY DEF FsaBegin
  <1> HIDE DEF q
  <1>6. d \in Controllers
    BY <1>4, Zenon DEF Inv, Good, Controllers
  <1>7. /\ d.queue = q /\ d.acts = dc.acts /\ d.busy = dc.busy
        /\ d.timer = dc.timer /\ d.ref = dc.ref
    BY DEF Inv, Good, Controllers
  <1> HIDE DEF d
  <1>8. Good(d)
    BY <1>1, <1>4, <1>6, <1>7 DEF Good, Invokes
  <1>9. /\ Good(Settle(d)) /\ Stable(Settle(d))
        /\ Settle(d).timer => d.timer /\ Settle(d).ref = d.ref
    BY <1>1, <1>7, <1>8, SettleStable
  <1>10. budget' \in Bounds /\ UNCHANGED <<cib, pipe, sched, updates>>
    BY DEF Inv, FsaBegin
  <1> QED BY <1>5, <1>7, <1>9, <1>10, QuietStep

LEMMA FsaInputInv == Inv /\ FsaInput => Inv'
  <1> SUFFICES ASSUME Inv, FsaInput PROVE Inv'
    OBVIOUS
  <1> DEFINE m == Head(dc.queue)
             t == Tail(dc.queue)
             n == NextState[m.input][dc.state]
             a == dc.acts \cup m.acts \cup NewActions[m.input][dc.state]
             d == [dc EXCEPT !.queue = t, !.busy = TRUE, !.cur = m,
                             !.acts = a, !.state = n]
  <1>1. /\ Queue(t) /\ m \in Msgs /\ Kept(m)
        /\ ~dc.stalled /\ dc.running /\ "A_TE_INVOKE" \notin dc.acts
    BY QueueTail DEF Inv, FsaInput, Stable, Good, Invokes
  <1>2. /\ m.input \in Inputs /\ m.acts \in SUBSET Actions /\ dc.state \in States
        /\ dc.acts \in SUBSET Actions
    BY <1>1 DEF Msgs, Inv, Good, Controllers
  <1>3. n \in States
    BY <1>2, NextTypes
  <1>4. /\ a \in SUBSET Actions
        /\ "A_TE_INVOKE" \in a => m.data.kind = "graph"
    BY <1>1, <1>2, ActionTypes DEF Kept
  <1>5. \/ dc' = Settle(d) /\ budget' = budget
        \/ CheckJoinCounts(d)
    BY DEF FsaInput
  <1>6. t \in Seq(Msgs)
    BY <1>1 DEF Queue
  <1> HIDE DEF t, n, a, m
  <1>7. d \in Controllers
    BY <1>1, <1>3, <1>4, <1>6, Zenon DEF Inv, Good, Controllers
  <1>8. /\ d.queue = t /\ d.busy = TRUE /\ d.cur = m /\ d.acts = a
        /\ d.stalled = dc.stalled /\ d.running = dc.running
        /\ d.timer = dc.timer /\ d.ref = dc.ref
    BY DEF Inv, Good, Controllers
  <1> HIDE DEF d
  <1>9. Good(d) /\ d.running
    BY <1>1, <1>4, <1>7, <1>8 DEF Good, Invokes
  <1>10. ASSUME NEW e, Step(d, e), dc' = Settle(e), budget' \in Bounds
         PROVE  Inv'
    <2>1. /\ Good(Settle(e)) /\ Stable(Settle(e))
          /\ Settle(e).timer => d.timer /\ Settle(e).ref = d.ref
      BY <1>9, <1>10, SettleStep
    <2>2. UNCHANGED <<cib, pipe, sched, updates>>
      BY DEF FsaInput
    <2> QED BY <1>8, <1>10, <2>1, <2>2, QuietStep
  <1>11. /\ Step(d, d) /\ Step(d, FsaPrepend(d, "I_NODE_JOIN"))
         /\ Step(d, FsaAppend(d, "I_ELECTION", NoData))
    BY <1>9, SelfStep, PrependStep, AppendStep, InputSet, DataTypes
  <1>12. budget \in Bounds
    BY DEF Inv
  <1>13. CASE dc' = Settle(d) /\ budget' = budget
    BY <1>10, <1>11, <1>12, <1>13
  <1>14. CASE CheckJoinCounts(d)
    BY <1>10, <1>11, <1>12, <1>14, BudgetTypes, Zenon DEF CheckJoinCounts
  <1> QED BY <1>5, <1>13, <1>14

LEMMA FsaActionInv == Inv /\ FsaAction => Inv'
  <1> SUFFICES ASSUME Inv, FsaAction PROVE Inv'
    OBVIOUS
  <1> DEFINE a == First(dc.acts)
             d == [dc EXCEPT !.acts = @ \ {a}]
             c == [d EXCEPT !.connected = TRUE]
  <1>1. dc.running /\ Good(dc)
    BY DEF Inv, FsaAction
  <1>2. Step(dc, d)
    <2> HIDE DEF a
    <2> QED BY <1>1, Zenon DEF Good, Step, Controllers, Invokes
  <1>3. \/ a = "A_PE_START" /\ dc' = Settle(c) /\ budget' = budget
        \/ a = "A_TE_HALT" /\ dc' = Settle(DoTeStop(d, a, "wait")) /\ budget' = budget
        \/ /\ a = "A_TE_CANCEL" /\ dc' = Settle(DoTeStop(d, a, "restart"))
           /\ budget' = budget
        \/ dc' = Settle(DoPeInvoke(d)) /\ budget' = budget
        \/ dc' = Settle(DoTeInvoke(d)) /\ budget' = budget
        \/ /\ dc' = Settle(FsaError(d, "I_FAIL")) /\ budget.failures > 0
           /\ budget' = [budget EXCEPT !.failures = @ - 1]
    BY DEF FsaAction
  <1> HIDE DEF d
  <1>4. Good(d)
    BY <1>2 DEF Step
  <1>5. ASSUME NEW e, Step(d, e), dc' = Settle(e), budget' \in Bounds
        PROVE  Inv'
    <2>1. Step(dc, e)
      BY <1>2, <1>5, StepTrans
    <2>2. /\ Good(Settle(e)) /\ Stable(Settle(e))
          /\ Settle(e).timer => dc.timer /\ Settle(e).ref = dc.ref
      BY <1>1, <2>1, SettleStep
    <2>3. UNCHANGED <<cib, pipe, sched, updates>>
      BY DEF FsaAction
    <2> QED BY <1>5, <2>2, <2>3, QuietStep
  <1>6. Step(d, c)
    BY <1>4, Zenon DEF Good, Step, Controllers, Invokes
  <1>7. /\ a = "A_TE_HALT" => Step(d, DoTeStop(d, a, "wait"))
        /\ a = "A_TE_CANCEL" => Step(d, DoTeStop(d, a, "restart"))
    BY <1>4, StopStep DEF Actions, Completions
  <1>8. Step(d, DoPeInvoke(d)) /\ Step(d, DoTeInvoke(d)) /\ Step(d, FsaError(d, "I_FAIL"))
    BY <1>4, InvokeStep, TeInvokeStep, ErrorStep, InputSet
  <1>9. /\ budget \in Bounds
        /\ budget.failures > 0 => [budget EXCEPT !.failures = @ - 1] \in Bounds
    BY BudgetTypes, Zenon DEF Inv
  <1> HIDE DEF a, c
  <1> QED BY <1>3, <1>5, <1>6, <1>7, <1>8, <1>9

-----------------------------------------------------------------------------
(* It is preserved by the callbacks, and by the other daemons *)

(* A callback that leaves the channels alone *)
LEMMA CallbackInv ==
  ASSUME Inv, Ready, Step(dc, dc'), budget' \in Bounds,
         UNCHANGED <<cib, pipe, sched, updates>>
  PROVE  Inv'
  BY CallbackStable, QuietStep

LEMMA TimersInv ==
  Inv /\ (SleepTimer \/ TransitionTimer \/ RecheckTimer) => Inv'
  <1> SUFFICES ASSUME Inv, SleepTimer \/ TransitionTimer \/ RecheckTimer
               PROVE  Inv'
    OBVIOUS
  <1> DEFINE r == [dc EXCEPT !.retry = FALSE, !.acts = @ \cup {"A_PE_INVOKE"}]
             t == [dc EXCEPT !.delay = FALSE]
  <1>1. Good(dc) /\ budget \in Bounds
    BY DEF Inv
  <1>2. Step(dc, r)
    <2>1. {"A_PE_INVOKE"} \in SUBSET Actions
      BY DEF Actions
    <2>2. r \in Controllers
      BY <1>1, <2>1, Zenon DEF Good, Controllers
    <2> QED BY <1>1, <2>2 DEF Good, Step, Controllers, Invokes
  <1>3. Step(dc, t)
    BY <1>1, Zenon DEF Good, Step, Controllers, Invokes
  <1>4. Good(r) /\ Good(t)
    BY <1>2, <1>3 DEF Step
  <1>5. CASE SleepTimer
    <2>1. dc' = SetTrigger(r)
      BY <1>5 DEF SleepTimer
    <2> HIDE DEF r
    <2>2. Step(dc, dc')
      BY <1>2, <1>4, <2>1, TriggerStep, StepTrans
    <2> QED BY <1>1, <1>5, <2>2, CallbackInv DEF SleepTimer
  <1>6. CASE TransitionTimer
    <2> DEFINE e == FsaAppend(t, "I_PE_CALC", NoData)
    <2>1. dc' = SetTrigger(e)
      BY <1>6 DEF TransitionTimer
    <2> HIDE DEF t
    <2>2. Step(t, e)
      BY <1>4, AppendStep, InputSet, DataTypes
    <2> HIDE DEF e
    <2>3. Step(e, SetTrigger(e))
      BY <2>2, TriggerStep DEF Step
    <2>4. Step(dc, dc')
      BY <1>3, <2>1, <2>2, <2>3, StepTrans
    <2> QED BY <1>1, <1>6, <2>4, CallbackInv DEF TransitionTimer
  <1>7. CASE RecheckTimer
    <2> DEFINE e == FsaAppend(dc, "I_PE_CALC", NoData)
    <2>1. dc' = SetTrigger(e)
      BY <1>7 DEF RecheckTimer
    <2>2. Step(dc, e)
      BY <1>1, AppendStep, InputSet, DataTypes
    <2> HIDE DEF e
    <2>3. Step(e, SetTrigger(e))
      BY <2>2, TriggerStep DEF Step
    <2>4. Step(dc, dc')
      BY <2>1, <2>2, <2>3, StepTrans
    <2> QED BY <1>1, <1>7, <2>4, CallbackInv, BudgetTypes, Zenon DEF RecheckTimer
  <1> QED BY <1>5, <1>6, <1>7

LEMMA GraphInv == Inv /\ (GraphCompletes \/ GraphTriggeredLate) => Inv'
  <1> SUFFICES ASSUME Inv, GraphCompletes \/ GraphTriggeredLate PROVE Inv'
    OBVIOUS
  <1>1. budget \in Bounds /\ Step(dc, dc')
    BY NotifyStep DEF Inv, GraphCompletes, GraphTriggeredLate
  <1> QED BY <1>1, CallbackInv, BudgetTypes, Zenon DEF GraphCompletes, GraphTriggeredLate

LEMMA MembershipInv ==
  Inv /\ (NodeJoin \/ CheckJoinState \/ ElectionCalled \/ ElectionWon) => Inv'
  <1> SUFFICES ASSUME Inv, NodeJoin \/ CheckJoinState \/ ElectionCalled \/ ElectionWon
               PROVE  Inv'
    OBVIOUS
  <1>1. Good(dc) /\ budget \in Bounds
    BY DEF Inv
  <1>2. /\ Step(dc, FsaAppend(dc, "I_NODE_JOIN", JoinData))
        /\ Step(dc, FsaPrepend(dc, "I_NODE_JOIN"))
        /\ Step(dc, FsaPrepend(dc, "I_INTEGRATED"))
        /\ Step(dc, FsaAppend(dc, "I_FINALIZED", NoData))
        /\ Step(dc, FsaAppend(dc, "I_ELECTION", NoData))
        /\ Step(dc, FsaAppend(dc, "I_ELECTION_DC", NoData))
        /\ Step(dc, FsaError(dc, "I_ELECTION"))
    BY <1>1, AppendStep, PrependStep, ErrorStep, InputSet, DataTypes
  <1>3. Step(dc, dc')
    BY <1>2 DEF NodeJoin, CheckJoinState, ElectionCalled, ElectionWon
  <1>4. budget' \in Bounds
    BY <1>1, BudgetTypes, Zenon DEF NodeJoin, CheckJoinState, ElectionCalled, ElectionWon
  <1> QED BY <1>3, <1>4, CallbackInv DEF NodeJoin, CheckJoinState, ElectionCalled, ElectionWon

LEMMA TimeoutInv == Inv /\ SchedTimeout => Inv'
  <1> SUFFICES ASSUME Inv, SchedTimeout PROVE Inv'
    OBVIOUS
  <1> DEFINE e == Leave(dc)
  <1>1. /\ NoMsg \in Msgs /\ <<>> \in Seq(Msgs) /\ {} \in SUBSET Actions
        /\ NoRef \in Nat /\ "S_RECOVERY" \in States
    BY DataTypes DEF NoRef, States
  <1>2. e \in Controllers
    BY <1>1, Zenon DEF Leave, Inv, Good, Controllers
  <1>3. e.queue = <<>> /\ e.acts = {} /\ ~e.running /\ ~e.busy /\ ~e.timer
    BY DEF Leave, Inv, Good, Controllers
  <1> HIDE DEF e
  <1>4. Good(e) /\ Stable(e)
    BY <1>2, <1>3, EmptyQueue DEF Good, Stable, Invokes
  <1>5. dc' = e /\ budget' \in Bounds /\ UNCHANGED <<cib, pipe, sched, updates>>
    BY DEF SchedTimeout, Inv, e
  <1> QED BY <1>3, <1>4, <1>5, QuietStep

(* The CIB manager sends something. *)
LEMMA SendInv ==
  ASSUME Inv, Good(dc'), Stable(dc'), dc'.timer => dc.timer /\ dc'.ref = dc.ref,
         NEW m \in CibMsgs, pipe' = Append(pipe, m),
         m.type = "updated" => Cardinality(Updated(pipe)) < updates,
         cib' \in Nat, UNCHANGED <<sched, updates>>, budget' \in Bounds
  PROVE  Inv'
  <1>1. pipe \in Seq(CibMsgs) /\ Counted /\ updates \in Nat
    BY DEF Inv
  <1>2. /\ Append(pipe, m) \in Seq(CibMsgs)
        /\ Cardinality(Updated(Append(pipe, m)))
             <= Cardinality(Updated(pipe)) + (IF m.type = "updated" THEN 1 ELSE 0)
    BY <1>1, UpdatedAppend
  <1>3. /\ Cardinality(Updated(pipe)) \in Nat
        /\ Cardinality(Updated(Append(pipe, m))) \in Nat
    BY <1>1, <1>2, UpdatedFinite, Zenon
  <1>4. pipe' \in Seq(CibMsgs) /\ Counted'
    BY <1>1, <1>2, <1>3 DEF Counted
  <1> QED BY <1>1, <1>4 DEF Inv, TimerMeansPending

LEMMA CibManagerInv ==
  Inv /\ (CibChange \/ CibAnswer \/ UpdateAnswer \/ UpdateSent) => Inv'
  <1> SUFFICES ASSUME Inv, CibChange \/ CibAnswer \/ UpdateAnswer \/ UpdateSent
               PROVE  Inv'
    OBVIOUS
  <1>1. /\ Good(dc) /\ Stable(dc) /\ budget \in Bounds /\ cib \in Nat
        /\ updates \in Nat
    BY DEF Inv
  <1>2. CASE CibChange
    <2>1. CibMsg("diff", 0) \in CibMsgs /\ CibMsg("diff", 0).type # "updated"
      BY DEF CibMsg, CibMsgs
    <2>2. cib' \in Nat
      BY <1>1, <1>2 DEF CibChange
    <2>3. budget' \in Bounds
      BY <1>1, <1>2, BudgetTypes, Zenon DEF CibChange
    <2> QED BY <1>1, <1>2, <2>1, <2>2, <2>3, SendInv DEF CibChange
  <1>3. CASE CibAnswer
    <2> DEFINE m == CibMsg(Head(dc.asked), cib)
               e == [dc EXCEPT !.asked = Tail(@)]
    <2>1. /\ Head(dc.asked) \in {"cib", "saved"} /\ Tail(dc.asked) \in Seq({"cib", "saved"})
      BY <1>1, <1>3 DEF CibAnswer, Good, Controllers
    <2>2. m \in CibMsgs /\ m.type # "updated"
      BY <1>1, <2>1 DEF CibMsg, CibMsgs
    <2>3. e \in Controllers
      BY <1>1, <2>1, Zenon DEF Good, Controllers
    <2>4. Good(e) /\ Stable(e) /\ e.timer = dc.timer /\ e.ref = dc.ref
      BY <1>1, <2>3, Zenon DEF Good, Stable, Controllers, Invokes
    <2>5. pipe' = Append(pipe, m) /\ dc' = e /\ UNCHANGED <<cib, sched, updates, budget>>
      BY <1>3 DEF CibAnswer
    <2> HIDE DEF m, e
    <2> QED BY <1>1, <2>2, <2>4, <2>5, SendInv
  <1>4. CASE UpdateAnswer
    <2>1. CibMsg("updated", 0) \in CibMsgs
      BY DEF CibMsg, CibMsgs
    <2>2. Cardinality(Updated(pipe)) < updates
      BY <1>1, <1>4, UpdatedFinite DEF UpdateAnswer, Inv
    <2> QED BY <1>1, <1>4, <2>1, <2>2, SendInv DEF UpdateAnswer
  <1>5. CASE UpdateSent
    <2>1. updates' \in Nat /\ updates <= updates'
      BY <1>1, <1>5 DEF UpdateSent
    <2>2. budget' \in Bounds
      BY <1>1, <1>5, BudgetTypes, Zenon DEF UpdateSent
    <2>3. Counted'
      BY <1>1, <1>5, <2>1, UpdatedFinite DEF UpdateSent, Inv, Counted
    <2> QED BY <1>5, <2>1, <2>2, <2>3 DEF UpdateSent, Inv, TimerMeansPending
  <1> QED BY <1>2, <1>3, <1>4, <1>5

(* The controller takes a message of the CIB manager that is not the answer *)
(* to an update.                                                           *)
LEMMA TakeInv ==
  ASSUME Inv, Good(dc'), Stable(dc'), pipe # <<>>, Head(pipe).type # "updated",
         pipe' = Tail(pipe), UNCHANGED <<cib, updates>>, budget' \in Bounds,
         sched' \in Seq(Requests), TimerMeansPending'
  PROVE  Inv'
  <1>1. pipe \in Seq(CibMsgs) /\ Counted /\ updates \in Nat
    BY DEF Inv
  <1>2. /\ Tail(pipe) \in Seq(CibMsgs)
        /\ Cardinality(Updated(Tail(pipe))) <= Cardinality(Updated(pipe))
    BY <1>1, UpdatedTail, UpdatedFinite
  <1>3. Cardinality(Updated(pipe)) \in Nat /\ Cardinality(Updated(Tail(pipe))) \in Nat
    BY <1>1, <1>2, UpdatedFinite, Zenon
  <1>4. Counted'
    BY <1>1, <1>2, <1>3 DEF Counted
  <1> QED BY <1>2, <1>4, Zenon DEF Inv

(* The request that is waited for stays where it is. *)
LEMMA TakeQuietInv ==
  ASSUME Inv, Ready, Step(dc, dc'), pipe # <<>>, Head(pipe).type # "updated",
         pipe' = Tail(pipe), UNCHANGED <<cib, updates, sched>>, budget' \in Bounds
  PROVE  Inv'
  <1>1. Good(dc') /\ Stable(dc') /\ (dc'.timer => dc.timer /\ dc'.ref = dc.ref)
    BY CallbackStable
  <1>2. TimerMeansPending' /\ sched' \in Seq(Requests)
    BY <1>1 DEF Inv, TimerMeansPending
  <1> QED BY <1>1, <1>2, TakeInv

LEMMA DiffInv == Inv /\ (TeUpdateDiff \/ SaveCibContents) => Inv'
  <1> SUFFICES ASSUME Inv, TeUpdateDiff \/ SaveCibContents PROVE Inv'
    OBVIOUS
  <1>1. Good(dc) /\ budget' \in Bounds
    BY DEF Inv, TeUpdateDiff, SaveCibContents
  <1>2. /\ Step(dc, dc) /\ Step(dc, AbortTransition(dc, "restart"))
        /\ Step(dc, FsaError(dc, "I_ERROR"))
    BY <1>1, SelfStep, AbortStep, ErrorStep, InputSet DEF Completions
  <1>3. Step(dc, dc')
    BY <1>2 DEF TeUpdateDiff, SaveCibContents
  <1> QED BY <1>1, <1>3, TakeQuietInv DEF TeUpdateDiff, SaveCibContents

LEMMA UpdateCallbackInv == Inv /\ UpdateCallback => Inv'
  <1> SUFFICES ASSUME Inv, UpdateCallback PROVE Inv'
    OBVIOUS
  <1>1. /\ Good(dc) /\ pipe \in Seq(CibMsgs) /\ Counted /\ updates \in Nat
        /\ Ready /\ pipe # <<>> /\ Head(pipe).type = "updated"
        /\ pipe' = Tail(pipe) /\ updates' = updates - 1
        /\ UNCHANGED <<cib, sched, budget>>
    BY DEF Inv, UpdateCallback
  <1>2. Step(dc, dc')
    BY <1>1, SelfStep, TriggerStep DEF UpdateCallback
  <1>3. Good(dc') /\ Stable(dc') /\ (dc'.timer => dc.timer /\ dc'.ref = dc.ref)
    BY <1>1, <1>2, CallbackStable
  <1>4. /\ Tail(pipe) \in Seq(CibMsgs)
        /\ Cardinality(Updated(Tail(pipe))) <= Cardinality(Updated(pipe)) - 1
    BY <1>1, UpdatedTail
  <1>5. Cardinality(Updated(pipe)) \in Nat /\ Cardinality(Updated(Tail(pipe))) \in Nat
    BY <1>1, <1>4, UpdatedFinite, Zenon
  <1>6. updates' \in Nat /\ Counted'
    BY <1>1, <1>4, <1>5 DEF Counted
  <1>7. TimerMeansPending'
    BY <1>1, <1>3 DEF Inv, TimerMeansPending
  <1> QED BY <1>1, <1>3, <1>4, <1>6, <1>7, Zenon DEF Inv

(* A request that is sent is the one waited for. *)
LEMMA CibCallbackInv == Inv /\ DoPeInvokeCallback => Inv'
  <1> SUFFICES ASSUME Inv, DoPeInvokeCallback PROVE Inv'
    OBVIOUS
  <1>1. /\ Good(dc) /\ budget \in Bounds /\ Stable(dc) /\ sched \in Seq(Requests)
        /\ pipe \in Seq(CibMsgs)
        /\ Ready /\ pipe # <<>> /\ Head(pipe).type # "updated"
        /\ pipe' = Tail(pipe) /\ UNCHANGED <<cib, updates>>
    BY DEF Inv, DoPeInvokeCallback
  <1> DEFINE r == [dc EXCEPT !.retry = TRUE]
  <1>2. /\ Step(dc, FsaError(dc, "I_ERROR")) /\ Step(dc, dc)
    BY <1>1, SelfStep, ErrorStep, InputSet
  <1>3. Step(dc, r)
    BY <1>1, Zenon DEF Good, Step, Controllers, Invokes
  <1>4. \/ /\ Step(dc, dc') /\ UNCHANGED sched
           /\ \/ budget' = budget
              \/ budget.failures > 0 /\ budget' = [budget EXCEPT !.failures = @ - 1]
        \/ /\ UNCHANGED budget
           /\ \E ref \in NewRefs :
                /\ sched' = Append(sched, [ref |-> ref, version |-> Head(pipe).version])
                /\ dc' = ExpectReply(dc, ref)
    BY <1>2, <1>3, Zenon DEF DoPeInvokeCallback
  <1>5. [budget EXCEPT !.failures = @ - 1] \in Bounds \/ ~(budget.failures > 0)
    BY <1>1, BudgetTypes, Zenon
  <1>6. CASE Step(dc, dc') /\ UNCHANGED sched /\ budget' \in Bounds
    BY <1>1, <1>6, TakeQuietInv
  <1>7. ASSUME NEW ref \in NewRefs, UNCHANGED budget,
               sched' = Append(sched, [ref |-> ref, version |-> Head(pipe).version]),
               dc' = ExpectReply(dc, ref)
        PROVE  Inv'
    <2> DEFINE e == ExpectReply(dc, ref)
               q == [ref |-> ref, version |-> Head(pipe).version]
    <2>1. ref \in Nat
      BY DEF NewRefs
    <2>2. Head(pipe) \in CibMsgs
      BY <1>1
    <2>3. q \in Requests /\ q.ref = ref
      BY <2>1, <2>2 DEF CibMsgs, Requests
    <2>4. (ref # NoRef) \in BOOLEAN
      OBVIOUS
    <2>5. e \in Controllers
      BY <1>1, <2>1, <2>4, Zenon DEF ExpectReply, Good, Controllers
    <2>6. /\ e.ref = ref /\ e.queue = dc.queue /\ e.acts = dc.acts /\ e.busy = dc.busy
          /\ e.stalled = dc.stalled /\ e.cur = dc.cur /\ e.running = dc.running
      BY <1>1 DEF ExpectReply, Good, Controllers
    <2>7. sched' = Append(sched, q) /\ dc' = e
      BY <1>7
    <2> HIDE DEF e, q
    <2>8. Good(e) /\ Stable(e)
      BY <1>1, <2>5, <2>6 DEF Good, Stable, Invokes
    <2>9. /\ sched' \in Seq(Requests) /\ Len(sched) + 1 \in DOMAIN sched'
          /\ sched'[Len(sched) + 1] = q
      BY <1>1, <2>3, <2>7
    <2>10. TimerMeansPending'
      BY <2>3, <2>6, <2>7, <2>9 DEF TimerMeansPending
    <2>11. budget' \in Bounds
      BY <1>1, <1>7
    <2> QED BY <1>1, <2>7, <2>8, <2>9, <2>10, <2>11, TakeInv
  <1> HIDE DEF r
  <1> QED BY <1>1, <1>4, <1>5, <1>6, <1>7, Zenon

(* An answer that is not the one waited for leaves that one in place; the  *)
(* other one stops the timer.                                              *)
LEMMA ReplyInv == Inv /\ HandleReply => Inv'
  <1> SUFFICES ASSUME Inv, HandleReply PROVE Inv'
    OBVIOUS
  <1>1. /\ Good(dc) /\ Stable(dc) /\ sched \in Seq(Requests) /\ Ready /\ sched # <<>>
        /\ sched' = Tail(sched) /\ UNCHANGED <<cib, pipe, updates, budget>>
        /\ TimerMeansPending
    BY DEF Inv, HandleReply
  <1>2. sched' \in Seq(Requests) /\ Head(sched) \in Requests
    BY <1>1
  <1>3. ASSUME Good(dc'), Stable(dc'), TimerMeansPending' PROVE Inv'
    BY <1>1, <1>2, <1>3 DEF Inv, Counted
  <1>4. CASE Head(sched).ref # dc.ref
    <2>1. dc' = dc
      BY <1>4 DEF HandleReply
    <2>2. ASSUME dc.timer PROVE \E j \in DOMAIN sched' : sched'[j].ref = dc.ref
      <3>1. PICK i \in DOMAIN sched : sched[i].ref = dc.ref
        BY <1>1, <2>2 DEF TimerMeansPending
      <3>2. i # 1
        BY <1>1, <1>4, <3>1
      <3>3. i - 1 \in DOMAIN sched' /\ sched'[i - 1] = sched[i]
        BY <1>1, <3>1, <3>2
      <3> QED BY <3>1, <3>3
    <2> QED BY <1>1, <1>3, <2>1, <2>2 DEF TimerMeansPending
  <1>5. CASE Head(sched).ref = dc.ref
    <2> DEFINE d == [dc EXCEPT !.timer = FALSE]
               g == GraphData(Head(sched).ref, Head(sched).version)
    <2>1. Step(dc, d) /\ ~d.timer
      BY <1>1, Zenon DEF Good, Step, Controllers, Invokes
    <2>2. g \in Data /\ g.kind = "graph"
      BY <1>2 DEF Requests, GraphData, Data
    <2>3. dc' = FsaAppend(d, "I_PE_SUCCESS", g)
      BY <1>5 DEF HandleReply
    <2> HIDE DEF d, g
    <2>4. Step(d, dc')
      <3>1. Good(d)
        BY <2>1 DEF Step
      <3>2. "I_PE_SUCCESS" \in Inputs
        BY InputSet
      <3> QED BY <2>2, <2>3, <3>1, <3>2, AppendStep, Zenon
    <2>5. Step(dc, dc') /\ ~dc'.timer
      BY <2>1, <2>4, StepTrans DEF Step
    <2> QED BY <1>1, <1>3, <2>5, CallbackStable DEF TimerMeansPending
  <1> QED BY <1>4, <1>5

(* The timer does not outlive the connection. *)
LEMMA DisconnectInv == Inv /\ HandleDisconnect => Inv'
  <1> SUFFICES ASSUME Inv, HandleDisconnect PROVE Inv'
    OBVIOUS
  <1> DEFINE d == ExpectReply(dc, NoRef)
             e == [d EXCEPT !.connected = FALSE, !.asked = Append(@, "saved")]
  <1>1. /\ Good(dc) /\ Stable(dc) /\ budget \in Bounds /\ Ready /\ sched' = <<>>
        /\ UNCHANGED <<cib, pipe, updates>> /\ dc' = SetTrigger(e)
    BY DEF Inv, HandleDisconnect
  <1>2. budget' \in Bounds
    BY <1>1, BudgetTypes, Zenon DEF HandleDisconnect
  <1>3. Step(dc, d) /\ ~d.timer
    BY <1>1, ForgetStep, Zenon
  <1> HIDE DEF d
  <1>4. Good(d)
    BY <1>3, Zenon DEF Step
  <1>5. Append(d.asked, "saved") \in Seq({"cib", "saved"})
    BY <1>4 DEF Good, Controllers
  <1>6. e \in Controllers
    BY <1>4, <1>5, Zenon DEF Good, Controllers
  <1>7. Step(d, e) /\ ~e.timer
    BY <1>3, <1>4, <1>6, Zenon DEF Good, Step, Controllers, Invokes
  <1> HIDE DEF e
  <1>8. Step(e, SetTrigger(e))
    BY <1>7, TriggerStep, Zenon DEF Step
  <1>9. Step(dc, dc') /\ ~dc'.timer
    BY <1>1, <1>3, <1>7, <1>8, StepTrans, Zenon DEF Step
  <1>10. Good(dc') /\ Stable(dc')
    BY <1>1, <1>9, CallbackStable, Zenon
  <1>11. sched' \in Seq(Requests)
    BY <1>1
  <1> QED BY <1>1, <1>2, <1>9, <1>10, <1>11 DEF Inv, Counted, TimerMeansPending

-----------------------------------------------------------------------------
(* Theorems *)

LEMMA InvNext == Inv /\ [Next]_vars => Inv'
  <1> SUFFICES ASSUME Inv, [Next]_vars PROVE Inv'
    OBVIOUS
  <1>1. CASE FsaBegin \/ FsaInput \/ FsaAction
    BY <1>1, FsaBeginInv, FsaInputInv, FsaActionInv
  <1>2. CASE CibChange \/ CibAnswer \/ UpdateAnswer \/ UpdateSent
    BY <1>2, CibManagerInv
  <1>3. CASE FromCib
    BY <1>3, DiffInv, UpdateCallbackInv, CibCallbackInv DEF FromCib
  <1>4. CASE HandleReply \/ HandleDisconnect \/ SchedTimeout
    BY <1>4, ReplyInv, DisconnectInv, TimeoutInv
  <1>5. CASE SleepTimer \/ TransitionTimer \/ RecheckTimer
    BY <1>5, TimersInv
  <1>6. CASE GraphCompletes \/ GraphTriggeredLate
    BY <1>6, GraphInv
  <1>7. CASE NodeJoin \/ CheckJoinState \/ ElectionCalled \/ ElectionWon
    BY <1>7, MembershipInv
  <1>8. CASE Rest \/ UNCHANGED vars
    BY <1>8 DEF Rest, vars, Inv, Counted, TimerMeansPending
  <1> QED BY <1>1, <1>2, <1>3, <1>4, <1>5, <1>6, <1>7, <1>8
      DEF Next, Daemons, Environment

LEMMA InvAlways == Spec => []Inv
  BY InvInit, InvNext, PTL DEF Spec

(* Whatever happens, the queue of the FSA, its pending actions and the      *)
(* message it handles are well formed, and no update is answered twice.    *)
THEOREM TypeCorrect == Spec => []TypeOK
  <1>1. Inv => TypeOK
    BY DEF Inv, Good, TypeOK
  <1> QED BY <1>1, InvAlways, PTL

(* The timer of controld_sched_timeout, which makes the DC exit, never runs *)
(* without the request it waits for: ExpectReply forgets both together, and *)
(* the answers to requests that were forgotten leave it alone.             *)
THEOREM TimerNeverStale == Spec => []TimerMeansPending
  <1>1. Inv => TimerMeansPending
    BY DEF Inv
  <1> QED BY <1>1, InvAlways, PTL

(* do_te_invoke finds a graph in the message that it handles: A_TE_INVOKE   *)
(* does not outlive the message it came with, and a message that is put    *)
(* back for later (crmd_fsa_stall, register_fsa_error_adv) keeps its graph *)
(* or loses the action.                                                    *)
THEOREM GraphAlwaysThere == Spec => []InvokeHasGraph
  <1>1. ASSUME Inv PROVE InvokeHasGraph
    <2>1. dc.busy => dc.acts # {} /\ dc.acts \in SUBSET Actions
      BY <1>1 DEF Inv, Good, Stable, Controllers
    <2>2. ASSUME dc.acts # {}, dc.acts \in SUBSET Actions PROVE First(dc.acts) \in dc.acts
      BY <2>2 DEF First, Actions
    <2> QED BY <1>1, <2>1, <2>2 DEF InvokeHasGraph, Inv, Good, Invokes
  <1> QED BY <1>1, InvAlways, PTL

LEMMA IdleAlways == Spec => []Idle
  <1>1. Init => Idle
    BY IdleInit
  <1>2. Inv => Shape
    BY DEF Inv, Shape
  <1> QED BY <1>1, <1>2, InvAlways, IdleNext, PTL DEF Spec

(* A DC that is in S_IDLE has missed no change: a calculation was asked    *)
(* for (I_PE_CALC is queued, or the transition timer runs), or the last    *)
(* graph has ended, and was calculated from the current CIB, unless the    *)
(* notification of a change is on its way. So te_update_diff,              *)
(* abort_transition_graph, do_te_invoke and notify_crmd between them lose  *)
(* no change, whatever joins, elections, crashes of the scheduler, failed  *)
(* queries and late results come in between.                               *)
THEOREM IdleAlwaysCurrent == Spec => []IdleIsCurrent
  <1>1. Idle => IdleIsCurrent
    BY DEF Idle, Current, InIdle, CalcDue, Fresh, IdleIsCurrent
  <1> QED BY <1>1, IdleAlways, PTL
================================================================================
