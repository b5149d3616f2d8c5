--------------------------- MODULE SchedulerLoopIdle ---------------------------
(***************************************************************************)
(* Lemmas about SchedulerLoop: every step of the FSA, of a callback and of *)
(* the other daemons keeps the strengthening Idle of IdleIsCurrent.        *)
(***************************************************************************)
EXTENDS SchedulerLoopQueue

-----------------------------------------------------------------------------
(* The loop of the FSA *)

LEMMA SettleFields ==
  ASSUME NEW d \in Controllers
  PROVE  LET e == Settle(d)
         IN  /\ e.version = d.version
             /\ \/ e.state = "S_RECOVERY" /\ e.queue = <<>> /\ e.ref = NoRef
                   /\ ~e.busy /\ e.cur = NoMsg
                \/ e = d /\ Busy(d)
                \/ /\ ~Busy(d) /\ ~e.busy /\ e.cur = NoMsg
                   /\ e.running = (~d.stalled /\ d.queue # <<>>)
                   /\ e.state = d.state /\ e.acts = d.acts /\ e.queue = d.queue
                   /\ e.complete = d.complete /\ e.action = d.action
                   /\ e.delay = d.delay /\ e.connected = d.connected
                   /\ e.ref = d.ref /\ e.stalled = d.stalled
  <1> DEFINE b == ~d.stalled /\ d.queue # <<>>
             x == [d EXCEPT !.busy = FALSE, !.cur = NoMsg, !.running = b]
  <1>1. Settle(d) = IF d.state = "S_RECOVERY" THEN Leave(d) ELSE IF Busy(d) THEN d ELSE x
    BY DEF Settle, Busy
  <1>2. /\ Leave(d).version = d.version /\ Leave(d).state = "S_RECOVERY"
        /\ Leave(d).queue = <<>> /\ Leave(d).ref = NoRef /\ ~Leave(d).busy
        /\ Leave(d).cur = NoMsg
    BY DEF Leave, Controllers
  <1> HIDE DEF b
  <1>3. /\ x.version = d.version /\ ~x.busy /\ x.cur = NoMsg /\ x.running = b
        /\ x.state = d.state /\ x.acts = d.acts /\ x.queue = d.queue
        /\ x.complete = d.complete /\ x.action = d.action
        /\ x.delay = d.delay /\ x.connected = d.connected
        /\ x.ref = d.ref /\ x.stalled = d.stalled
    BY DEF Controllers
  <1> HIDE DEF x
  <1> QED BY <1>1, <1>2, <1>3, Zenon DEF b

LEMMA GoneCurrent ==
  ASSUME NEW e, e.state = "S_RECOVERY", e.queue = <<>>, NEW fresh
  PROVE  Current(e, fresh)
  BY EmptyFlags DEF Current, InIdle, InEngine, InPolicy, InGraph, StopsKept

LEMMA SettleCurrent ==
  ASSUME NEW d \in Controllers, NEW fresh, Current(d, fresh)
  PROVE  Current(Settle(d), fresh)
  <1> DEFINE e == Settle(d)
  <1>1. CASE e.state = "S_RECOVERY" /\ e.queue = <<>>
    BY <1>1, GoneCurrent
  <1>2. CASE e = d
    BY <1>2
  <1>3. CASE /\ ~Busy(d) /\ ~e.busy
             /\ e.running = (~d.stalled /\ d.queue # <<>>)
             /\ e.state = d.state /\ e.acts = d.acts /\ e.queue = d.queue
             /\ e.complete = d.complete /\ e.action = d.action
             /\ e.delay = d.delay /\ e.connected = d.connected /\ e.stalled = d.stalled
    <2> HIDE DEF e
    <2>1. ~Busy(e) /\ (Running(d) => Running(e)) /\ (CalcDue(d) => CalcDue(e))
      BY <1>3, Zenon DEF Busy, Running, CalcDue
    <2>2. InIdle(e, fresh) /\ InGraph(e)
      BY <1>3, <2>1, Zenon DEF Current, InIdle, InGraph
    <2>3. InEngine(e, fresh)
      BY <1>3, <2>1, Zenon DEF Current, InEngine
    <2>4. InPolicy(e)
      BY <1>3, <2>1, Zenon DEF Current, InPolicy
    <2>5. StopsKept(e)
      BY <1>3, Zenon DEF Current, StopsKept
    <2> QED BY <2>2, <2>3, <2>4, <2>5 DEF Current, e
  <1> HIDE DEF e
  <1>4. \/ e.state = "S_RECOVERY" /\ e.queue = <<>>
        \/ e = d
        \/ /\ ~Busy(d) /\ ~e.busy
           /\ e.running = (~d.stalled /\ d.queue # <<>>)
           /\ e.state = d.state /\ e.acts = d.acts /\ e.queue = d.queue
           /\ e.complete = d.complete /\ e.action = d.action
           /\ e.delay = d.delay /\ e.connected = d.connected /\ e.stalled = d.stalled
    BY SettleFields, Zenon DEF e
  <1> QED BY <1>1, <1>2, <1>3, <1>4

LEMMA SettleTracked ==
  ASSUME NEW d \in Controllers, NEW s, NEW c, NEW p, Tracked(d, s, c, p)
  PROVE  Tracked(Settle(d), s, c, p)
  <1> DEFINE e == Settle(d)
  <1>1. CASE e.ref = NoRef
    BY <1>1, ForgottenTracked
  <1>2. CASE e = d
    BY <1>2
  <1>3. CASE /\ ~Busy(d) /\ ~e.busy /\ e.state = d.state /\ e.queue = d.queue
             /\ e.connected = d.connected /\ e.ref = d.ref
    <2> HIDE DEF e
    <2>1. ~Busy(e) /\ ~Carried(e)
      BY <1>3 DEF Busy, Carried
    <2> QED BY <1>3, <2>1, Zenon DEF Tracked, e
  <1> HIDE DEF e
  <1>4. \/ e.ref = NoRef
        \/ e = d
        \/ /\ ~Busy(d) /\ ~e.busy /\ e.state = d.state /\ e.queue = d.queue
           /\ e.connected = d.connected /\ e.ref = d.ref
    BY SettleFields, Zenon DEF e
  <1> QED BY <1>1, <1>2, <1>3, <1>4

LEMMA FirstIs ==
  ASSUME NEW acts \in SUBSET Actions, acts # {}
  PROVE  /\ First(acts) \in acts
         /\ First(acts) = "A_PE_INVOKE" => acts \cap Stops = {} /\ "A_PE_START" \notin acts
         /\ First(acts) = "A_TE_INVOKE" => acts = {"A_TE_INVOKE"}
  BY Zenon DEF First, Actions, Stops

(* e is d without an action that was taken. *)
Took(d, a, e) ==
  /\ e \in Controllers /\ e.acts = d.acts \ {a}
  /\ e.state = d.state /\ e.queue = d.queue /\ e.cur = d.cur
  /\ e.complete = d.complete /\ e.action = d.action /\ e.version = d.version
  /\ e.delay = d.delay /\ e.busy = d.busy /\ e.running = d.running
  /\ e.stalled = d.stalled

LEMMA TakeFields ==
  ASSUME NEW d \in Controllers, NEW a
  PROVE  LET e == [d EXCEPT !.acts = @ \ {a}]
         IN  Took(d, a, e) /\ e.connected = d.connected /\ e.ref = d.ref
  <1>1. d.acts \ {a} \in SUBSET Actions
    BY DEF Controllers
  <1>2. [d EXCEPT !.acts = @ \ {a}] \in Controllers
    BY <1>1, Zenon DEF Controllers
  <1> QED BY <1>2 DEF Controllers, Took

(* do_pe_control, and do_pe_invoke with a scheduler *)
LEMMA TakeConnected ==
  ASSUME NEW d \in Controllers, Busy(d), d.running, NEW a, NEW e, Took(d, a, e),
         a \notin Stops, a # "A_TE_INVOKE", e.connected, NEW fresh, Current(d, fresh)
  PROVE  Current(e, fresh)
  <1>1. /\ ~d.stalled /\ e.running /\ ~e.stalled
        /\ d.queue # <<>> => Running(e)
        /\ e.acts # {} => Busy(e)
    BY DEF Busy, Running, Took
  <1>2. /\ d.acts \cap Stops # {} => e.acts \cap Stops # {} /\ Busy(e)
        /\ "A_TE_INVOKE" \in d.acts => "A_TE_INVOKE" \in e.acts /\ Busy(e)
    BY <1>1 DEF Took
  <1>3. d.queue = <<>> => ~Ahead(d.state, d.queue, {"A_TE_INVOKE"}) /\ AllCovered(d.state, d.queue)
    BY EmptyFlags, Zenon
  <1>4. InIdle(e, fresh) /\ InGraph(e)
    BY Zenon DEF Current, InIdle, InGraph, Took, CalcDue
  <1>5. InEngine(e, fresh)
    BY <1>1, <1>2, <1>3, Zenon DEF Current, InEngine, Took, CalcDue
  <1>6. InPolicy(e)
    BY <1>1, <1>3, Zenon DEF Current, InPolicy, Took
  <1>7. StopsKept(e)
    <2>1. e.acts \cap Stops # {} => d.acts \cap Stops # {}
      BY DEF Took
    <2> QED BY <1>2, <2>1, Zenon DEF Current, StopsKept, Took
  <1> QED BY <1>4, <1>5, <1>6, <1>7 DEF Current

LEMMA TakeTracked ==
  ASSUME NEW d \in Controllers, Busy(d), NEW a, NEW e, Took(d, a, e),
         a # "A_TE_CANCEL", d.connected => e.connected, e.ref = d.ref,
         a = "A_TE_INVOKE" => d.state # "S_TRANSITION_ENGINE",
         NEW s, NEW c, NEW p, Tracked(d, s, c, p)
  PROVE  Tracked(e, s, c, p)
  <1>1. /\ "A_TE_CANCEL" \in d.acts => "A_TE_CANCEL" \in e.acts /\ Busy(e)
        /\ a # "A_TE_INVOKE" /\ "A_TE_INVOKE" \in d.acts => "A_TE_INVOKE" \in e.acts /\ Busy(e)
    BY DEF Took, Busy
  <1>2. Carried(e) => Carried(d)
    BY DEF Took, Carried
  <1> QED BY <1>1, <1>2, Zenon DEF Tracked, Took

(* do_te_invoke for A_TE_HALT and A_TE_CANCEL *)
LEMMA StopCurrent ==
  ASSUME NEW d \in Controllers, Busy(d), NEW a \in Stops, a \in d.acts,
         NEW x, Took(d, a, x), NEW completion \in Completions,
         NEW fresh, Current(d, fresh)
  PROVE  LET e == DoTeStop(x, a, completion)
         IN  Current(e, fresh) /\ e \in Controllers /\ e.ref = NoRef
  <1> DEFINE y == AbortTransition(x, completion)
             e == DoTeStop(x, a, completion)
  <1>1. x \in Controllers /\ a \in Actions
    BY DEF Took, Stops, Actions
  <1>2. /\ Aborts(x, y) /\ Grows(x.state, x.queue, y.queue)
        /\ ~x.complete => y.queue = x.queue /\ y.delay = x.delay
    BY <1>1, AbortFields
  <1>3. e = IF y.complete THEN y ELSE FsaStall(y, a)
    BY DEF DoTeStop
  <1>4. StopsKept(x)
    <2>1. x.acts \cap Stops # {} => d.acts \cap Stops # {} /\ Busy(x)
      BY DEF Took, Busy
    <2> QED BY <2>1, Zenon DEF Current, StopsKept, Took
  <1>5. ASSUME x.complete PROVE Current(y, fresh)
    BY <1>1, <1>4, <1>5, AbortCurrent, DueCurrent
  <1> HIDE DEF y, e
  <1>6. CASE x.complete
    BY <1>2, <1>3, <1>5, <1>6 DEF Aborts, e
  <1>7. ASSUME ~x.complete PROVE Current(e, fresh) /\ e \in Controllers /\ e.ref = NoRef
    <2>1. /\ y \in Controllers /\ y.state = d.state /\ y.queue = d.queue
          /\ y.delay = d.delay /\ ~y.complete /\ ~d.complete /\ y.cur = d.cur
          /\ y.ref = NoRef /\ e = FsaStall(y, a)
      BY <1>2, <1>3, <1>7 DEF Aborts, Took
    <2>2. PICK m : Stalls(y, a, e, m)
      BY <1>1, <2>1, StallFields
    <2>3. d.queue \in Seq(Msgs) /\ e.queue \in Seq(Msgs)
      BY <2>2 DEF Controllers, Stalls
    <2>4. d.state = "S_TRANSITION_ENGINE" => d.cur.data # NoData
      BY DEF Current, StopsKept
    <2>5. Grows(d.state, d.queue, e.queue)
      <3>1. CASE d.cur.data = NoData
        BY <2>1, <2>2, <3>1, GrowsSame DEF Stalls
      <3>2. CASE d.cur.data # NoData
        <4>1. ~Stopping(m) /\ m.input # "I_TE_SUCCESS" /\ Appended(d.queue, m, e.queue)
          BY <2>1, <2>2, <3>2 DEF Stopping, Stalls
        <4> QED BY <2>3, <4>1, KeepsAppend
      <3> QED BY <3>1, <3>2
    <2>6. d.delay \/ AllCovered(d.state, d.queue)
      BY <2>1 DEF Current, InGraph
    <2>7. InGraph(e) /\ InPolicy(e)
      BY <2>1, <2>2, <2>5, <2>6 DEF InGraph, InPolicy, Grows, Stalls
    <2>8. InIdle(e, fresh)
      BY <2>1, <2>2, <2>5 DEF Current, InIdle, CalcDue, Grows, Keeps, Stalls
    <2>9. InEngine(e, fresh)
      <3>1. CASE d.delay \/ CalcAfter(d.queue, 0)
        BY <2>1, <2>2, <2>5, <3>1, Zenon DEF InEngine, CalcDue, Grows, Keeps, Stalls
      <3>2. CASE AllHarmless(d.state, d.queue) /\ d.state = "S_TRANSITION_ENGINE"
        <4>1. /\ Appended(d.queue, m, e.queue) /\ m.input # "I_TE_SUCCESS"
              /\ m.acts \cap Stops # {}
          BY <2>1, <2>2, <2>4, <3>2 DEF Stalls
        <4>2. Ahead(d.state, e.queue, Stops)
          BY <2>3, <3>2, <4>1, AheadAppend
        <4> QED BY <2>1, <2>2, <4>2 DEF InEngine, Stalls
      <3>3. CASE d.state # "S_TRANSITION_ENGINE"
        BY <2>1, <2>2, <3>3 DEF InEngine, Stalls
      <3> QED BY <2>3, <2>6, <3>1, <3>2, <3>3, CoveredSplit
    <2>10. StopsKept(e)
      BY <2>1, <2>2, <2>4, <2>5, Zenon DEF Current, StopsKept, Grows, Keeps, Stalls
    <2> QED BY <2>1, <2>2, <2>7, <2>8, <2>9, <2>10 DEF Current, Stalls
  <1> QED BY <1>6, <1>7 DEF e

(* do_pe_invoke without a scheduler: the FSA waits for it, with the graph   *)
(* that it has.                                                            *)
LEMMA WaitCurrent ==
  ASSUME NEW d \in Controllers, Busy(d), Invokes(d), d.acts \cap Stops = {},
         "A_PE_START" \notin d.acts, ~d.connected,
         NEW x, Took(d, "A_PE_INVOKE", x), ~x.connected, x.ref = NoRef,
         NEW fresh, Current(d, fresh)
  PROVE  LET e == DoPeInvoke(x)
         IN  Current(e, fresh) /\ e \in Controllers /\ e.ref = NoRef
  <1> DEFINE y == FsaStall(x, "A_PE_INVOKE")
             z == [y EXCEPT !.acts = @ \cup {"A_PE_START"}]
             e == DoPeInvoke(x)
  <1>1. x \in Controllers /\ "A_PE_INVOKE" \in Actions /\ "A_PE_START" \in Actions
    BY DEF Took, Actions
  <1>2. PICK m : Stalls(x, "A_PE_INVOKE", y, m)
    BY <1>1, StallFields
  <1>3. e = SetTrigger(z)
    BY DEF DoPeInvoke
  <1> HIDE DEF y, e
  <1>4. /\ z \in Controllers /\ z.acts = y.acts \cup {"A_PE_START"}
        /\ z.state = y.state /\ z.complete = y.complete /\ z.action = y.action
        /\ z.delay = y.delay /\ z.ref = y.ref /\ z.queue = y.queue /\ z.stalled = y.stalled
    <2>1. y.acts \cup {"A_PE_START"} \in SUBSET Actions
      BY <1>1, <1>2 DEF Controllers, Stalls
    <2>2. z \in Controllers
      BY <1>2, <2>1, Zenon DEF Controllers, Stalls
    <2> QED BY <1>2, <2>2, Zenon DEF Controllers, Stalls
  <1> HIDE DEF z
  <1>5. /\ e \in Controllers /\ Alike(z, e) /\ e.ref = z.ref /\ e.queue = z.queue
    BY <1>3, <1>4, TriggerFields
  <1>6. /\ e.state = d.state /\ e.complete = d.complete /\ e.action = d.action
        /\ e.delay = d.delay /\ e.ref = NoRef /\ "A_PE_START" \in e.acts
        /\ e.acts \cap Stops = {} /\ x.cur = d.cur /\ x.queue = d.queue
        /\ x.acts = d.acts \ {"A_PE_INVOKE"}
    BY <1>2, <1>4, <1>5 DEF Alike, Took, Stops, Stalls
  <1>7. d.queue \in Seq(Msgs) /\ e.queue \in Seq(Msgs) /\ e.queue = y.queue
    BY <1>4, <1>5 DEF Controllers
  <1>8. Grows(d.state, d.queue, e.queue)
    <2>1. CASE d.cur.data = NoData
      BY <1>2, <1>6, <1>7, <2>1, GrowsSame DEF Stalls
    <2>2. CASE d.cur.data # NoData
      <3>1. ~Stopping(m) /\ m.input # "I_TE_SUCCESS" /\ Appended(d.queue, m, e.queue)
        BY <1>2, <1>6, <1>7, <2>2 DEF Stopping, Stalls
      <3> QED BY <1>7, <3>1, KeepsAppend
    <2> QED BY <2>1, <2>2
  <1>9. InGraph(e) /\ InPolicy(e) /\ InIdle(e, fresh) /\ StopsKept(e)
    BY <1>6, <1>8, Zenon
       DEF Current, InGraph, InPolicy, InIdle, StopsKept, CalcDue, Grows, Keeps
  <1>10. ASSUME "A_TE_INVOKE" \in d.acts, AllHarmless(d.state, d.queue)
         PROVE  Ahead(d.state, e.queue, {"A_TE_INVOKE"})
    <2>1. d.cur.data # NoData
      BY <1>10, DataTypes DEF Invokes
    <2>2. /\ Appended(d.queue, m, e.queue) /\ m.input # "I_TE_SUCCESS"
          /\ m.acts \cap {"A_TE_INVOKE"} # {}
      BY <1>2, <1>6, <1>7, <1>10, <2>1 DEF Stalls
    <2> QED BY <1>7, <1>10, <2>2, AheadAppend
  <1>11. InEngine(e, fresh)
    BY <1>6, <1>8, <1>10, Zenon DEF Current, InEngine, CalcDue, Grows, Keeps
  <1> QED BY <1>5, <1>6, <1>9, <1>11 DEF Current, e

(* do_pe_invoke with a scheduler *)
LEMMA AskFields ==
  ASSUME NEW d, NEW a, NEW x, Took(d, a, x), x.connected
  PROVE  LET e == DoPeInvoke(x)
         IN  Took(d, a, e) /\ e.connected /\ e.ref \in {x.ref, NoRef}
  <1> DEFINE q == Append(x.asked, "cib")
             y == [x EXCEPT !.asked = q]
             e == DoPeInvoke(x)
  <1>1. x \in Controllers
    BY DEF Took
  <1>2. e = x \/ e = ExpectReply(y, NoRef)
    BY DEF DoPeInvoke
  <1>3. q \in Seq({"cib", "saved"})
    BY <1>1 DEF Controllers
  <1> HIDE DEF q, e
  <1>4. y \in Controllers
    BY <1>1, <1>3, Zenon DEF Controllers
  <1>5. /\ Alike(x, y) /\ y.queue = x.queue
    BY <1>1, Zenon DEF Controllers, Alike
  <1> HIDE DEF y
  <1>6. LET z == ExpectReply(y, NoRef)
        IN  z \in Controllers /\ Alike(y, z) /\ z.ref = NoRef /\ z.queue = y.queue
    BY <1>4, ForgetFields
  <1>7. CASE e = x
    BY <1>7 DEF e
  <1>8. CASE e = ExpectReply(y, NoRef)
    <2>1. e \in Controllers /\ Alike(x, e) /\ e.ref = NoRef /\ e.queue = x.queue
      BY <1>5, <1>6, <1>8, AlikeTrans
    <2> QED BY <2>1, Zenon DEF Took, Alike, e
  <1> QED BY <1>2, <1>7, <1>8

(* A_TE_INVOKE in another state *)
LEMMA NoInvokeCurrent ==
  ASSUME NEW d \in Controllers, Busy(d), d.running, d.acts = {"A_TE_INVOKE"},
         NEW e, Took(d, "A_TE_INVOKE", e), e.connected = d.connected,
         d.state # "S_TRANSITION_ENGINE", NEW fresh, Current(d, fresh)
  PROVE  Current(e, fresh)
  <1>1. d.queue # <<>> => Running(e)
    BY DEF Busy, Running, Took
  <1>2. d.queue = <<>> => AllCovered(d.state, d.queue)
    BY EmptyFlags
  <1>3. e.acts = {} /\ d.acts \cap {"A_PE_INVOKE", "A_TE_CANCEL"} = {}
    BY DEF Took
  <1>4. InIdle(e, fresh) /\ InGraph(e) /\ InEngine(e, fresh)
    BY Zenon DEF Current, InIdle, InGraph, InEngine, Took, CalcDue
  <1>5. InPolicy(e)
    BY <1>1, <1>2, <1>3 DEF Current, InPolicy, Took
  <1>6. StopsKept(e)
    BY <1>3 DEF Current, StopsKept, Took
  <1> QED BY <1>4, <1>5, <1>6 DEF Current

LEMMA UnpackFields ==
  ASSUME NEW d \in Controllers, NEW data \in Data
  PROVE  LET e == UnpackGraph(d, data)
         IN  /\ e \in Controllers /\ ~e.complete /\ e.version = data.version
             /\ e.state = d.state /\ e.acts = d.acts /\ e.queue = d.queue /\ e.cur = d.cur
             /\ e.delay = d.delay /\ e.connected = d.connected /\ e.ref = d.ref
             /\ e.busy = d.busy /\ e.running = d.running /\ e.stalled = d.stalled
  <1>1. "done" \in Completions /\ data.version \in Nat
    BY DEF Completions, Data
  <1>2. UnpackGraph(d, data) \in Controllers
    BY <1>1, Zenon DEF UnpackGraph, Controllers
  <1> QED BY <1>2 DEF UnpackGraph, Controllers

(* A_TE_INVOKE: the graph is the awaited one, and fresh, or it will be      *)
(* replaced.                                                               *)
LEMMA InvokeCurrent ==
  ASSUME NEW d \in Controllers, Busy(d), Invokes(d), d.acts = {"A_TE_INVOKE"},
         NEW x, Took(d, "A_TE_INVOKE", x), x.connected = d.connected, x.ref = d.ref,
         d.state = "S_TRANSITION_ENGINE",
         NEW s, NEW c, NEW p, Current(d, Fresh(d.version, c, p)), Tracked(d, s, c, p)
  PROVE  LET e == DoTeInvoke(x)
         IN  /\ Current(e, Fresh(e.version, c, p)) /\ Tracked(e, s, c, p)
             /\ e \in Controllers
  <1> DEFINE e == DoTeInvoke(x)
             y == AbortTransition(x, "restart")
             g == x.cur.data
  <1>1. /\ x \in Controllers /\ "restart" \in Completions /\ x.state = d.state
        /\ x.cur = d.cur /\ x.queue = d.queue /\ x.complete = d.complete
        /\ x.delay = d.delay /\ x.acts = {} /\ x.version = d.version
    BY DEF Took, Completions
  <1>2. g.kind = "graph" /\ g \in Data
    BY <1>1 DEF Invokes, Controllers, Msgs
  <1>3. e = IF ~x.complete THEN y
            ELSE IF x.ref # NoRef /\ x.ref = g.ref
                 THEN IF x.delay THEN x ELSE UnpackGraph(x, g)
                 ELSE IF y.delay THEN y ELSE UnpackGraph(y, g)
    BY <1>1, <1>2 DEF DoTeInvoke
  <1>4. StopsKept(x)
    BY <1>1 DEF Current, StopsKept
  <1>5. /\ Aborts(x, y) /\ Grows(x.state, x.queue, y.queue)
        /\ ~x.complete => /\ y.queue = x.queue /\ y.delay = x.delay
                          /\ y.action = "restart"
    BY <1>1, AbortFields
  <1>6. x.complete => Due(y) /\ StopsKept(y)
    BY <1>1, <1>4, AbortCurrent
  <1>7. Tracked(y, s, c, p)
    BY <1>5, ForgottenTracked DEF Aborts
  <1> HIDE DEF e, y, g
  <1>8. CASE ~x.complete
    <2>1. InIdle(y, Fresh(y.version, c, p)) /\ InEngine(y, Fresh(y.version, c, p))
      BY <1>1, <1>5, <1>8 DEF Aborts, InIdle, InEngine
    <2>2. InPolicy(y) /\ InGraph(y) /\ StopsKept(y)
      BY <1>1, <1>4, <1>5, <1>8 DEF Aborts, Current, InPolicy, InGraph, StopsKept
    <2> QED BY <1>3, <1>5, <1>7, <1>8, <2>1, <2>2 DEF Current, Aborts, e
  <1>9. CASE x.complete /\ ~(x.ref # NoRef /\ x.ref = g.ref)
    <2>1. Due(y) /\ StopsKept(y) /\ y \in Controllers /\ y.ref = NoRef
      BY <1>5, <1>6, <1>9 DEF Aborts
    <2>2. CASE y.delay
      BY <1>3, <1>7, <1>9, <2>1, <2>2, DueCurrent DEF e
    <2>3. CASE ~y.delay
      <3>1. e = UnpackGraph(y, g)
        BY <1>3, <1>9, <2>3
      <3>2. /\ e \in Controllers /\ e.state = y.state /\ e.acts = y.acts
            /\ e.queue = y.queue /\ e.cur = y.cur /\ e.delay = y.delay /\ e.ref = y.ref
            /\ e.busy = y.busy /\ e.stalled = y.stalled
        BY <1>2, <2>1, <3>1, UnpackFields
      <3>3. Due(e) /\ StopsKept(e)
        BY <2>1, <3>2 DEF Due, StopsKept, Busy
      <3> QED BY <2>1, <3>2, <3>3, DueCurrent, ForgottenTracked DEF e
    <2> QED BY <2>2, <2>3
  <1>10. CASE x.complete /\ x.ref # NoRef /\ x.ref = g.ref
    <2>1. Carried(d) /\ d.ref # NoRef
      BY <1>1, <1>10 DEF Carried, g
    <2>2. /\ d.connected /\ Single(s, d.queue, d.ref) /\ Last(d.queue, d.ref)
          /\ ~Awaited(s, d.queue, d.ref) /\ Ends(d.queue) = {}
          /\ AllFresh(s, d.queue, d.ref, c, p) /\ Fresh(g.version, c, p)
      BY <1>1, <2>1 DEF Tracked, Working, g
    <2>3. ASSUME NEW z, z.ref = d.ref, z.queue = d.queue, z.connected = d.connected,
                 z.acts = {}
          PROVE  Tracked(z, s, c, p)
      BY <2>2, <2>3 DEF Tracked, Busy, Carried
    <2>4. CASE x.delay
      <3>1. Current(x, Fresh(x.version, c, p))
        BY <1>4, <2>4, DueCurrent DEF Due
      <3> QED BY <1>1, <1>3, <1>10, <2>3, <2>4, <3>1 DEF e
    <2>5. CASE ~x.delay
      <3>1. e = UnpackGraph(x, g)
        BY <1>3, <1>10, <2>5
      <3>2. /\ e \in Controllers /\ e.state = x.state /\ e.acts = x.acts
            /\ e.queue = x.queue /\ e.cur = x.cur /\ e.connected = x.connected
            /\ e.ref = x.ref /\ e.version = g.version
        BY <1>1, <1>2, <3>1, UnpackFields
      <3>3. AllCovered(e.state, e.queue)
        BY <1>1, <2>2, <3>2 DEF AllCovered
      <3>4. Current(e, Fresh(e.version, c, p))
        <4>1. InIdle(e, Fresh(e.version, c, p)) /\ InEngine(e, Fresh(e.version, c, p))
          BY <1>1, <2>2, <3>2, Zenon DEF InIdle, InEngine
        <4>2. InPolicy(e) /\ InGraph(e) /\ StopsKept(e)
          BY <1>1, <1>4, <3>2, <3>3, Zenon DEF InPolicy, InGraph, StopsKept
        <4> QED BY <4>1, <4>2 DEF Current
      <3>5. Tracked(e, s, c, p)
        BY <1>1, <2>3, <3>2, Zenon
      <3> QED BY <3>2, <3>4, <3>5 DEF e
    <2> QED BY <2>4, <2>5
  <1> QED BY <1>8, <1>9, <1>10

-----------------------------------------------------------------------------
(* Only do_te_invoke replaces the graph. *)

LEMMA ErrorVersion ==
  ASSUME NEW d \in Controllers, NEW input \in Inputs
  PROVE  FsaError(d, input).version = d.version
  <1>1. Alike([d EXCEPT !.acts = {}], FsaError(d, input))
    BY ErrorFields
  <1> QED BY <1>1 DEF Alike, Controllers

LEMMA AbortVersion ==
  ASSUME NEW d \in Controllers, NEW action \in Completions
  PROVE  AbortTransition(d, action).version = d.version
  <1> DEFINE x == ExpectReply(d, NoRef)
             y == FsaAppend(x, "I_PE_CALC", NoData)
  <1>1. x \in Controllers /\ x.version = d.version
    BY ForgetFields DEF Alike
  <1>2. AbortTransition(d, action)
          = IF ~d.complete
            THEN [x EXCEPT !.action = IF @ = "restart" THEN @ ELSE action]
            ELSE IF d.delayed THEN [x EXCEPT !.delay = TRUE] ELSE y
    BY DEF AbortTransition
  <1> HIDE DEF x
  <1>3. y.version = x.version
    BY <1>1, CalcDueNow DEF Mild, Alike
  <1> HIDE DEF y
  <1> QED BY <1>1, <1>2, <1>3 DEF Controllers

LEMMA StopVersion ==
  ASSUME NEW d \in Controllers, NEW a \in Actions, NEW t \in Completions
  PROVE  DoTeStop(d, a, t).version = d.version
  <1> DEFINE y == AbortTransition(d, t)
  <1>1. y \in Controllers /\ y.version = d.version
    BY AbortFields, AbortVersion DEF Aborts
  <1>2. DoTeStop(d, a, t) = IF y.complete THEN y ELSE FsaStall(y, a)
    BY DEF DoTeStop
  <1> HIDE DEF y
  <1>3. FsaStall(y, a).version = y.version
    BY <1>1, StallFields DEF Stalls
  <1> QED BY <1>1, <1>2, <1>3

LEMMA AskVersion ==
  ASSUME NEW d \in Controllers
  PROVE  DoPeInvoke(d).version = d.version
  <1> DEFINE y == FsaStall(d, "A_PE_INVOKE")
             q == Append(d.asked, "cib")
  <1>1. y \in Controllers /\ y.version = d.version
    BY StallFields DEF Stalls, Actions
  <1>2. \/ DoPeInvoke(d) = SetTrigger([y EXCEPT !.acts = @ \cup {"A_PE_START"}])
        \/ DoPeInvoke(d) = d
        \/ DoPeInvoke(d) = ExpectReply([d EXCEPT !.asked = q], NoRef)
    BY DEF DoPeInvoke
  <1> HIDE DEF y, q
  <1> QED BY <1>1, <1>2, Zenon DEF SetTrigger, ExpectReply, Controllers

-----------------------------------------------------------------------------
(* The inductive invariant *)

(* An answer of the CIB manager is overtaken by no change. *)
PipeFresh ==
  \A i \in DOMAIN pipe :
    pipe[i].type = "cib" =>
      pipe[i].version = cib \/ \E j \in DOMAIN pipe : j > i /\ pipe[j].type = "diff"

Idle ==
  /\ Current(dc, Fresh(dc.version, cib, DiffComing(pipe)))
  /\ Tracked(dc, sched, cib, DiffComing(pipe))
  /\ ~dc.busy => dc.cur = NoMsg
  /\ PipeFresh

LEMMA IdleInit == Init => Idle
  <1> SUFFICES ASSUME Init PROVE Idle
    OBVIOUS
  <1>1. /\ dc.state = "S_IDLE" /\ dc.queue = <<>> /\ dc.acts = {} /\ dc.complete
        /\ dc.version = cib /\ dc.ref = NoRef /\ dc.cur = NoMsg /\ pipe = <<>>
    BY DEF Init
  <1>2. Current(dc, Fresh(dc.version, cib, DiffComing(pipe)))
    BY <1>1, EmptyFlags, Zenon
       DEF Current, InIdle, InEngine, InPolicy, InGraph, StopsKept, Fresh
  <1>3. Tracked(dc, sched, cib, DiffComing(pipe))
    BY <1>1, ForgottenTracked
  <1>4. PipeFresh
    BY <1>1 DEF PipeFresh
  <1> QED BY <1>1, <1>2, <1>3, <1>4 DEF Idle

LEMMA SettledIdle ==
  ASSUME Idle, NEW e \in Controllers, dc' = Settle(e),
         Current(e, Fresh(e.version, cib, DiffComing(pipe))),
         Tracked(e, sched, cib, DiffComing(pipe)), UNCHANGED <<cib, pipe, sched>>
  PROVE  Idle'
  <1>1. /\ Settle(e).version = e.version
        /\ Settle(e).cur = NoMsg \/ (Settle(e) = e /\ Busy(e))
    BY SettleFields, Zenon
  <1>2. ~Settle(e).busy => Settle(e).cur = NoMsg
    BY <1>1 DEF Busy
  <1>3. /\ Current(Settle(e), Fresh(e.version, cib, DiffComing(pipe)))
        /\ Tracked(Settle(e), sched, cib, DiffComing(pipe))
    BY SettleCurrent, SettleTracked
  <1> QED BY <1>1, <1>2, <1>3 DEF Idle, PipeFresh

LEMMA FsaActionIdle ==
  ASSUME Shape, Idle, FsaAction
  PROVE  Idle'
  <1> DEFINE a == First(dc.acts)
             x == [dc EXCEPT !.acts = @ \ {a}]
             b == [x EXCEPT !.connected = TRUE]
             p == DiffComing(pipe)
             f == Fresh(dc.version, cib, p)
  <1>1. /\ dc \in Controllers /\ dc.running /\ dc.busy /\ Busy(dc) /\ Invokes(dc)
        /\ dc.acts \in SUBSET Actions /\ dc.acts # {}
        /\ UNCHANGED <<cib, pipe, sched>>
    BY DEF Shape, Good, Stable, FsaAction, Busy, Controllers
  <1>2. Current(dc, f) /\ Tracked(dc, sched, cib, p)
    BY DEF Idle
  <1>3. Took(dc, a, x) /\ x.connected = dc.connected /\ x.ref = dc.ref
    BY <1>1, TakeFields
  <1>4. /\ a \in dc.acts
        /\ a = "A_PE_INVOKE" => dc.acts \cap Stops = {} /\ "A_PE_START" \notin dc.acts
        /\ a = "A_TE_INVOKE" => dc.acts = {"A_TE_INVOKE"}
    BY <1>1, FirstIs
  <1>5. \/ a = "A_PE_START" /\ dc' = Settle(b)
        \/ a = "A_TE_HALT" /\ dc' = Settle(DoTeStop(x, a, "wait"))
        \/ a = "A_TE_CANCEL" /\ dc' = Settle(DoTeStop(x, a, "restart"))
        \/ a = "A_PE_INVOKE" /\ dc' = Settle(DoPeInvoke(x))
        \/ a = "A_TE_INVOKE" /\ dc' = Settle(DoTeInvoke(x))
        \/ a = "A_PE_START" /\ ~dc.connected /\ dc' = Settle(FsaError(x, "I_FAIL"))
    BY DEF FsaAction
  <1> HIDE DEF a, x, p, f
  <1>6. ASSUME NEW e \in Controllers, dc' = Settle(e), Tracked(e, sched, cib, p),
               Current(e, f), e.version = dc.version
        PROVE  Idle'
    BY <1>1, <1>6, SettledIdle DEF p, f
  <1>7. CASE a = "A_PE_START" /\ dc' = Settle(b)
    <2>1. Took(dc, a, b) /\ b.connected /\ b.ref = dc.ref
      <3>1. b \in Controllers
        BY <1>3, Zenon DEF Took, Controllers
      <3> QED BY <1>3, <3>1, Zenon DEF Took, Controllers
    <2> HIDE DEF b
    <2>2. Current(b, f)
      BY <1>1, <1>2, <1>7, <2>1, TakeConnected DEF Stops
    <2>3. Tracked(b, sched, cib, p)
      BY <1>1, <1>2, <1>7, <2>1, TakeTracked
    <2> QED BY <1>6, <1>7, <2>1, <2>2, <2>3 DEF Took
  <1>8. ASSUME NEW t \in Completions, a \in Stops, dc' = Settle(DoTeStop(x, a, t))
        PROVE  Idle'
    <2> DEFINE e == DoTeStop(x, a, t)
    <2>1. Current(e, f) /\ e \in Controllers /\ e.ref = NoRef
      BY <1>1, <1>2, <1>3, <1>4, <1>8, StopCurrent
    <2>2. e.version = dc.version
      BY <1>3, <1>8, StopVersion DEF Took, Stops, Actions
    <2> HIDE DEF e
    <2>3. Tracked(e, sched, cib, p)
      BY <2>1, ForgottenTracked
    <2> QED BY <1>6, <1>8, <2>1, <2>2, <2>3 DEF e
  <1>9. CASE a = "A_PE_INVOKE" /\ dc' = Settle(DoPeInvoke(x))
    <2> DEFINE e == DoPeInvoke(x)
    <2>1. CASE dc.connected
      <3>1. Took(dc, a, e) /\ e.connected /\ e.ref \in {x.ref, NoRef}
        BY <1>3, <2>1, AskFields, Zenon
      <3> HIDE DEF e
      <3>2. Current(e, f)
        BY <1>1, <1>2, <1>9, <3>1, TakeConnected DEF Stops
      <3>3. Tracked(e, sched, cib, p)
        <4>1. CASE e.ref = NoRef
          BY <4>1, ForgottenTracked
        <4>2. CASE e.ref = dc.ref
          BY <1>1, <1>2, <1>9, <3>1, <4>2, TakeTracked
        <4> QED BY <1>3, <3>1, <4>1, <4>2
      <3> QED BY <1>6, <1>9, <3>1, <3>2, <3>3 DEF Took, e
    <2>2. CASE ~dc.connected
      <3>1. dc.ref = NoRef
        BY <1>2, <2>2 DEF Tracked
      <3>2. Current(e, f) /\ e \in Controllers /\ e.ref = NoRef
        BY <1>1, <1>2, <1>3, <1>4, <1>9, <2>2, <3>1, WaitCurrent
      <3>3. e.version = dc.version
        BY <1>3, AskVersion DEF Took
      <3> HIDE DEF e
      <3>4. Tracked(e, sched, cib, p)
        BY <3>2, ForgottenTracked
      <3> QED BY <1>6, <1>9, <3>2, <3>3, <3>4 DEF e
    <2> QED BY <2>1, <2>2
  <1>10. CASE a = "A_TE_INVOKE" /\ dc' = Settle(DoTeInvoke(x))
    <2>1. CASE dc.state # "S_TRANSITION_ENGINE"
      <3>1. DoTeInvoke(x) = x
        BY <1>3, <2>1 DEF DoTeInvoke, Took
      <3>2. Current(x, f)
        BY <1>1, <1>2, <1>3, <1>4, <1>10, <2>1, NoInvokeCurrent
      <3>3. Tracked(x, sched, cib, p)
        BY <1>1, <1>2, <1>3, <1>10, <2>1, TakeTracked
      <3> QED BY <1>3, <1>6, <1>10, <3>1, <3>2, <3>3 DEF Took
    <2>2. CASE dc.state = "S_TRANSITION_ENGINE"
      <3> DEFINE e == DoTeInvoke(x)
      <3>1. Current(e, Fresh(e.version, cib, p)) /\ Tracked(e, sched, cib, p) /\ e \in Controllers
        BY <1>1, <1>2, <1>3, <1>4, <1>10, <2>2, InvokeCurrent DEF f
      <3> HIDE DEF e
      <3> QED BY <1>1, <1>10, <3>1, SettledIdle DEF p, e
    <2> QED BY <2>1, <2>2
  <1>11. CASE a = "A_PE_START" /\ ~dc.connected /\ dc' = Settle(FsaError(x, "I_FAIL"))
    <2> DEFINE e == FsaError(x, "I_FAIL")
    <2>1. dc.ref = NoRef /\ "I_FAIL" \in Inputs /\ "I_FAIL" \in Exits /\ x \in Controllers
      BY <1>2, <1>3, <1>11, InputSet DEF Tracked, Exits, Took
    <2>2. InIdle(x, f) /\ InGraph(x) /\ StopsKept(x)
      <3>1. x.acts \cap Stops # {} => dc.acts \cap Stops # {} /\ Busy(x)
        BY <1>1, <1>3 DEF Took, Busy
      <3> QED BY <1>2, <1>3, <3>1, Zenon
              DEF Current, InIdle, InGraph, StopsKept, Took, CalcDue
    <2>3. Current(e, f)
      BY <2>1, <2>2, ErrorCurrent
    <2>4. e \in Controllers /\ e.ref = NoRef
      BY <1>3, <2>1, ErrorFields, Zenon
    <2>5. e.version = dc.version
      BY <1>3, <2>1, ErrorVersion DEF Took
    <2> HIDE DEF e
    <2>6. Tracked(e, sched, cib, p)
      BY <2>4, ForgottenTracked
    <2> QED BY <1>6, <1>11, <2>3, <2>4, <2>5, <2>6 DEF e
  <1>12. "wait" \in Completions /\ "restart" \in Completions
    BY DEF Completions
  <1> QED BY <1>5, <1>7, <1>8, <1>9, <1>10, <1>11, <1>12 DEF Stops

-----------------------------------------------------------------------------
(* A message is handled *)

(* What the tables say about an input in a state: the next state, and new  *)
(* actions.                                                                *)
Table(i, st, n, a) ==
  /\ i \in Barriers => n # "S_TRANSITION_ENGINE"
  /\ n = "S_IDLE" => \/ st = "S_IDLE" /\ i # "I_PE_CALC"
                     \/ st = "S_TRANSITION_ENGINE" /\ i = "I_TE_SUCCESS"
  /\ n = "S_TRANSITION_ENGINE" =>
       \/ /\ st = "S_TRANSITION_ENGINE" /\ i \notin Barriers /\ i # "I_TE_SUCCESS"
          /\ a = {}
       \/ st = "S_POLICY_ENGINE" /\ i = "I_PE_SUCCESS" /\ a = {"A_TE_INVOKE"}
  /\ n = "S_POLICY_ENGINE" =>
       \/ a \cap {"A_PE_INVOKE", "A_TE_CANCEL"} # {}
       \/ st = "S_POLICY_ENGINE" /\ i \notin Exits /\ i # "I_PE_SUCCESS"
  /\ n \in Working /\ st \notin Working => "A_TE_CANCEL" \in a

LEMMA TableHolds ==
  ASSUME NEW i \in Inputs, NEW st \in States
  PROVE  Table(i, st, NextState[i][st], NewActions[i][st])
  <1>1. /\ \A from, to : Goes(from, to)[st] = IF st \in from THEN to ELSE st
        /\ \A from, acts : Does(from, acts)[st] = IF st \in from THEN acts ELSE {}
    BY DEF Goes, Does
  <1>2. Nothing[st] = {}
    BY DEF Nothing, Does
  <1>3. CASE i \in {"I_NULL", "I_WAIT_FOR_EVENT"}
    <2>1. NextState[i] = Goes({}, "S_IDLE") /\ NewActions[i] = Nothing
      BY <1>3 DEF NextState, NewActions
    <2>2. NextState[i][st] = st /\ NewActions[i][st] = {}
      BY <1>1, <1>2, <2>1
    <2> QED BY <1>3, <2>2 DEF Table, Barriers, Exits, Working
  <1>4. CASE i = "I_PE_CALC"
    <2>1. /\ NextState[i] = Goes(Working, "S_POLICY_ENGINE")
          /\ NewActions[i] = Does(Working, {"A_PE_INVOKE"})
      BY <1>4 DEF NextState, NewActions
    <2> QED BY <1>1, <1>2, <1>4, <2>1 DEF Table, Barriers, Exits, Working, Joining, States
  <1>5. CASE i = "I_PE_SUCCESS"
    <2>1. /\ NextState[i] = Goes({"S_POLICY_ENGINE"}, "S_TRANSITION_ENGINE")
          /\ NewActions[i] = Does({"S_POLICY_ENGINE"}, {"A_TE_INVOKE"})
      BY <1>5 DEF NextState, NewActions
    <2> QED BY <1>1, <1>2, <1>5, <2>1 DEF Table, Barriers, Exits, Working, Joining, States
  <1>6. CASE i = "I_TE_SUCCESS"
    <2>1. /\ NextState[i] = Goes({"S_TRANSITION_ENGINE"}, "S_IDLE")
          /\ NewActions[i] = Nothing
      BY <1>6 DEF NextState, NewActions
    <2> QED BY <1>1, <1>2, <1>6, <2>1 DEF Table, Barriers, Exits, Working, Joining, States
  <1>7. CASE i = "I_NODE_JOIN"
    <2>1. /\ NextState[i] = Goes(Working \cup Joining, "S_INTEGRATION")
          /\ NewActions[i] = Does({"S_IDLE", "S_TRANSITION_ENGINE"}, {"A_TE_HALT"})
      BY <1>7 DEF NextState, NewActions
    <2> QED BY <1>1, <1>2, <1>7, <2>1 DEF Table, Barriers, Exits, Working, Joining, States
  <1>8. CASE i = "I_INTEGRATED"
    <2>1. /\ NextState[i] = Goes({"S_INTEGRATION"}, "S_FINALIZE_JOIN")
          /\ NewActions[i] = Nothing
      BY <1>8 DEF NextState, NewActions
    <2> QED BY <1>1, <1>2, <1>8, <2>1 DEF Table, Barriers, Exits, Working, Joining, States
  <1>9. CASE i = "I_FINALIZED"
    <2>1. /\ NextState[i] = Goes({"S_FINALIZE_JOIN"}, "S_POLICY_ENGINE")
          /\ NewActions[i] = Does({"S_FINALIZE_JOIN"}, {"A_TE_CANCEL"})
      BY <1>9 DEF NextState, NewActions
    <2> QED BY <1>1, <1>2, <1>9, <2>1 DEF Table, Barriers, Exits, Working, Joining, States
  <1>10. CASE i = "I_ELECTION"
    <2>1. /\ NextState[i] = Goes(Working \cup Joining, "S_ELECTION")
          /\ NewActions[i] = Nothing
      BY <1>10 DEF NextState, NewActions
    <2> QED BY <1>1, <1>2, <1>10, <2>1 DEF Table, Barriers, Exits, Working, Joining, States
  <1>11. CASE i = "I_ELECTION_DC"
    <2>1. /\ NextState[i] = Goes(States \ {"S_RECOVERY"}, "S_INTEGRATION")
          /\ NewActions[i] = Does({"S_ELECTION"}, {"A_PE_START"})
      BY <1>11 DEF NextState, NewActions
    <2> QED BY <1>1, <1>2, <1>11, <2>1 DEF Table, Barriers, Exits, Working, Joining, States
  <1>12. CASE i = "I_ERROR"
    <2>1. /\ NextState[i] = Goes(States, "S_RECOVERY")
          /\ NewActions[i] = Nothing
      BY <1>12 DEF NextState, NewActions
    <2> QED BY <1>1, <1>2, <1>12, <2>1 DEF Table, Barriers, Exits, Working, Joining, States
  <1>13. CASE i = "I_FAIL"
    <2> DEFINE g == Goes(Joining \cup {"S_POLICY_ENGINE"}, "S_INTEGRATION")
               d == Does({"S_POLICY_ENGINE"}, {"A_TE_CANCEL"})
    <2>1. DOMAIN g = States /\ DOMAIN d = States
      BY DEF Goes, Does
    <2>2. /\ NextState[i] = [g EXCEPT !["S_IDLE"] = "S_RECOVERY",
                                      !["S_ELECTION"] = "S_RECOVERY",
                                      !["S_TRANSITION_ENGINE"] = "S_POLICY_ENGINE"]
          /\ NewActions[i] = [d EXCEPT !["S_TRANSITION_ENGINE"] =
                                         {"A_PE_INVOKE", "A_TE_CANCEL"}]
      BY <1>13 DEF NextState, NewActions
    <2>3. /\ g[st] = IF st \in Joining \cup {"S_POLICY_ENGINE"} THEN "S_INTEGRATION" ELSE st
          /\ d[st] = IF st = "S_POLICY_ENGINE" THEN {"A_TE_CANCEL"} ELSE {}
      BY <1>1
    <2> HIDE DEF g, d
    <2>4. NextState[i][st] = IF st \in {"S_IDLE", "S_ELECTION"} THEN "S_RECOVERY"
                             ELSE IF st = "S_TRANSITION_ENGINE" THEN "S_POLICY_ENGINE"
                             ELSE g[st]
      BY <2>1, <2>2
    <2>5. NewActions[i][st] = IF st = "S_TRANSITION_ENGINE"
                              THEN {"A_PE_INVOKE", "A_TE_CANCEL"} ELSE d[st]
      BY <2>1, <2>2
    <2> QED BY <1>13, <2>3, <2>4, <2>5 DEF Table, Barriers, Exits, Working, Joining, States
  <1> QED BY <1>3, <1>4, <1>5, <1>6, <1>7, <1>8, <1>9, <1>10, <1>11, <1>12, <1>13, InputSet

(* e is d after a message m was taken from the queue, with new actions a. *)
Handles(d, m, a, e) ==
  /\ e \in Controllers /\ Prepended(e.queue, m, d.queue) /\ e.cur = m
  /\ e.acts = d.acts \cup m.acts \cup a /\ e.busy /\ e.running /\ ~e.stalled
  /\ e.complete = d.complete /\ e.action = d.action /\ e.version = d.version
  /\ e.delay = d.delay /\ e.connected = d.connected /\ e.ref = d.ref

LEMMA HandleCurrent ==
  ASSUME NEW d \in Controllers, ~d.busy, NEW m, Kept(m), NEW a, NEW e, Handles(d, m, a, e),
         Table(m.input, d.state, e.state, a), NEW fresh, Current(d, fresh)
  PROVE  Current(e, fresh)
  <1> DEFINE st == d.state
             n == e.state
             q == d.queue
             r == e.queue
             TE == "S_TRANSITION_ENGINE"
  <1>1. q \in Seq(Msgs) /\ r \in Seq(Msgs) /\ Prepended(r, m, q)
    BY DEF Handles, Controllers
  <1>2. /\ m.input \in Barriers => n # TE
        /\ st # TE /\ m.input # "I_PE_SUCCESS" => n # TE
    BY DEF Table
  <1> HIDE DEF st, n, q, r
  <1>3. /\ CalcAfter(q, 0) => m.input = "I_PE_CALC" \/ CalcAfter(r, 0)
        /\ LeavesEngine(q) => \/ m.input \in Barriers
                              \/ (m.input # "I_TE_SUCCESS" /\ LeavesEngine(r))
        /\ LeavesPolicy(q) => \/ m.input \in Exits
                              \/ (m.input # "I_PE_SUCCESS" /\ LeavesPolicy(r))
        /\ AllHarmless(st, q) => AllHarmless(n, r)
        /\ AllCovered(st, q) => AllCovered(n, r)
        /\ StopsHarmless(st, q) => StopsHarmless(n, r)
        /\ \A acts : Ahead(st, q, acts) => m.acts \cap acts # {} \/ Ahead(n, r, acts)
        /\ AllCovered(st, q) /\ m.input = "I_TE_SUCCESS" /\ st = TE => CalcAfter(r, 0)
        /\ StopsHarmless(st, q) /\ st = TE => ~Stopping(m)
        /\ \A acts : Ahead(st, q, acts) /\ st = TE => m.input # "I_TE_SUCCESS"
    BY <1>1, <1>2, QueueHandled, Zenon
  <1>4. /\ ~Busy(d) /\ (e.acts # {} => Busy(e)) /\ (r # <<>> => Running(e))
        /\ e.delay = d.delay /\ e.complete = d.complete /\ e.action = d.action
        /\ e.connected = d.connected /\ e.acts = d.acts \cup m.acts \cup a
        /\ d.acts \subseteq e.acts /\ m.acts \subseteq e.acts /\ a \subseteq e.acts
        /\ e.cur = m
    BY DEF Handles, Busy, Running, r
  <1>5. /\ r = <<>> => AllCovered(n, r) /\ \A acts : ~Ahead(n, r, acts)
        /\ AllCovered(st, q) => AllHarmless(st, q) \/ CalcAfter(q, 0)
    BY <1>1, EmptyFlags, CoveredSplit
  <1>6. /\ InIdle(d, fresh) /\ InEngine(d, fresh) /\ InPolicy(d) /\ InGraph(d)
        /\ StopsKept(d)
    BY DEF Current
  <1>7. InGraph(e)
    BY <1>3, <1>4, <1>6, Zenon DEF InGraph, st, n, q, r
  <1>8. InIdle(e, fresh)
    <2>1. CASE st = "S_IDLE" /\ m.input # "I_PE_CALC"
      BY <1>3, <1>4, <1>6, <2>1, Zenon DEF InIdle, CalcDue, st, q, r
    <2>2. CASE st = TE /\ m.input = "I_TE_SUCCESS"
      <3>1. m.input # "I_PE_CALC" /\ m.input \notin Barriers
        BY <2>2 DEF Barriers, Exits
      <3>2. ~Ahead(st, q, Stops) /\ ~Ahead(st, q, {"A_TE_INVOKE"}) /\ ~LeavesEngine(q)
        BY <1>3, <2>2, <3>1, Zenon
      <3>3. \/ fresh \/ d.delay \/ CalcAfter(q, 0)
            \/ ~d.complete /\ d.action = "restart"
        BY <1>4, <1>6, <2>2, <3>2, Zenon DEF InEngine, CalcDue, st, q
      <3>4. ~d.complete => d.delay \/ CalcAfter(r, 0)
        BY <1>3, <1>6, <2>2, Zenon DEF InGraph, st, q
      <3> QED BY <1>3, <1>4, <3>1, <3>3, <3>4, Zenon DEF InIdle, CalcDue, r
    <2> QED BY <2>1, <2>2 DEF Table, InIdle, st
  <1>9. InEngine(e, fresh)
    <2>1. CASE st = TE /\ m.input \notin Barriers /\ m.input # "I_TE_SUCCESS"
      <3>1. /\ CalcAfter(q, 0) => CalcAfter(r, 0)
            /\ LeavesEngine(q) => LeavesEngine(r)
        BY <1>3, <2>1 DEF Barriers
      <3>2. \/ fresh \/ d.delay \/ CalcAfter(r, 0) \/ LeavesEngine(r)
            \/ ~d.complete /\ d.action = "restart"
            \/ Ahead(st, q, Stops)
            \/ /\ Ahead(st, q, {"A_TE_INVOKE"})
               /\ "A_PE_START" \in d.acts \/ d.connected
        BY <1>4, <1>6, <2>1, <3>1, Zenon DEF InEngine, CalcDue, st, q
      <3>3. Ahead(st, q, Stops) => (Busy(e) /\ e.acts \cap Stops # {}) \/ Ahead(n, r, Stops)
        BY <1>3, <1>4
      <3>4. Ahead(st, q, {"A_TE_INVOKE"}) =>
              \/ Busy(e) /\ "A_TE_INVOKE" \in e.acts
              \/ Ahead(n, r, {"A_TE_INVOKE"}) /\ Running(e)
        BY <1>3, <1>4, <1>5
      <3>5. "A_PE_START" \in d.acts \/ d.connected => "A_PE_START" \in e.acts \/ e.connected
        BY <1>4
      <3> QED BY <1>4, <3>2, <3>3, <3>4, <3>5, Zenon DEF InEngine, CalcDue, n, r
    <2>2. CASE st = "S_POLICY_ENGINE" /\ m.input = "I_PE_SUCCESS" /\ a = {"A_TE_INVOKE"}
      <3>1. Busy(e) /\ "A_TE_INVOKE" \in e.acts
        BY <1>4, <2>2
      <3>2. m.input # "I_PE_CALC" /\ m.input \notin Exits
        BY <2>2 DEF Exits
      <3>3. \/ d.delay \/ "A_PE_START" \in e.acts \/ e.connected
            \/ AllCovered(st, q)
        BY <1>3, <1>4, <1>6, <2>2, <3>2, Zenon DEF InPolicy, st, q
      <3>4. AllCovered(st, q) => AllHarmless(n, r) \/ CalcAfter(r, 0)
        BY <1>3, <1>5, <3>2, Zenon
      <3> QED BY <1>4, <3>1, <3>3, <3>4, Zenon DEF InEngine, CalcDue, n, r
    <2> QED BY <2>1, <2>2, Zenon DEF Table, InEngine, st
  <1>10. InPolicy(e)
    <2>1. CASE a \cap {"A_PE_INVOKE", "A_TE_CANCEL"} # {}
      <3>1. e.acts \cap {"A_PE_INVOKE", "A_TE_CANCEL"} # {} /\ Busy(e)
        BY <1>4, <2>1
      <3> QED BY <3>1 DEF InPolicy
    <2>2. CASE st = "S_POLICY_ENGINE" /\ m.input \notin Exits /\ m.input # "I_PE_SUCCESS"
      <3>1. \/ d.delay \/ "A_PE_START" \in d.acts \/ d.connected
            \/ LeavesPolicy(q) \/ AllCovered(st, q)
        BY <1>4, <1>6, <2>2, Zenon DEF InPolicy, st, q
      <3> QED BY <1>3, <1>4, <1>5, <2>2, <3>1, Zenon DEF InPolicy, n, r
    <2> QED BY <2>1, <2>2, Zenon DEF Table, InPolicy, st
  <1>11. StopsKept(e)
    <2>1. StopsHarmless(n, r)
      BY <1>3, <1>6, Zenon DEF StopsKept, st, q
    <2>2. ASSUME n = TE, e.acts \cap Stops # {} PROVE Busy(e) /\ m.data # NoData
      <3>1. Busy(e)
        BY <1>4, <2>2
      <3>2. CASE st = TE /\ a = {}
        <4>1. d.acts \cap Stops = {}
          BY <1>4, <1>6, <3>2 DEF StopsKept, st
        <4>2. m.acts \cap Stops # {}
          BY <1>4, <2>2, <3>2, <4>1
        <4> QED BY <1>3, <1>6, <3>1, <3>2, <4>2, Zenon DEF Stopping, StopsKept, st, q
      <3>3. CASE m.input = "I_PE_SUCCESS"
        BY <3>1, <3>3, DataTypes DEF Kept
      <3> QED BY <2>2, <3>2, <3>3 DEF Table, st, n
    <2> QED BY <1>4, <2>1, <2>2 DEF StopsKept, n, r
  <1> QED BY <1>7, <1>8, <1>9, <1>10, <1>11 DEF Current

LEMMA HandleTracked ==
  ASSUME NEW d \in Controllers, ~d.busy, NEW m, NEW a, NEW e, Handles(d, m, a, e),
         Table(m.input, d.state, e.state, a),
         NEW s, NEW c, NEW p, Tracked(d, s, c, p)
  PROVE  Tracked(e, s, c, p)
  <1> SUFFICES ASSUME e.ref # NoRef PROVE Tracked(e, s, c, p)
    BY ForgottenTracked
  <1> DEFINE q == d.queue
             r == e.queue
             ref == d.ref
  <1>1. q \in Seq(Msgs) /\ r \in Seq(Msgs) /\ Prepended(r, m, q)
    BY DEF Handles, Controllers
  <1>2. /\ ~Busy(d) /\ ~Carried(d) /\ (e.acts # {} => Busy(e)) /\ e.ref = ref
        /\ e.connected = d.connected /\ a \subseteq e.acts /\ e.cur = m
    BY DEF Handles, Busy, Carried
  <1>3. /\ d.connected /\ Single(s, q, ref) /\ Last(q, ref)
        /\ d.state # "S_TRANSITION_ENGINE" \/ ~Awaited(s, q, ref)
        /\ d.state \in Working => AllFresh(s, q, ref, c, p)
    BY <1>2, Zenon DEF Tracked
  <1> HIDE DEF q, r, ref
  <1>4. /\ Tracks(s, q, r, ref)
        /\ m.data.ref = ref => Awaited(s, q, ref)
        /\ m.data.ref = ref /\ Single(s, q, ref) => ~Awaited(s, r, ref)
        /\ m.data.ref = ref /\ Last(q, ref) => Ends(r) = {}
        /\ \A cc, pp : m.data.ref = ref /\ AllFresh(s, q, ref, cc, pp)
                         => Fresh(m.data.version, cc, pp)
    BY <1>1, TracksTail, Zenon
  <1>5. Carried(e) => m.data.ref = ref
    BY <1>2 DEF Carried
  <1>6. Single(s, r, ref) /\ Last(r, ref)
    BY <1>3, <1>4, Zenon DEF Tracks
  <1>7. Carried(e) => ~Awaited(s, r, ref) /\ Ends(r) = {}
    BY <1>3, <1>4, <1>5
  <1>8. ASSUME e.state = "S_TRANSITION_ENGINE", Awaited(s, r, ref)
        PROVE  Busy(e) /\ "A_TE_INVOKE" \in e.acts
    <2>1. Awaited(s, q, ref)
      BY <1>4, <1>8, Zenon DEF Tracks
    <2>2. a = {"A_TE_INVOKE"}
      BY <1>3, <1>8, <2>1 DEF Table
    <2> QED BY <1>2, <2>2
  <1>9. ASSUME e.state \in Working, ~(Busy(e) /\ "A_TE_CANCEL" \in e.acts)
        PROVE  AllFresh(s, r, ref, c, p) /\ (Carried(e) => Fresh(m.data.version, c, p))
    <2>1. d.state \in Working
      BY <1>2, <1>9 DEF Table
    <2>2. AllFresh(s, q, ref, c, p)
      BY <1>3, <2>1
    <2> QED BY <1>4, <1>5, <2>2, Zenon DEF Tracks
  <1> QED BY <1>2, <1>3, <1>6, <1>7, <1>8, <1>9, Zenon DEF Tracked, r

LEMMA FsaInputIdle ==
  ASSUME Shape, Idle, FsaInput
  PROVE  Idle'
  <1> DEFINE m == Head(dc.queue)
             t == Tail(dc.queue)
             n == NextState[m.input][dc.state]
             a == NewActions[m.input][dc.state]
             b == dc.acts \cup m.acts \cup a
             d == [dc EXCEPT !.queue = t, !.busy = TRUE, !.cur = m,
                             !.acts = b, !.state = n]
             p == DiffComing(pipe)
             f == Fresh(dc.version, cib, p)
  <1>1. /\ dc \in Controllers /\ dc.running /\ ~dc.busy /\ ~dc.stalled
        /\ dc.queue # <<>> /\ Queue(dc.queue) /\ UNCHANGED <<cib, pipe, sched>>
    BY DEF Shape, Good, Stable, FsaInput
  <1>2. Queue(t) /\ m \in Msgs /\ Kept(m)
    BY <1>1, QueueTail
  <1>3. /\ m.input \in Inputs /\ m.acts \in SUBSET Actions /\ dc.state \in States
        /\ dc.acts \in SUBSET Actions /\ dc.queue \in Seq(Msgs)
    BY <1>1, <1>2 DEF Msgs, Controllers
  <1>4. n \in States /\ a \in SUBSET Actions
    BY <1>3, NextTypes, ActionTypes
  <1>5. Table(m.input, dc.state, n, a)
    BY <1>3, TableHolds
  <1>6. Prepended(t, m, dc.queue) /\ t \in Seq(Msgs)
    BY <1>1, <1>3, TailIs
  <1>7. \/ dc' = Settle(d)
        \/ dc' = Settle(FsaPrepend(d, "I_NODE_JOIN"))
        \/ dc' = Settle(FsaAppend(d, "I_ELECTION", NoData))
    BY DEF FsaInput, CheckJoinCounts
  <1>8. Current(dc, f) /\ Tracked(dc, sched, cib, p)
    BY DEF Idle
  <1> HIDE DEF m, t, n, a, p, f
  <1>9. b \in SUBSET Actions
    BY <1>3, <1>4
  <1> HIDE DEF b
  <1>10. d \in Controllers
    BY <1>1, <1>2, <1>4, <1>6, <1>9, Zenon DEF Controllers
  <1>11. /\ d.queue = t /\ d.busy = TRUE /\ d.cur = m /\ d.acts = b /\ d.state = n
         /\ d.running = dc.running /\ d.stalled = dc.stalled
         /\ d.complete = dc.complete /\ d.action = dc.action /\ d.version = dc.version
         /\ d.delay = dc.delay /\ d.connected = dc.connected /\ d.ref = dc.ref
    BY <1>1, Zenon DEF Controllers
  <1> HIDE DEF d
  <1>12. Handles(dc, m, a, d)
    BY <1>1, <1>6, <1>10, <1>11 DEF Handles, b
  <1>13. Current(d, f)
    BY <1>1, <1>2, <1>5, <1>8, <1>11, <1>12, HandleCurrent
  <1>14. Tracked(d, sched, cib, p)
    BY <1>1, <1>5, <1>8, <1>11, <1>12, HandleTracked
  <1>15. ASSUME NEW e, Mild(d, e), dc' = Settle(e) PROVE Idle'
    <2>1. Current(e, f) /\ Tracked(e, sched, cib, p)
      BY <1>13, <1>14, <1>15, MildStep
    <2>2. e \in Controllers /\ e.version = dc.version
      BY <1>11, <1>15 DEF Mild, Alike
    <2> QED BY <1>1, <1>15, <2>1, <2>2, SettledIdle DEF f, p
  <1>16. /\ Mild(d, d) /\ Mild(d, FsaPrepend(d, "I_NODE_JOIN"))
         /\ Mild(d, FsaAppend(d, "I_ELECTION", NoData))
    <2>1. Mild(d, d)
      BY <1>10, GrowsSame DEF Mild, Alike, Tracks
    <2>2. /\ "I_NODE_JOIN" \in Inputs /\ "I_ELECTION" \in Inputs /\ NoData \in Data
          /\ NoData.ref = NoRef
      BY InputSet, DataTypes DEF NoData
    <2>3. Mild(d, FsaPrepend(d, "I_NODE_JOIN"))
      BY <1>10, <2>2, PrependMild
    <2>4. Mild(d, FsaAppend(d, "I_ELECTION", NoData))
      BY <1>10, <2>2, AppendMild
    <2> QED BY <2>1, <2>3, <2>4
  <1> QED BY <1>7, <1>15, <1>16

LEMMA FsaBeginIdle ==
  ASSUME Shape, Idle, FsaBegin
  PROVE  Idle'
  <1> DEFINE m == Msg("I_NULL", NoData, {})
             q == IF dc.queue = <<>> /\ dc.acts # {} THEN <<m>> ELSE dc.queue
             d == [dc EXCEPT !.trigger = FALSE, !.stalled = FALSE, !.queue = q]
             p == DiffComing(pipe)
             f == Fresh(dc.version, cib, p)
  <1>1. /\ dc \in Controllers /\ ~dc.running /\ ~dc.busy /\ dc.queue \in Seq(Msgs)
        /\ UNCHANGED <<cib, pipe, sched>> /\ dc' = Settle(d)
    BY DEF Shape, Good, Stable, FsaBegin, Controllers
  <1>2. /\ m \in Msgs /\ ~Stopping(m) /\ m.input = "I_NULL" /\ m.data.ref = NoRef
    BY MsgPlain, InputSet, DataTypes DEF NoData
  <1>3. Current(dc, f) /\ Tracked(dc, sched, cib, p)
    BY DEF Idle
  <1> HIDE DEF m, p, f
  <1>4. q = dc.queue \/ (q \in Seq(Msgs) /\ Appended(dc.queue, m, q))
    BY <1>2 DEF Appended
  <1> HIDE DEF q
  <1>5. q \in Seq(Msgs)
    BY <1>1, <1>4
  <1>6. d \in Controllers
    BY <1>1, <1>5, Zenon DEF Controllers
  <1>7. /\ d.queue = q /\ d.busy = dc.busy /\ d.cur = dc.cur /\ d.acts = dc.acts
        /\ d.state = dc.state /\ d.running = dc.running
        /\ d.complete = dc.complete /\ d.action = dc.action /\ d.version = dc.version
        /\ d.delay = dc.delay /\ d.connected = dc.connected /\ d.ref = dc.ref
    BY <1>1 DEF Controllers
  <1> HIDE DEF d
  <1>8. Grows(dc.state, dc.queue, q)
    BY <1>1, <1>2, <1>4, <1>5, KeepsAppend, GrowsSame
  <1>9. dc.ref # NoRef => Tracks(sched, dc.queue, q, dc.ref)
    <2>1. CASE q = dc.queue
      BY <2>1 DEF Tracks
    <2>2. CASE Appended(dc.queue, m, q)
      BY <1>1, <1>2, <1>5, <2>2, TracksAppend
    <2> QED BY <1>4, <2>1, <2>2
  <1>10. /\ ~Busy(d) /\ ~Running(dc) /\ ~Busy(dc) /\ ~Carried(d) /\ ~Carried(dc)
         /\ CalcDue(dc) => CalcDue(d)
    BY <1>1, <1>7, <1>8 DEF Busy, Running, Carried, CalcDue, Grows, Keeps
  <1>11. Current(d, f)
    <2>1. InIdle(d, f) /\ InGraph(d) /\ StopsKept(d)
      BY <1>3, <1>7, <1>8, <1>10, Zenon DEF Current, InIdle, InGraph, StopsKept, Grows, Keeps
    <2>2. InEngine(d, f)
      BY <1>3, <1>7, <1>8, <1>10, Zenon DEF Current, InEngine, Grows, Keeps
    <2>3. InPolicy(d)
      BY <1>3, <1>7, <1>8, <1>10, Zenon DEF Current, InPolicy, Grows, Keeps
    <2> QED BY <2>1, <2>2, <2>3 DEF Current
  <1>12. Tracked(d, sched, cib, p)
    BY <1>3, <1>7, <1>9, <1>10, Zenon DEF Tracked, Tracks
  <1> QED BY <1>1, <1>6, <1>7, <1>11, <1>12, SettledIdle DEF f, p

-----------------------------------------------------------------------------
(* Callbacks: the FSA does not run *)

LEMMA AtEase ==
  ASSUME Shape, Ready
  PROVE  /\ dc \in Controllers /\ ~dc.running /\ ~dc.busy /\ ~Busy(dc) /\ ~Running(dc)
         /\ ~Carried(dc) /\ dc.queue \in Seq(Msgs)
  BY DEF Shape, Good, Stable, Ready, Busy, Running, Carried, Controllers

LEMMA IdleFrom ==
  ASSUME Idle, PipeFresh', dc'.busy = dc.busy, dc'.cur = dc.cur,
         Current(dc', Fresh(dc'.version, cib', DiffComing(pipe'))),
         Tracked(dc', sched', cib', DiffComing(pipe'))
  PROVE  Idle'
  BY DEF Idle

(* The channels of the CIB manager and of the scheduler are left alone. *)
LEMMA QuietIdle ==
  ASSUME Idle, UNCHANGED <<cib, pipe, sched>>, NEW e, dc' = e,
         e.version = dc.version, e.busy = dc.busy, e.cur = dc.cur,
         Current(e, Fresh(dc.version, cib, DiffComing(pipe))),
         Tracked(e, sched, cib, DiffComing(pipe))
  PROVE  Idle'
  <1>1. PipeFresh'
    BY DEF Idle, PipeFresh
  <1> QED BY <1>1, IdleFrom

LEMMA MildIdle ==
  ASSUME Idle, UNCHANGED <<cib, pipe, sched>>, NEW e, dc' = e, Mild(dc, e)
  PROVE  Idle'
  <1> DEFINE p == DiffComing(pipe)
             f == Fresh(dc.version, cib, p)
  <1>1. Current(dc, f) /\ Tracked(dc, sched, cib, p)
    BY DEF Idle
  <1>2. Current(e, f) /\ Tracked(e, sched, cib, p)
    <2> HIDE DEF p, f
    <2> QED BY <1>1, MildStep
  <1>3. e.version = dc.version /\ e.busy = dc.busy /\ e.cur = dc.cur
    BY DEF Mild, Alike
  <1> QED BY <1>2, <1>3, QuietIdle

(* An error while the FSA does not run *)
LEMMA ErrorKeeps ==
  ASSUME Shape, Idle, Ready, NEW input \in Exits, NEW fresh, Current(dc, fresh),
         NEW s, NEW c, NEW p, Tracked(dc, s, c, p)
  PROVE  LET e == FsaError(dc, input)
         IN  /\ Current(e, fresh) /\ Tracked(e, s, c, p)
             /\ e.version = dc.version /\ e.busy = dc.busy /\ e.cur = dc.cur
  <1> DEFINE e == FsaError(dc, input)
             a == [dc EXCEPT !.acts = {}]
  <1>1. input \in Inputs
    BY InputSet DEF Exits
  <1>2. dc \in Controllers /\ ~dc.busy /\ dc.cur = NoMsg
    BY AtEase DEF Idle
  <1>3. Current(e, fresh)
    BY <1>1, <1>2, ErrorCurrent DEF Current
  <1>4. Tracked(e, s, c, p)
    BY <1>1, <1>2, ErrorTracked
  <1>5. Alike(a, e)
    BY <1>1, <1>2, ErrorFields
  <1>6. a.version = dc.version /\ a.busy = dc.busy /\ a.cur = dc.cur
    BY <1>2 DEF Controllers
  <1> QED BY <1>3, <1>4, <1>5, <1>6 DEF Alike

LEMMA MembershipIdle ==
  ASSUME Shape, Idle, NodeJoin \/ CheckJoinState \/ ElectionCalled \/ ElectionWon
  PROVE  Idle'
  <1>1. Ready /\ UNCHANGED <<cib, pipe, sched>>
    BY DEF NodeJoin, CheckJoinState, ElectionCalled, ElectionWon
  <1>2. dc \in Controllers
    BY <1>1, AtEase
  <1>3. /\ JoinData \in Data /\ NoData \in Data /\ JoinData.ref = NoRef
        /\ NoData.ref = NoRef
    BY DataTypes DEF JoinData, NoData
  <1>4. /\ "I_NODE_JOIN" \in Inputs /\ "I_FINALIZED" \in Inputs
        /\ "I_INTEGRATED" \in Inputs /\ "I_ELECTION" \in Inputs
        /\ "I_ELECTION_DC" \in Inputs /\ "I_ELECTION" \in Exits
    BY InputSet DEF Exits
  <1>5. /\ Mild(dc, FsaAppend(dc, "I_NODE_JOIN", JoinData))
        /\ Mild(dc, FsaAppend(dc, "I_FINALIZED", NoData))
        /\ Mild(dc, FsaAppend(dc, "I_ELECTION", NoData))
        /\ Mild(dc, FsaAppend(dc, "I_ELECTION_DC", NoData))
    BY <1>2, <1>3, <1>4, AppendMild
  <1>6. /\ Mild(dc, FsaPrepend(dc, "I_NODE_JOIN"))
        /\ Mild(dc, FsaPrepend(dc, "I_INTEGRATED"))
    BY <1>2, <1>4, PrependMild
  <1>7. Mild(dc, dc') \/ dc' = FsaError(dc, "I_ELECTION")
    BY <1>5, <1>6 DEF NodeJoin, CheckJoinState, ElectionCalled, ElectionWon
  <1>8. CASE Mild(dc, dc')
    BY <1>1, <1>8, MildIdle
  <1>9. CASE dc' = FsaError(dc, "I_ELECTION")
    <2> DEFINE e == FsaError(dc, "I_ELECTION")
    <2>1. /\ Current(e, Fresh(dc.version, cib, DiffComing(pipe)))
          /\ Tracked(e, sched, cib, DiffComing(pipe))
          /\ e.version = dc.version /\ e.busy = dc.busy /\ e.cur = dc.cur
      BY <1>1, <1>4, ErrorKeeps DEF Idle
    <2> HIDE DEF e
    <2> QED BY <1>1, <1>9, <2>1, QuietIdle DEF e
  <1> QED BY <1>7, <1>8, <1>9

(* A_PE_INVOKE is added. *)
LEMMA AddCurrent ==
  ASSUME NEW d, NEW e, ~Busy(d), ~Busy(e), ~Running(d),
         e.acts = d.acts \cup {"A_PE_INVOKE"},
         e.state = d.state /\ e.queue = d.queue /\ e.complete = d.complete,
         e.action = d.action /\ e.delay = d.delay,
         NEW fresh, Current(d, fresh)
  PROVE  Current(e, fresh)
  <1>1. /\ "A_PE_START" \in d.acts => "A_PE_START" \in e.acts
        /\ e.acts \cap Stops = d.acts \cap Stops
        /\ CalcDue(d) => CalcDue(e)
    BY DEF Stops, CalcDue
  <1>2. InIdle(e, fresh) /\ InGraph(e) /\ StopsKept(e)
    BY <1>1, Zenon DEF Current, InIdle, InGraph, StopsKept
  <1>3. InEngine(e, fresh)
    BY <1>1, Zenon DEF Current, InEngine
  <1>4. InPolicy(e)
    BY <1>1, Zenon DEF Current, InPolicy
  <1> QED BY <1>2, <1>3, <1>4 DEF Current

(* What Tracked looks at while the FSA does not work *)
LEMMA SameTracked ==
  ASSUME NEW d, NEW e, ~Busy(d), ~Busy(e), e.ref = d.ref, e.queue = d.queue,
         e.state = d.state, e.connected = d.connected,
         NEW s, NEW c, NEW p, Tracked(d, s, c, p)
  PROVE  Tracked(e, s, c, p)
  <1>1. ~Carried(d) /\ ~Carried(e)
    BY DEF Carried
  <1> QED BY <1>1, Zenon DEF Tracked

LEMMA TimersIdle ==
  ASSUME Shape, Idle, SleepTimer \/ TransitionTimer \/ RecheckTimer
  PROVE  Idle'
  <1> DEFINE p == DiffComing(pipe)
             f == Fresh(dc.version, cib, p)
  <1>1. Ready /\ UNCHANGED <<cib, pipe, sched>>
    BY DEF SleepTimer, TransitionTimer, RecheckTimer
  <1>2. dc \in Controllers /\ ~dc.busy /\ ~Busy(dc) /\ ~Running(dc)
    BY <1>1, AtEase
  <1>3. Current(dc, f) /\ Tracked(dc, sched, cib, p)
    BY DEF Idle
  <1> HIDE DEF p, f
  <1>4. ASSUME NEW e, dc' = e, e.version = dc.version, e.busy = dc.busy, e.cur = dc.cur,
               Current(e, f), Tracked(e, sched, cib, p)
        PROVE  Idle'
    BY <1>1, <1>4, QuietIdle DEF f, p
  <1>5. CASE SleepTimer
    <2> DEFINE x == [dc EXCEPT !.retry = FALSE, !.acts = @ \cup {"A_PE_INVOKE"}]
               e == SetTrigger(x)
    <2>1. dc' = e
      BY <1>5 DEF SleepTimer
    <2>2. /\ e.acts = dc.acts \cup {"A_PE_INVOKE"}
          /\ e.state = dc.state /\ e.queue = dc.queue /\ e.complete = dc.complete
          /\ e.action = dc.action /\ e.delay = dc.delay /\ e.version = dc.version
          /\ e.busy = dc.busy /\ e.cur = dc.cur /\ e.ref = dc.ref
          /\ e.connected = dc.connected
      BY <1>2 DEF SetTrigger, Controllers
    <2> HIDE DEF e
    <2>3. ~Busy(e)
      BY <1>2, <2>2 DEF Busy
    <2>4. Current(e, f) /\ Tracked(e, sched, cib, p)
      BY <1>2, <1>3, <2>2, <2>3, AddCurrent, SameTracked
    <2> QED BY <1>4, <2>1, <2>2, <2>4
  <1>6. CASE TransitionTimer
    <2> DEFINE x == [dc EXCEPT !.delay = FALSE]
               y == FsaAppend(x, "I_PE_CALC", NoData)
               e == SetTrigger(y)
    <2>1. dc' = e
      BY <1>6 DEF TransitionTimer
    <2>2. x \in Controllers
      BY <1>2, Zenon DEF Controllers
    <2>3. /\ x.acts = dc.acts /\ x.state = dc.state /\ x.queue = dc.queue
          /\ x.version = dc.version /\ x.busy = dc.busy /\ x.cur = dc.cur
          /\ x.ref = dc.ref /\ x.connected = dc.connected
      BY <1>2 DEF Controllers
    <2> HIDE DEF x
    <2>4. Mild(x, y) /\ Due(y)
      BY <2>2, CalcDueNow
    <2> HIDE DEF y
    <2>5. /\ Alike(y, e) /\ e.ref = y.ref /\ e.queue = y.queue
      BY <2>4, TriggerFields DEF Mild
    <2> HIDE DEF e
    <2>6. ~Busy(x) /\ ~Busy(y) /\ ~Busy(e)
      BY <1>2, <2>3, <2>4, <2>5 DEF Busy, Mild, Alike
    <2>7. Tracked(x, sched, cib, p)
      BY <1>2, <1>3, <2>3, <2>6, SameTracked
    <2>8. Tracked(y, sched, cib, p)
      BY <2>4, <2>7, MildStep
    <2>9. Tracked(e, sched, cib, p)
      BY <2>5, <2>6, <2>8, SameTracked DEF Alike
    <2>10. StopsKept(e)
      BY <1>2, <1>3, <2>3, <2>4, <2>5, <2>6, Zenon
         DEF Current, StopsKept, Mild, Alike, Grows, Keeps
    <2>11. Due(e)
      BY <2>4, <2>5 DEF Due, Alike
    <2>12. Current(e, f)
      BY <2>10, <2>11, DueCurrent
    <2>13. e.version = dc.version /\ e.busy = dc.busy /\ e.cur = dc.cur
      BY <2>3, <2>4, <2>5 DEF Mild, Alike
    <2> QED BY <1>4, <2>1, <2>9, <2>12, <2>13
  <1>7. CASE RecheckTimer
    <2> DEFINE y == FsaAppend(dc, "I_PE_CALC", NoData)
               e == SetTrigger(y)
    <2>1. dc' = e
      BY <1>7 DEF RecheckTimer
    <2>2. Mild(dc, y)
      BY <1>2, CalcDueNow
    <2> HIDE DEF y
    <2>3. e \in Controllers /\ Alike(y, e) /\ e.ref = y.ref /\ e.queue = y.queue
      BY <2>2, TriggerFields DEF Mild
    <2> HIDE DEF e
    <2>4. Mild(dc, e)
      BY <2>2, <2>3, AlikeTrans DEF Mild
    <2> QED BY <1>1, <2>1, <2>4, MildIdle
  <1> QED BY <1>5, <1>6, <1>7

LEMMA TriggerMild ==
  ASSUME NEW d \in Controllers
  PROVE  Mild(d, SetTrigger(d))
  <1>1. d.queue \in Seq(Msgs)
    BY DEF Controllers
  <1> QED BY <1>1, TriggerFields, GrowsSame DEF Mild, Tracks

(* The end of a graph outside of S_TRANSITION_ENGINE *)
LEMMA EndedCurrent ==
  ASSUME NEW d, NEW e, ~Busy(d), ~Busy(e), ~Running(d), d.state # "S_TRANSITION_ENGINE",
         e.state = d.state /\ e.queue = d.queue /\ e.acts = d.acts,
         e.delay = d.delay /\ e.complete, NEW fresh, Current(d, fresh)
  PROVE  Current(e, fresh)
  <1>1. InIdle(e, fresh)
    BY Zenon DEF Current, InIdle, CalcDue
  <1>2. InEngine(e, fresh)
    BY DEF InEngine
  <1>3. InPolicy(e)
    BY Zenon DEF Current, InPolicy
  <1>4. InGraph(e) /\ StopsKept(e)
    BY Zenon DEF Current, InGraph, StopsKept
  <1> QED BY <1>1, <1>2, <1>3, <1>4 DEF Current

(* I_TE_SUCCESS, unless a new calculation was asked for *)
LEMMA SuccessCurrent ==
  ASSUME NEW d \in Controllers, ~Busy(d), ~Running(d), d.state = "S_TRANSITION_ENGINE",
         d.action # "restart", NEW fresh, Current(d, fresh),
         NEW e \in Controllers, ~Busy(e), e.state = d.state /\ e.acts = d.acts,
         e.delay = d.delay /\ e.complete,
         Appended(d.queue, Msg("I_TE_SUCCESS", NoData, {}), e.queue)
  PROVE  Current(e, fresh)
  <1> DEFINE m == Msg("I_TE_SUCCESS", NoData, {})
  <1>1. m \in Msgs /\ ~Stopping(m)
    BY MsgPlain, InputSet, DataTypes
  <1>2. d.queue \in Seq(Msgs) /\ e.queue \in Seq(Msgs)
    BY DEF Controllers
  <1>3. Appended(d.queue, m, e.queue)
    OBVIOUS
  <1> HIDE DEF m
  <1>4. Keeps(d.state, d.queue, e.queue)
    BY <1>1, <1>2, <1>3, KeepsAppend
  <1>5. InIdle(e, fresh) /\ InPolicy(e) /\ InGraph(e)
    BY DEF InIdle, InPolicy, InGraph
  <1>6. StopsKept(e)
    BY <1>4, Zenon DEF Current, StopsKept, Keeps
  <1>7. InEngine(e, fresh)
    BY <1>4, Zenon DEF Current, InEngine, CalcDue, Keeps
  <1> QED BY <1>5, <1>6, <1>7 DEF Current

(* In S_TRANSITION_ENGINE no answer is waited for. *)
LEMMA SuccessTracked ==
  ASSUME NEW d \in Controllers, ~Busy(d), d.state = "S_TRANSITION_ENGINE",
         NEW s, NEW c, NEW p, Tracked(d, s, c, p),
         NEW e \in Controllers, ~Busy(e), e.ref = d.ref, e.connected = d.connected,
         Appended(d.queue, Msg("I_TE_SUCCESS", NoData, {}), e.queue)
  PROVE  Tracked(e, s, c, p)
  <1> SUFFICES ASSUME d.ref # NoRef PROVE Tracked(e, s, c, p)
    BY ForgottenTracked
  <1>1. d.connected /\ ~Awaited(s, d.queue, d.ref)
    BY Zenon DEF Tracked
  <1>2. d.queue \in Seq(Msgs) /\ e.queue \in Seq(Msgs)
    BY Zenon DEF Controllers
  <1>3. Msg("I_TE_SUCCESS", NoData, {}).data.ref = NoRef
    BY DEF Msg, NoData
  <1>4. ASSUME NEW j \in DOMAIN e.queue PROVE e.queue[j].data.ref # d.ref
    <2> DEFINE m == Msg("I_TE_SUCCESS", NoData, {})
    <2>1. m.data.ref = NoRef
      BY <1>3
    <2> HIDE DEF m
    <2>2. (j \in DOMAIN d.queue /\ e.queue[j] = d.queue[j]) \/ e.queue[j] = m
      BY <1>2, AppendedIs DEF m
    <2> QED BY <1>1, <2>1, <2>2, Zenon DEF Awaited
  <1>5. \A i \in DOMAIN s : s[i].ref # d.ref
    BY <1>1, Zenon DEF Awaited
  <1>6. ~Awaited(s, e.queue, e.ref) /\ Single(s, e.queue, e.ref) /\ Last(e.queue, e.ref)
        /\ AllFresh(s, e.queue, e.ref, c, p)
    BY <1>4, <1>5, Zenon DEF Awaited, Single, Last, AllFresh
  <1>7. ~Carried(e)
    BY DEF Carried
  <1> QED BY <1>1, <1>6, <1>7, Zenon DEF Tracked

LEMMA NotifyCurrent ==
  ASSUME NEW d \in Controllers, ~d.busy, ~d.running, NEW fresh, Current(d, fresh),
         NEW s, NEW c, NEW p, Tracked(d, s, c, p)
  PROVE  LET e == NotifyCrmd(d)
         IN  /\ Current(e, fresh) /\ Tracked(e, s, c, p)
             /\ e.version = d.version /\ e.busy = d.busy /\ e.cur = d.cur
  <1> DEFINE x == [d EXCEPT !.complete = TRUE, !.action = "done"]
             e == NotifyCrmd(d)
  <1>1. x \in Controllers
    BY Zenon DEF Controllers, Completions
  <1>2. /\ x.state = d.state /\ x.queue = d.queue /\ x.acts = d.acts /\ x.delay = d.delay
        /\ x.complete /\ x.version = d.version /\ x.busy = d.busy /\ x.cur = d.cur
        /\ x.ref = d.ref /\ x.connected = d.connected /\ x.delayed = d.delayed
        /\ x.running = d.running
    BY DEF Controllers
  <1>3. e = IF d.state = "S_TRANSITION_ENGINE"
            THEN IF d.action # "restart" THEN FsaAppend(x, "I_TE_SUCCESS", NoData)
                 ELSE IF d.delayed THEN SetTrigger([x EXCEPT !.delay = TRUE])
                 ELSE FsaAppend(x, "I_PE_CALC", NoData)
            ELSE IF d.state = "S_POLICY_ENGINE" /\ d.action = "restart"
            THEN SetTrigger([x EXCEPT !.acts = @ \cup {"A_PE_INVOKE"}])
            ELSE SetTrigger(x)
    BY DEF NotifyCrmd
  <1> HIDE DEF x, e
  <1>4. ~Busy(d) /\ ~Busy(x) /\ ~Running(d) /\ ~Running(x)
    BY <1>2 DEF Busy, Running
  <1>5. Tracked(x, s, c, p)
    BY <1>2, <1>4, SameTracked
  <1>6. CASE d.state = "S_TRANSITION_ENGINE" /\ d.action # "restart"
    <2>1. e = FsaAppend(x, "I_TE_SUCCESS", NoData)
      BY <1>3, <1>6
    <2>2. "I_TE_SUCCESS" \in Inputs /\ NoData \in Data
      BY InputSet, DataTypes
    <2>3. /\ e \in Controllers /\ Alike(x, e) /\ e.ref = x.ref
          /\ Appended(x.queue, Msg("I_TE_SUCCESS", NoData, {}), e.queue)
      BY <1>1, <2>1, <2>2, AppendFields
    <2>4. ~Busy(e)
      BY <1>4, <2>3 DEF Busy, Alike
    <2>5. Current(e, fresh)
      BY <1>2, <1>4, <1>6, <2>3, <2>4, SuccessCurrent, Zenon DEF Alike
    <2>6. Tracked(e, s, c, p)
      BY <1>1, <1>2, <1>4, <1>5, <1>6, <2>3, <2>4, SuccessTracked DEF Alike
    <2> QED BY <1>2, <2>3, <2>5, <2>6, Zenon DEF Alike, e
  <1>7. CASE d.state = "S_TRANSITION_ENGINE" /\ d.action = "restart" /\ d.delayed
    <2> DEFINE y == [x EXCEPT !.delay = TRUE]
    <2>1. e = SetTrigger(y)
      BY <1>3, <1>7
    <2>2. /\ e.state = x.state /\ e.queue = x.queue /\ e.acts = x.acts /\ e.delay
          /\ e.version = x.version /\ e.busy = x.busy /\ e.cur = x.cur
          /\ e.ref = x.ref /\ e.connected = x.connected
      BY <1>1, <2>1 DEF SetTrigger, Controllers
    <2>3. ~Busy(e)
      BY <1>2, <2>2 DEF Busy
    <2>4. StopsKept(e) /\ Due(e)
      BY <1>2, <1>4, <2>2, <2>3, Zenon DEF Current, StopsKept, Due
    <2>5. Tracked(e, s, c, p)
      BY <1>4, <1>5, <2>2, <2>3, SameTracked
    <2> QED BY <1>2, <2>2, <2>4, <2>5, DueCurrent DEF e
  <1>8. CASE d.state = "S_TRANSITION_ENGINE" /\ d.action = "restart" /\ ~d.delayed
    <2>1. e = FsaAppend(x, "I_PE_CALC", NoData)
      BY <1>3, <1>8
    <2>2. Mild(x, e) /\ Due(e)
      BY <1>1, <2>1, CalcDueNow, Zenon
    <2>3. ~Busy(e)
      BY <1>4, <2>2 DEF Busy, Mild, Alike
    <2>4. StopsKept(e)
      BY <1>2, <1>4, <2>2, <2>3, Zenon DEF Current, StopsKept, Mild, Alike, Grows, Keeps
    <2>5. Tracked(e, s, c, p)
      BY <1>1, <1>5, <2>2, MildStep
    <2> QED BY <1>2, <2>2, <2>4, <2>5, DueCurrent, Zenon DEF Mild, Alike, e
  <1>9. CASE d.state # "S_TRANSITION_ENGINE"
    <2>1. Current(x, fresh)
      BY <1>2, <1>4, <1>9, EndedCurrent
    <2>2. CASE e = SetTrigger(x)
      <3>1. Mild(x, e)
        BY <1>1, <2>2, TriggerMild
      <3> QED BY <1>1, <1>2, <1>5, <2>1, <3>1, MildStep, Zenon DEF Mild, Alike, e
    <2>3. CASE e = SetTrigger([x EXCEPT !.acts = @ \cup {"A_PE_INVOKE"}])
      <3>1. /\ e.acts = x.acts \cup {"A_PE_INVOKE"}
            /\ e.state = x.state /\ e.queue = x.queue /\ e.complete = x.complete
            /\ e.action = x.action /\ e.delay = x.delay /\ e.version = x.version
            /\ e.busy = x.busy /\ e.cur = x.cur /\ e.ref = x.ref
            /\ e.connected = x.connected
        BY <1>1, <2>3 DEF SetTrigger, Controllers
      <3>2. ~Busy(e)
        BY <1>2, <3>1 DEF Busy
      <3>3. Current(e, fresh) /\ Tracked(e, s, c, p)
        BY <1>4, <1>5, <2>1, <3>1, <3>2, AddCurrent, SameTracked, Zenon
      <3> QED BY <1>2, <3>1, <3>3 DEF e
    <2> QED BY <1>3, <1>9, <2>2, <2>3
  <1>10. d.delayed \in BOOLEAN
    BY DEF Controllers
  <1> QED BY <1>6, <1>7, <1>8, <1>9, <1>10

LEMMA GraphIdle ==
  ASSUME Shape, Idle, GraphCompletes \/ GraphTriggeredLate
  PROVE  Idle'
  <1> DEFINE e == NotifyCrmd(dc)
  <1>1. Ready /\ UNCHANGED <<cib, pipe, sched>> /\ dc' = e
    BY DEF GraphCompletes, GraphTriggeredLate
  <1>2. /\ Current(e, Fresh(dc.version, cib, DiffComing(pipe)))
        /\ Tracked(e, sched, cib, DiffComing(pipe))
        /\ e.version = dc.version /\ e.busy = dc.busy /\ e.cur = dc.cur
    BY <1>1, AtEase, NotifyCurrent DEF Idle
  <1> HIDE DEF e
  <1> QED BY <1>1, <1>2, QuietIdle

LEMMA TimeoutIdle ==
  ASSUME Shape, Idle, SchedTimeout
  PROVE  Idle'
  <1> DEFINE e == Leave(dc)
  <1>1. Ready /\ UNCHANGED <<cib, pipe, sched>> /\ dc' = e
    BY DEF SchedTimeout
  <1>2. dc \in Controllers /\ ~dc.busy /\ dc.cur = NoMsg
    BY <1>1, AtEase DEF Idle
  <1>3. /\ e.state = "S_RECOVERY" /\ e.queue = <<>> /\ e.ref = NoRef /\ e.cur = NoMsg
        /\ e.busy = FALSE /\ e.version = dc.version
    BY <1>2 DEF Leave, Controllers
  <1>4. dc.busy \in BOOLEAN
    BY <1>2 DEF Controllers
  <1> HIDE DEF e
  <1> QED BY <1>1, <1>2, <1>3, <1>4, GoneCurrent, ForgottenTracked, QuietIdle, Zenon

-----------------------------------------------------------------------------
(* The CIB manager *)

(* More versions count as current. *)
LEMMA FresherCurrent ==
  ASSUME NEW d, NEW fresh, NEW anew, fresh => anew, Current(d, fresh)
  PROVE  Current(d, anew)
  <1>1. InIdle(d, anew)
    BY Zenon DEF Current, InIdle
  <1>2. InEngine(d, anew)
    BY Zenon DEF Current, InEngine
  <1> QED BY <1>1, <1>2 DEF Current

LEMMA FresherTracked ==
  ASSUME NEW d, NEW s, NEW c, NEW p, NEW cc, NEW pp,
         \A v : Fresh(v, c, p) => Fresh(v, cc, pp), Tracked(d, s, c, p)
  PROVE  Tracked(d, s, cc, pp)
  <1>1. AllFresh(s, d.queue, d.ref, c, p) => AllFresh(s, d.queue, d.ref, cc, pp)
    BY Zenon DEF AllFresh
  <1>2. Fresh(d.cur.data.version, c, p) => Fresh(d.cur.data.version, cc, pp)
    OBVIOUS
  <1> QED BY <1>1, <1>2, Zenon DEF Tracked

(* Outside of the loop no version has to be the current one. *)
LEMMA OutsideCurrent ==
  ASSUME NEW d, d.state \notin Working, NEW fresh, NEW anew, Current(d, fresh)
  PROVE  Current(d, anew)
  BY Zenon DEF Current, InIdle, InEngine, Working

LEMMA OutsideTracked ==
  ASSUME NEW d, d.state \notin Working, NEW s, NEW c, NEW p, NEW cc, NEW pp,
         Tracked(d, s, c, p)
  PROVE  Tracked(d, s, cc, pp)
  BY Zenon DEF Tracked

LEMMA PipeAppend ==
  ASSUME pipe \in Seq(CibMsgs), NEW m \in CibMsgs, pipe' = Append(pipe, m)
  PROVE  /\ DiffComing(pipe') <=> DiffComing(pipe) \/ m.type = "diff"
         /\ \A i \in DOMAIN pipe : i \in DOMAIN pipe' /\ pipe'[i] = pipe[i]
         /\ \A i \in DOMAIN pipe' : i \in DOMAIN pipe \/ (i = Len(pipe) + 1 /\ pipe'[i] = m)
         /\ Len(pipe) + 1 \in DOMAIN pipe' /\ pipe'[Len(pipe) + 1] = m
         /\ \A i \in DOMAIN pipe : i < Len(pipe) + 1
  <1>1. /\ \A i \in DOMAIN pipe : i \in DOMAIN pipe' /\ pipe'[i] = pipe[i]
        /\ \A i \in DOMAIN pipe' : i \in DOMAIN pipe \/ (i = Len(pipe) + 1 /\ pipe'[i] = m)
        /\ Len(pipe) + 1 \in DOMAIN pipe' /\ pipe'[Len(pipe) + 1] = m
        /\ \A i \in DOMAIN pipe : i < Len(pipe) + 1
    OBVIOUS
  <1> QED BY <1>1, Zenon DEF DiffComing

LEMMA PipeTail ==
  ASSUME pipe \in Seq(CibMsgs), pipe # <<>>, pipe' = Tail(pipe), cib' = cib, PipeFresh
  PROVE  /\ PipeFresh'
         /\ Head(pipe).type # "diff" => (DiffComing(pipe') <=> DiffComing(pipe))
         /\ Head(pipe).type = "cib" => Fresh(Head(pipe).version, cib, DiffComing(pipe'))
  <1>1. /\ \A i \in DOMAIN pipe' : i + 1 \in DOMAIN pipe /\ pipe'[i] = pipe[i + 1]
        /\ \A i \in DOMAIN pipe : \/ i = 1 /\ pipe[i] = Head(pipe)
                                  \/ i - 1 \in DOMAIN pipe' /\ pipe[i] = pipe'[i - 1]
        /\ 1 \in DOMAIN pipe /\ pipe[1] = Head(pipe)
    OBVIOUS
  <1>2. DOMAIN pipe \subseteq Nat /\ DOMAIN pipe' \subseteq Nat
    OBVIOUS
  <1>3. PipeFresh'
    <2> SUFFICES ASSUME NEW i \in DOMAIN pipe', pipe'[i].type = "cib", pipe'[i].version # cib
                 PROVE  \E j \in DOMAIN pipe' : j > i /\ pipe'[j].type = "diff"
      BY DEF PipeFresh
    <2>1. PICK j \in DOMAIN pipe : j > i + 1 /\ pipe[j].type = "diff"
      BY <1>1 DEF PipeFresh
    <2>2. j # 1 /\ j - 1 \in DOMAIN pipe' /\ pipe[j] = pipe'[j - 1] /\ j - 1 > i
      BY <1>1, <1>2, <2>1
    <2> QED BY <2>1, <2>2
  <1>4. ASSUME Head(pipe).type # "diff" PROVE DiffComing(pipe') <=> DiffComing(pipe)
    <2>1. \A i \in DOMAIN pipe :
            pipe[i].type = "diff" => i - 1 \in DOMAIN pipe' /\ pipe[i] = pipe'[i - 1]
      BY <1>1, <1>4, Zenon
    <2> QED BY <1>1, <2>1, Zenon DEF DiffComing
  <1>5. ASSUME Head(pipe).type = "cib", Head(pipe).version # cib PROVE DiffComing(pipe')
    <2>1. PICK j \in DOMAIN pipe : j > 1 /\ pipe[j].type = "diff"
      BY <1>1, <1>5 DEF PipeFresh
    <2>2. j - 1 \in DOMAIN pipe' /\ pipe[j] = pipe'[j - 1]
      BY <1>1, <1>2, <2>1
    <2> QED BY <2>1, <2>2 DEF DiffComing
  <1> QED BY <1>3, <1>4, <1>5 DEF Fresh

(* A notification or an answer is sent. *)
LEMMA SendIdle ==
  ASSUME Shape, Idle, NEW m \in CibMsgs, pipe' = Append(pipe, m), sched' = sched,
         NEW e, dc' = e, Mild(dc, e),
         cib' = cib \/ m.type = "diff", m.type = "cib" => m.version = cib
  PROVE  Idle'
  <1> DEFINE p == DiffComing(pipe)
             f == Fresh(dc.version, cib, p)
             pp == DiffComing(pipe')
  <1>1. pipe \in Seq(CibMsgs) /\ PipeFresh /\ Current(dc, f) /\ Tracked(dc, sched, cib, p)
    BY DEF Shape, Idle
  <1>2. \A v : Fresh(v, cib, p) => Fresh(v, cib', pp)
    BY <1>1, PipeAppend DEF Fresh
  <1>3. PipeFresh'
    <2>1. /\ \A i \in DOMAIN pipe : i \in DOMAIN pipe' /\ pipe'[i] = pipe[i]
          /\ \A i \in DOMAIN pipe' : i \in DOMAIN pipe \/ (i = Len(pipe) + 1 /\ pipe'[i] = m)
          /\ Len(pipe) + 1 \in DOMAIN pipe' /\ pipe'[Len(pipe) + 1] = m
          /\ \A i \in DOMAIN pipe : i < Len(pipe) + 1
      BY <1>1, PipeAppend, Zenon
    <2>2. \A i \in DOMAIN pipe : Len(pipe) + 1 > i
      BY <2>1
    <2>3. CASE m.type = "diff"
      <3>1. m.type # "cib"
        BY <2>3
      <3> QED BY <2>1, <2>2, <2>3, <3>1, Zenon DEF PipeFresh
    <2>4. CASE cib' = cib
      <3> SUFFICES ASSUME NEW i \in DOMAIN pipe', pipe'[i].type = "cib"
                   PROVE  \/ pipe'[i].version = cib
                          \/ \E j \in DOMAIN pipe' : j > i /\ pipe'[j].type = "diff"
        BY <2>4 DEF PipeFresh
      <3>1. CASE i \in DOMAIN pipe
        BY <1>1, <2>1, <3>1, Zenon DEF PipeFresh
      <3> QED BY <2>1, <3>1
    <2> QED BY <2>3, <2>4
  <1> HIDE DEF p, pp
  <1>4. Current(e, f) /\ Tracked(e, sched, cib, p)
    <2> HIDE DEF f
    <2> QED BY <1>1, MildStep
  <1>5. Tracked(e, sched, cib', pp)
    BY <1>2, <1>4, FresherTracked
  <1>6. e.version = dc.version /\ e.busy = dc.busy /\ e.cur = dc.cur
    BY DEF Mild, Alike
  <1>7. Current(e, Fresh(e.version, cib', pp))
    BY <1>2, <1>4, <1>6, FresherCurrent
  <1> QED BY <1>3, <1>5, <1>6, <1>7, IdleFrom DEF pp

LEMMA CibManagerIdle ==
  ASSUME Shape, Idle, CibChange \/ CibAnswer \/ UpdateAnswer \/ UpdateSent
  PROVE  Idle'
  <1>1. dc \in Controllers /\ cib \in Nat
    BY DEF Shape, Good
  <1>2. dc.queue \in Seq(Msgs)
    BY <1>1 DEF Controllers
  <1>3. ASSUME NEW e \in Controllers, Alike(dc, e), e.ref = dc.ref, e.queue = dc.queue
        PROVE  Mild(dc, e)
    BY <1>2, <1>3, GrowsSame, Zenon DEF Mild, Tracks
  <1>4. Mild(dc, dc)
    BY <1>1, <1>3 DEF Alike
  <1>5. CASE CibChange
    <2>1. CibMsg("diff", 0) \in CibMsgs /\ CibMsg("diff", 0).type = "diff"
      BY DEF CibMsg, CibMsgs
    <2> QED BY <1>4, <1>5, <2>1, SendIdle DEF CibChange
  <1>6. CASE CibAnswer
    <2> DEFINE e == [dc EXCEPT !.asked = Tail(@)]
               m == CibMsg(Head(dc.asked), cib)
    <2>1. Head(dc.asked) \in {"cib", "saved"} /\ Tail(dc.asked) \in Seq({"cib", "saved"})
      BY <1>1, <1>6 DEF CibAnswer, Controllers
    <2>2. e \in Controllers
      BY <1>1, <2>1, Zenon DEF Controllers
    <2>3. Alike(dc, e) /\ e.ref = dc.ref /\ e.queue = dc.queue
      BY <1>1 DEF Alike, Controllers
    <2>4. m \in CibMsgs /\ m.version = cib
      BY <1>1, <2>1 DEF CibMsg, CibMsgs
    <2>5. dc' = e /\ pipe' = Append(pipe, m) /\ cib' = cib /\ sched' = sched
      BY <1>6 DEF CibAnswer
    <2> HIDE DEF e, m
    <2> QED BY <1>3, <2>2, <2>3, <2>4, <2>5, SendIdle
  <1>7. CASE UpdateAnswer
    <2>1. CibMsg("updated", 0) \in CibMsgs /\ CibMsg("updated", 0).type = "updated"
      BY DEF CibMsg, CibMsgs
    <2> QED BY <1>4, <1>7, <2>1, SendIdle DEF UpdateAnswer
  <1>8. CASE UpdateSent
    BY <1>4, <1>8, MildIdle DEF UpdateSent
  <1> QED BY <1>5, <1>6, <1>7, <1>8

(* A message other than a notification of a change is taken. *)
LEMMA TakeIdle ==
  ASSUME Shape, Idle, pipe # <<>>, Head(pipe).type # "diff", pipe' = Tail(pipe), cib' = cib,
         NEW e, dc' = e, e.version = dc.version, e.busy = dc.busy, e.cur = dc.cur,
         Current(e, Fresh(dc.version, cib, DiffComing(pipe))),
         Tracked(e, sched', cib, DiffComing(pipe))
  PROVE  Idle'
  <1>1. PipeFresh' /\ (DiffComing(pipe') <=> DiffComing(pipe))
    BY PipeTail DEF Shape, Idle
  <1>2. \A v : Fresh(v, cib, DiffComing(pipe)) => Fresh(v, cib', DiffComing(pipe'))
    BY <1>1 DEF Fresh
  <1>3. Tracked(e, sched', cib', DiffComing(pipe'))
    BY <1>2, FresherTracked
  <1>4. Current(e, Fresh(e.version, cib', DiffComing(pipe')))
    BY <1>2, FresherCurrent
  <1> QED BY <1>1, <1>3, <1>4, IdleFrom

(* te_update_diff *)
LEMMA DiffIdle ==
  ASSUME Shape, Idle, TeUpdateDiff
  PROVE  Idle'
  <1> DEFINE e == AbortTransition(dc, "restart")
             pp == DiffComing(pipe')
  <1>1. /\ Ready /\ pipe # <<>> /\ pipe' = Tail(pipe) /\ cib' = cib /\ sched' = sched
        /\ \/ dc.state \notin Working /\ dc' = dc
           \/ dc' = e
    BY DEF TeUpdateDiff
  <1>2. PipeFresh'
    BY <1>1, PipeTail DEF Shape, Idle
  <1>3. dc \in Controllers
    BY <1>1, AtEase
  <1> HIDE DEF pp
  <1>4. CASE dc.state \notin Working /\ dc' = dc
    <2>1. Current(dc, Fresh(dc.version, cib, pp))
      BY <1>4, OutsideCurrent DEF Idle
    <2>2. Tracked(dc, sched, cib, pp)
      BY <1>4, OutsideTracked DEF Idle
    <2> QED BY <1>1, <1>2, <1>4, <2>1, <2>2, IdleFrom DEF pp
  <1>5. CASE dc' = e
    <2>1. "restart" \in Completions
      BY DEF Completions
    <2>2. Current(e, Fresh(e.version, cib, pp))
      BY <1>3, AbortRestart DEF Idle
    <2>3. e.busy = dc.busy /\ e.cur = dc.cur /\ e.ref = NoRef
      BY <1>3, <2>1, AbortFields DEF Aborts
    <2> HIDE DEF e
    <2>4. Tracked(e, sched, cib, pp)
      BY <2>3, ForgottenTracked
    <2> QED BY <1>1, <1>2, <1>5, <2>2, <2>3, <2>4, IdleFrom DEF pp
  <1> QED BY <1>1, <1>4, <1>5

LEMMA AnswersIdle ==
  ASSUME Shape, Idle, SaveCibContents \/ UpdateCallback
  PROVE  Idle'
  <1> DEFINE p == DiffComing(pipe)
             f == Fresh(dc.version, cib, p)
             e == FsaError(dc, "I_ERROR")
             t == SetTrigger(dc)
  <1>1. /\ Ready /\ pipe # <<>> /\ pipe' = Tail(pipe) /\ Head(pipe).type # "diff"
        /\ UNCHANGED <<cib, sched>> /\ dc' \in {dc, e, t}
    BY DEF SaveCibContents, UpdateCallback
  <1>2. Current(dc, f) /\ Tracked(dc, sched, cib, p)
    BY DEF Idle
  <1>3. dc \in Controllers
    BY <1>1, AtEase
  <1>4. ASSUME NEW x, dc' = x, Current(x, f) /\ Tracked(x, sched, cib, p)
                             /\ x.version = dc.version /\ x.busy = dc.busy /\ x.cur = dc.cur
        PROVE  Idle'
    BY <1>1, <1>4, TakeIdle
  <1> HIDE DEF p, f
  <1>5. /\ Current(e, f) /\ Tracked(e, sched, cib, p)
        /\ e.version = dc.version /\ e.busy = dc.busy /\ e.cur = dc.cur
    BY <1>1, <1>2, ErrorKeeps DEF Exits
  <1>6. Mild(dc, t)
    BY <1>3, TriggerMild
  <1> HIDE DEF e, t
  <1>7. /\ Current(t, f) /\ Tracked(t, sched, cib, p)
        /\ t.version = dc.version /\ t.busy = dc.busy /\ t.cur = dc.cur
    BY <1>2, <1>3, <1>6, MildStep DEF Mild, Alike
  <1> QED BY <1>1, <1>2, <1>4, <1>5, <1>7

(* do_pe_invoke_callback: the CIB that is sent to the scheduler is the      *)
(* current one, or a notification follows; the reference is a new one.      *)
LEMMA CibCallbackIdle ==
  ASSUME Shape, Idle, DoPeInvokeCallback
  PROVE  Idle'
  <1> DEFINE p == DiffComing(pipe)
             f == Fresh(dc.version, cib, p)
             e == FsaError(dc, "I_ERROR")
             t == [dc EXCEPT !.retry = TRUE]
  <1>1. /\ Ready /\ pipe # <<>> /\ pipe' = Tail(pipe) /\ Head(pipe).type = "cib"
        /\ cib' = cib
    BY DEF DoPeInvokeCallback
  <1>2. Current(dc, f) /\ Tracked(dc, sched, cib, p)
    BY DEF Idle
  <1>3. dc \in Controllers /\ ~dc.busy /\ ~Busy(dc) /\ ~Running(dc)
    BY <1>1, AtEase
  <1>4. ASSUME NEW x, dc' = x, Current(x, f) /\ Tracked(x, sched', cib, p)
                             /\ x.version = dc.version /\ x.busy = dc.busy /\ x.cur = dc.cur
        PROVE  Idle'
    BY <1>1, <1>4, TakeIdle
  <1>5. /\ Current(e, f) /\ Tracked(e, sched, cib, p)
        /\ e.version = dc.version /\ e.busy = dc.busy /\ e.cur = dc.cur
    <2> HIDE DEF p, f
    <2> QED BY <1>1, <1>2, ErrorKeeps DEF Exits
  <1>6. /\ t \in Controllers /\ Alike(dc, t) /\ t.ref = dc.ref /\ t.queue = dc.queue
    <2>1. t \in Controllers
      BY <1>3, Zenon DEF Controllers
    <2> QED BY <1>3, <2>1, Zenon DEF Controllers, Alike
  <1> HIDE DEF e, t
  <1>7. Mild(dc, t)
    <2>1. dc.queue \in Seq(Msgs)
      BY <1>3 DEF Controllers
    <2> QED BY <1>6, <2>1, GrowsSame DEF Mild, Tracks
  <1>8. /\ Current(t, f) /\ Tracked(t, sched, cib, p)
        /\ t.version = dc.version /\ t.busy = dc.busy /\ t.cur = dc.cur
    <2> HIDE DEF p, f
    <2> QED BY <1>2, <1>3, <1>7, MildStep DEF Mild, Alike
  <1>9. \/ sched' = sched /\ dc' \in {dc, e, t}
        \/ /\ dc.connected /\ dc.state = "S_POLICY_ENGINE"
           /\ \E ref \in NewRefs :
                /\ sched' = Append(sched, [ref |-> ref, version |-> Head(pipe).version])
                /\ dc' = ExpectReply(dc, ref)
    BY Zenon DEF DoPeInvokeCallback, e, t
  <1>10. CASE sched' = sched /\ dc' \in {dc, e, t}
    <2> HIDE DEF p, f
    <2> QED BY <1>2, <1>4, <1>5, <1>8, <1>10
  <1>11. ASSUME dc.connected, dc.state = "S_POLICY_ENGINE", NEW ref \in NewRefs,
                sched' = Append(sched, [ref |-> ref, version |-> Head(pipe).version]),
                dc' = ExpectReply(dc, ref)
         PROVE  Idle'
    <2> DEFINE x == ExpectReply(dc, ref)
               r == [ref |-> ref, version |-> Head(pipe).version]
    <2>1. /\ Alike(dc, x) /\ x.ref = ref /\ x.queue = dc.queue
      BY <1>3 DEF ExpectReply, Controllers, Alike
    <2>2. /\ sched \in Seq(Requests) /\ Head(pipe) \in CibMsgs /\ ref \in Nat
          /\ r.ref = ref /\ r.version = Head(pipe).version /\ sched' = Append(sched, r)
      <3>1. ref \in Nat
        BY DEF NewRefs
      <3>2. Head(pipe) \in CibMsgs /\ sched \in Seq(Requests)
        BY <1>1 DEF Shape
      <3>3. r.ref = ref /\ r.version = Head(pipe).version
        OBVIOUS
      <3> QED BY <1>11, <3>1, <3>2, <3>3, Zenon
    <2>3. r \in Requests
      BY <2>2, Zenon DEF Requests, CibMsgs
    <2>4. /\ \A i \in DOMAIN sched : sched[i].ref # ref
          /\ \A j \in DOMAIN dc.queue : dc.queue[j].data.ref # ref
      BY DEF NewRefs, UsedRefs
    <2> HIDE DEF x, r
    <2>5. \A i \in DOMAIN sched' :
            \/ i \in DOMAIN sched /\ sched'[i] = sched[i]
            \/ i = Len(sched) + 1 /\ sched'[i] = r
      BY <2>2, <2>3
    <2>6. \A i \in DOMAIN sched' : sched'[i].ref = ref => i = Len(sched) + 1 /\ sched'[i] = r
      BY <2>4, <2>5
    <2>7. Single(sched', dc.queue, ref) /\ Last(dc.queue, ref)
      BY <2>4, <2>6 DEF Single, Last
    <2>8. Fresh(r.version, cib, p)
      <3>1. /\ Fresh(Head(pipe).version, cib, DiffComing(pipe'))
            /\ DiffComing(pipe') <=> DiffComing(pipe)
        BY <1>1, PipeTail, Zenon DEF Shape, Idle
      <3> QED BY <2>2, <3>1 DEF Fresh
    <2>9. AllFresh(sched', dc.queue, ref, cib, p)
      BY <2>4, <2>6, <2>8 DEF AllFresh
    <2>10. ~Busy(x) /\ ~Carried(x)
      BY <1>3, <2>1 DEF Busy, Carried, Alike
    <2>11. Tracked(x, sched', cib, p)
      BY <1>11, <2>1, <2>7, <2>9, <2>10, Zenon DEF Tracked, Alike
    <2>12. Current(x, f)
      BY <1>2, <2>1, AlikeCurrent, GrowsSame DEF f
    <2> QED BY <1>4, <1>11, <2>1, <2>11, <2>12, Zenon DEF Alike, x
  <1> QED BY <1>9, <1>10, <1>11, Zenon

-----------------------------------------------------------------------------
(* The scheduler *)

LEMMA AnsweredTracked ==
  ASSUME NEW d, NEW s \in Seq(Requests), s # <<>>, NEW c, NEW p, Tracked(d, s, c, p)
  PROVE  Tracked(d, Tail(s), c, p)
  <1>1. \A i \in DOMAIN Tail(s) : i + 1 \in DOMAIN s /\ Tail(s)[i] = s[i + 1] /\ i \in Nat
    OBVIOUS
  <1>2. ASSUME Single(s, d.queue, d.ref) PROVE Single(Tail(s), d.queue, d.ref)
    <2>1. ASSUME NEW i \in DOMAIN Tail(s), NEW j \in DOMAIN Tail(s),
                 Tail(s)[i].ref = d.ref, Tail(s)[j].ref = d.ref
          PROVE  i = j
      <3>1. i + 1 = j + 1
        BY <1>1, <1>2, <2>1, Zenon DEF Single
      <3> QED BY <1>1, <3>1
    <2> QED BY <1>1, <1>2, <2>1, Zenon DEF Single
  <1>3. Awaited(Tail(s), d.queue, d.ref) => Awaited(s, d.queue, d.ref)
    BY <1>1 DEF Awaited
  <1>4. AllFresh(s, d.queue, d.ref, c, p) => AllFresh(Tail(s), d.queue, d.ref, c, p)
    BY <1>1 DEF AllFresh
  <1> QED BY <1>2, <1>3, <1>4, Zenon DEF Tracked

(* The answer that is waited for comes into the queue. *)
LEMMA ReplyTracked ==
  ASSUME NEW d \in Controllers, ~Busy(d), NEW s \in Seq(Requests), s # <<>>,
         Head(s).ref = d.ref, NEW c, NEW p, Tracked(d, s, c, p),
         NEW m, m.input = "I_PE_SUCCESS", m.data.version = Head(s).version,
         NEW e \in Controllers, ~Busy(e), e.ref = d.ref, e.connected = d.connected,
         e.state = d.state, Appended(d.queue, m, e.queue)
  PROVE  Tracked(e, Tail(s), c, p)
  <1> SUFFICES ASSUME d.ref # NoRef PROVE Tracked(e, Tail(s), c, p)
    BY ForgottenTracked
  <1>1. d.queue \in Seq(Msgs) /\ e.queue \in Seq(Msgs)
    BY DEF Controllers
  <1>2. /\ \A i \in DOMAIN Tail(s) : i + 1 \in DOMAIN s /\ Tail(s)[i] = s[i + 1] /\ i \in Nat
                                     /\ i + 1 # 1
        /\ 1 \in DOMAIN s /\ s[1] = Head(s)
    OBVIOUS
  <1>3. d.connected /\ Single(s, d.queue, d.ref) /\ Awaited(s, d.queue, d.ref)
    BY <1>2, Zenon DEF Tracked, Awaited
  <1>4. d.state # "S_TRANSITION_ENGINE"
    BY <1>3, Zenon DEF Tracked
  <1>5. \A i \in DOMAIN Tail(s) : Tail(s)[i].ref # d.ref
    BY <1>2, <1>3 DEF Single
  <1>6. \A j \in DOMAIN d.queue : d.queue[j].data.ref # d.ref
    BY <1>2, <1>3 DEF Single
  <1>7. ASSUME NEW j \in DOMAIN e.queue, e.queue[j].data.ref = d.ref
        PROVE  j = Len(d.queue) + 1 /\ e.queue[j] = m
    <2>1. \A i \in DOMAIN e.queue : \/ i \in DOMAIN d.queue /\ e.queue[i] = d.queue[i]
                                    \/ i = Len(d.queue) + 1 /\ e.queue[i] = m
      BY <1>1, AppendedIs
    <2> QED BY <1>6, <1>7, <2>1, Zenon
  <1>8. Single(Tail(s), e.queue, e.ref)
    BY <1>5, <1>7 DEF Single
  <1>9. Last(e.queue, e.ref)
    <2>1. \A i \in Ends(e.queue) : i \in DOMAIN d.queue
      BY <1>1, EndsAppend
    <2>2. \A i \in DOMAIN d.queue : i < Len(d.queue) + 1
      BY <1>1, AppendedIs, Zenon
    <2> QED BY <1>7, <2>1, <2>2 DEF Last
  <1>10. ~Carried(e) /\ ~Carried(d)
    BY DEF Carried
  <1>11. ASSUME d.state \in Working PROVE AllFresh(Tail(s), e.queue, e.ref, c, p)
    <2>1. AllFresh(s, d.queue, d.ref, c, p)
      BY <1>11 DEF Tracked
    <2>2. Fresh(m.data.version, c, p)
      BY <1>2, <2>1 DEF AllFresh
    <2> QED BY <1>5, <1>7, <2>2 DEF AllFresh
  <1> QED BY <1>3, <1>4, <1>8, <1>9, <1>10, <1>11, Zenon DEF Tracked

LEMMA ReplyIdle ==
  ASSUME Shape, Idle, HandleReply
  PROVE  Idle'
  <1> DEFINE p == DiffComing(pipe)
             f == Fresh(dc.version, cib, p)
  <1>1. /\ Ready /\ sched # <<>> /\ sched' = Tail(sched) /\ UNCHANGED <<cib, pipe>>
    BY DEF HandleReply
  <1>2. Current(dc, f) /\ Tracked(dc, sched, cib, p) /\ PipeFresh'
    BY <1>1 DEF Idle, PipeFresh
  <1>3. dc \in Controllers /\ ~dc.busy /\ ~Busy(dc)
    BY <1>1, AtEase
  <1>4. sched \in Seq(Requests) /\ Head(sched) \in Requests
    BY <1>1 DEF Shape
  <1>5. ASSUME NEW x, dc' = x, Current(x, f), Tracked(x, sched', cib, p),
               x.version = dc.version, x.busy = dc.busy, x.cur = dc.cur
        PROVE  Idle'
    BY <1>1, <1>2, <1>5, IdleFrom
  <1> HIDE DEF p, f
  <1>6. CASE Head(sched).ref # dc.ref
    <2>1. dc' = dc
      BY <1>6 DEF HandleReply
    <2>2. Tracked(dc, sched', cib, p)
      BY <1>1, <1>2, <1>4, AnsweredTracked
    <2> QED BY <1>2, <1>5, <2>1, <2>2
  <1>7. CASE Head(sched).ref = dc.ref
    <2> DEFINE d == [dc EXCEPT !.timer = FALSE]
               g == GraphData(Head(sched).ref, Head(sched).version)
               m == Msg("I_PE_SUCCESS", g, {})
               e == FsaAppend(d, "I_PE_SUCCESS", g)
    <2>1. dc' = e
      BY <1>7 DEF HandleReply
    <2>2. d \in Controllers
      BY <1>3, Zenon DEF Controllers
    <2>3. Alike(dc, d) /\ d.ref = dc.ref /\ d.queue = dc.queue
      BY <1>3 DEF Alike, Controllers
    <2>4. g \in Data /\ g.version = Head(sched).version
      BY <1>4 DEF Requests, GraphData, Data
    <2> HIDE DEF d, g
    <2>5. /\ "I_PE_SUCCESS" \in Inputs /\ m \in Msgs /\ ~Stopping(m)
          /\ m.input = "I_PE_SUCCESS" /\ m.data = g
      BY <2>4, InputSet, MsgPlain
    <2>6. /\ e \in Controllers /\ Alike(d, e) /\ e.ref = d.ref
          /\ Appended(d.queue, m, e.queue)
      BY <2>2, <2>4, <2>5, AppendFields
    <2> HIDE DEF m, e
    <2>7. Alike(dc, e) /\ e.ref = dc.ref /\ Appended(dc.queue, m, e.queue)
      BY <2>3, <2>6, AlikeTrans
    <2>8. ~Busy(e)
      BY <1>3, <2>7 DEF Busy, Alike
    <2>9. Tracked(e, sched', cib, p)
      BY <1>1, <1>2, <1>3, <1>4, <1>7, <2>4, <2>5, <2>6, <2>7, <2>8, ReplyTracked, Zenon DEF Alike
    <2>10. Grows(dc.state, dc.queue, e.queue)
      <3>1. dc.queue \in Seq(Msgs) /\ e.queue \in Seq(Msgs)
        BY <1>3, <2>6 DEF Controllers
      <3> QED BY <2>5, <2>7, <3>1, KeepsAppend
    <2>11. Current(e, f)
      BY <1>2, <2>7, <2>10, AlikeCurrent
    <2> QED BY <1>5, <2>1, <2>7, <2>9, <2>11 DEF Alike
  <1> QED BY <1>6, <1>7

LEMMA DisconnectIdle ==
  ASSUME Shape, Idle, HandleDisconnect
  PROVE  Idle'
  <1> DEFINE p == DiffComing(pipe)
             f == Fresh(dc.version, cib, p)
             e == dc'
  <1>1. /\ Ready /\ UNCHANGED <<cib, pipe>>
        /\ dc' = SetTrigger([ExpectReply(dc, NoRef) EXCEPT !.connected = FALSE,
                                                         !.asked = Append(@, "saved")])
    BY DEF HandleDisconnect
  <1>2. Current(dc, f) /\ PipeFresh'
    BY <1>1 DEF Idle, PipeFresh
  <1>3. dc \in Controllers /\ ~dc.busy /\ ~Busy(dc) /\ ~Running(dc)
    BY <1>1, AtEase
  <1>4. /\ e.state = dc.state /\ e.queue = dc.queue /\ e.acts = dc.acts /\ e.ref = NoRef
        /\ e.complete = dc.complete /\ e.action = dc.action /\ e.delay = dc.delay
        /\ e.version = dc.version /\ e.busy = dc.busy /\ e.cur = dc.cur
    BY <1>1, <1>3 DEF SetTrigger, ExpectReply, Controllers
  <1>5. ~Busy(e)
    BY <1>3, <1>4 DEF Busy
  <1> HIDE DEF f, p
  <1>6. InIdle(e, f) /\ InGraph(e) /\ StopsKept(e)
    BY <1>2, <1>3, <1>4, <1>5, Zenon DEF Current, InIdle, CalcDue, InGraph, StopsKept
  <1>7. InEngine(e, f)
    BY <1>2, <1>3, <1>4, <1>5, Zenon DEF Current, InEngine, CalcDue
  <1>8. InPolicy(e)
    BY <1>2, <1>3, <1>4, <1>5, Zenon DEF Current, InPolicy
  <1>9. Current(e, f)
    BY <1>6, <1>7, <1>8 DEF Current
  <1>10. Tracked(e, sched', cib, p)
    BY <1>4, ForgottenTracked
  <1> QED BY <1>1, <1>2, <1>4, <1>9, <1>10, IdleFrom DEF f, p

LEMMA IdleNext == Shape /\ Idle /\ [Next]_vars => Idle'
  <1> SUFFICES ASSUME Shape, Idle, [Next]_vars PROVE Idle'
    OBVIOUS
  <1>1. CASE FsaBegin \/ FsaInput \/ FsaAction
    BY <1>1, FsaBeginIdle, FsaInputIdle, FsaActionIdle
  <1>2. CASE CibChange \/ CibAnswer \/ UpdateAnswer \/ UpdateSent
    BY <1>2, CibManagerIdle
  <1>3. CASE FromCib
    BY <1>3, DiffIdle, AnswersIdle, CibCallbackIdle DEF FromCib
  <1>4. CASE HandleReply \/ HandleDisconnect \/ SchedTimeout
    BY <1>4, ReplyIdle, DisconnectIdle, TimeoutIdle
  <1>5. CASE SleepTimer \/ TransitionTimer \/ RecheckTimer
    BY <1>5, TimersIdle
  <1>6. CASE GraphCompletes \/ GraphTriggeredLate
    BY <1>6, GraphIdle
  <1>7. CASE NodeJoin \/ CheckJoinState \/ ElectionCalled \/ ElectionWon
    BY <1>7, MembershipIdle
  <1>8. CASE UNCHANGED vars
    <2>1. UNCHANGED <<dc, cib, pipe, sched>>
      BY <1>8 DEF vars
    <2> QED BY <2>1, QuietIdle DEF Idle
  <1> QED
    BY <1>1, <1>2, <1>3, <1>4, <1>5, <1>6, <1>7, <1>8 DEF Next, Daemons, Environment, Rest
================================================================================
