------------------------ MODULE TransitionGraphLimits ------------------------
(***************************************************************************)
(* Job accounting and limits of TransitionGraph, for every set of nodes,   *)
(* every limit and every set of graphs that satisfy the hypotheses of the  *)
(* theorems.                                                               *)
(***************************************************************************)
EXTENDS TransitionGraphProofs

(* No action of the graph cancels a recurring operation. *)
NoCancels(g) == \A a \in DOMAIN g : g[a].task # "cancel"

(* Resource actions are carried out by other nodes than the DC, cancel     *)
(* nothing, and migrations are not routed through a connection host.       *)
Remote(g) ==
  \A a \in DOMAIN g : g[a].type = "rsc" =>
    /\ g[a].task # "cancel"
    /\ (IF g[a].router = NoNode THEN g[a].node ELSE g[a].router) # LocalNode
    /\ g[a].task = "migrate" => g[a].router = NoNode

-----------------------------------------------------------------------------
(* The inductive invariant *)

(* Resource actions that were sent and are not confirmed: those in flight  *)
(* and those that were written off with their node.                        *)
Occupied == {a \in executed \ actConfirmed : IsRsc(a)}
OccupiedOn(n) == {a \in Occupied : n \in Charged(a)}
MigratingOn(n) == {a \in OccupiedOn(n) : IsMigration(a)}

(* An executed action that was confirmed is not in flight. *)
Separate == executed \cap actConfirmed \subseteq synConfirmed \cup synFailed

(* The pass counts at least what is in flight. *)
PassCounts == cursor # 0 => Cardinality(InFlight) <= pending

LoadOK ==
  \A n \in Nodes : /\ jobs[n] = Cardinality(OccupiedOn(n))
                   /\ migrateJobs[n] = Cardinality(MigratingOn(n))

-----------------------------------------------------------------------------
(* How a step changes what is in flight *)

(* A synapse is fired and its result is waited for. *)
Sends(s) ==
  /\ Fires(s) /\ s \in Ids /\ s \notin InFlight
  /\ InFlight' = InFlight \cup {s} /\ pending' = pending + 1
  /\ cursor' # 0

(* No step but those that send something adds to what is in flight. *)
Settles ==
  /\ InFlight' \subseteq InFlight
  /\ cursor' # 0 => cursor # 0 /\ pending' = pending

(* Updating the graph takes confirmed actions out of flight, and puts none *)
(* there but those just executed.                                          *)
LEMMA UpdateGraphFlight ==
  ASSUME NEW A, NEW ex, NEW cf, NEW fl, NEW sf, UpdateGraph(A, ex, cf, fl, sf)
  PROVE  /\ Separate'
         /\ InFlight' = (ex \ (synConfirmed \cup sf)) \ (A \cup cf)
         /\ executed' = ex
         /\ actConfirmed' = cf \cup (A \cap (ex \ (synConfirmed \cup sf)))
  BY DEF UpdateGraph, Separate, InFlight

(* Firing a synapse sends it, or leaves nothing more in flight. *)
LEMMA FiringFlight ==
  ASSUME Inv, NEW s \in Ids, FireSynapse(s)
  PROVE  Sends(s) \/ Settles
<1>1. ASSUME Fires(s), AwaitResult(s), Fired(TRUE) PROVE Sends(s)
  <2>1. /\ s \notin InFlight /\ cursor' = cursor + 1 /\ pending' = pending + 1
    <3>1. s \notin executed
      BY <1>1, FiringSynapse
    <3>2. cursor' = cursor + 1 /\ pending' = pending + 1
      BY <1>1 DEF Fired
    <3> QED
      BY <3>1, <3>2 DEF InFlight
  <2>3. cursor' # 0
    BY <2>1, SMT DEF Inv, TypeOK
  <2>2. InFlight' = InFlight \cup {s}
    BY <1>1, FiringSynapse DEF AwaitResult, InFlight
  <2> QED
    BY <1>1, <2>1, <2>2, <2>3 DEF Sends
<1>2. ASSUME NEW fl, Fires(s), ConfirmFired(s, fl), Fired(FALSE) PROVE Settles
  <2>1. UpdateGraph({s}, executed \cup {s}, actConfirmed \cup {s}, fl, synFailed)
    BY <1>2 DEF ConfirmFired
  <2>2. InFlight' \subseteq InFlight
    BY <2>1, UpdateGraphFlight DEF InFlight
  <2>3. cursor # 0 /\ pending' = pending
    BY <1>2, FiringSynapse DEF Fired, Inv, TypeOK
  <2> QED
    BY <2>2, <2>3 DEF Settles
<1>3. CASE FireSent(s) \/ FireAlreadyConfirmed(s) \/ FireFence(s)
  BY <1>1, <1>3 DEF FireSent, FireAlreadyConfirmed, FireFence
<1>4. CASE FirePseudo(s) \/ FireNoWait(s) \/ FireLocalShutdown(s)
  BY <1>2, <1>4 DEF FirePseudo, FireNoWait, FireLocalShutdown
<1>5. CASE \E ok \in BOOLEAN : FireLocalAck(s, ok)
  BY <1>2, <1>5 DEF FireLocalAck
<1>6. CASE FireSendFailed(s)
  <2>1. Fires(s)
    BY <1>6 DEF FireSendFailed
  <2> QED
    BY <1>6, <2>1, FiringSynapse DEF FireSendFailed, Settles, InFlight
<1> QED
  BY <1>3, <1>4, <1>5, <1>6 DEF FireSynapse

(* Events put nothing in flight. *)
LEMMA EventFlight ==
  ASSUME Inv, Event
  PROVE  InFlight' \subseteq InFlight /\ cursor' = 0
<1>1. ASSUME UNCHANGED flags PROVE InFlight' \subseteq InFlight
  BY <1>1 DEF flags, InFlight
<1>2. ASSUME NEW A, NEW cf, NEW fl, NEW sf, synFailed \subseteq sf,
             UpdateGraph(A, executed, cf, fl, sf)
      PROVE  InFlight' \subseteq InFlight
  BY <1>2, UpdateGraphFlight DEF InFlight
<1>3. ASSUME NEW a, NEW fl, TeActionConfirmed(a, fl) PROVE InFlight' \subseteq InFlight
  BY <1>2, <1>3 DEF TeActionConfirmed
<1>4. ASSUME NEW n, FailIncompletable(n) PROVE InFlight' \subseteq InFlight
  BY <1>2, <1>4 DEF FailIncompletable
<1>5. ASSUME Idle, UNCHANGED pass PROVE cursor' = 0
  BY <1>5 DEF Idle, pass
<1>6. ASSUME NEW a \in Ids, \/ \E ok \in BOOLEAN : ActionResult(a, ok)
                           \/ ActionTimeout(a) \/ OperationGone(a)
      PROVE  InFlight' \subseteq InFlight /\ cursor' = 0
  BY <1>1, <1>3, <1>5, <1>6 DEF ActionResult, ActionTimeout, OperationGone
<1>7. ASSUME NEW a \in Ids, FenceResult(a)
      PROVE  InFlight' \subseteq InFlight /\ cursor' = 0
  BY <1>2, <1>5, <1>7 DEF FenceResult, FenceSucceeded, FenceFailed
<1>8. ASSUME NEW n \in Nodes, UnexpectedNodeLoss(n) \/ ReapDeadNode(n)
      PROVE  InFlight' \subseteq InFlight /\ cursor' = 0
  <2>1. Idle /\ UNCHANGED pass /\ (UNCHANGED flags \/ FailIncompletable(n))
    BY <1>8 DEF UnexpectedNodeLoss, ReapDeadNode
  <2> QED
    BY <1>1, <1>4, <1>5, <2>1
<1>9. ASSUME NEW n \in Nodes, ExpectedNodeLoss(n)
      PROVE  InFlight' \subseteq InFlight /\ cursor' = 0
  <2>1. /\ Idle /\ UNCHANGED pass
        /\ \/ UNCHANGED flags
           \/ \E down : UpdateGraph({down}, executed, actConfirmed, actFailed, synFailed)
    BY Zenon, <1>9 DEF ExpectedNodeLoss
  <2> QED
    BY <1>1, <1>2, <1>5, <2>1
<1>10. CASE FencerLost
  <2>1. /\ Idle /\ UNCHANGED pass
        /\ \E lost, fl : UpdateGraph(lost, executed, actConfirmed, fl, synFailed)
    BY Zenon, <1>10 DEF FencerLost
  <2> QED
    BY <1>2, <1>5, <2>1
<1>11. CASE \/ \E r \in results : LateResult(r[1], r[2]) \/ ResultLost(r[1], r[2])
            \/ \E next \in {"wait", "restart"} : ExternalAbort(next)
            \/ \E n \in Nodes : \E level \in Modes : ThrottleUpdate(n, level)
  <2>1. Idle /\ UNCHANGED pass /\ UNCHANGED flags
    BY Zenon, <1>11 DEF LateResult, ResultLost, ExternalAbort, ThrottleUpdate
  <2> QED
    BY <1>1, <1>5, <2>1
<1> QED
  BY <1>6, <1>7, <1>8, <1>9, <1>10, <1>11 DEF Event

(* What a step does to what is in flight, and to the count of the pass. *)
LEMMA StepFlight ==
  ASSUME Inv, [Next]_vars
  PROVE  \/ \E s \in Ids : Sends(s) /\ FireSynapse(s)
         \/ Settles
         \/ BeginPass
<1>1. ASSUME NEW s \in Ids, FireSynapse(s) PROVE Sends(s) \/ Settles
  BY <1>1, FiringFlight
<1>2. CASE RenotifyComplete \/ ThrottlePass \/ SkipSynapse \/ EndPass
  <2>1. InFlight' = InFlight
    BY <1>2 DEF RenotifyComplete, ThrottlePass, SkipSynapse, EndPass, flags, InFlight
  <2>2. cursor' # 0 => cursor # 0 /\ pending' = pending
    BY <1>2 DEF RenotifyComplete, ThrottlePass, SkipSynapse, EndPass, pass, InPass, Ids
  <2> QED
    BY <2>1, <2>2 DEF Settles
<1>3. CASE Event
  BY <1>3, EventFlight DEF Settles
<1>4. CASE \E g \in Graphs : StartTransition(g)
  <2>1. InFlight' = {} /\ cursor' = 0
    BY <1>4 DEF StartTransition, InFlight, pass
  <2> QED
    BY <2>1 DEF Settles
<1>5. CASE UNCHANGED vars
  BY <1>5 DEF vars, flags, pass, InFlight, Settles
<1> QED
  BY <1>1, <1>2, <1>3, <1>4, <1>5 DEF Next, Pass

-----------------------------------------------------------------------------
(* The count of a pass *)

(* What is in flight is finite. *)
LEMMA InFlightFinite ==
  ASSUME Inv
  PROVE  IsFiniteSet(InFlight)
<1>1. InFlight \subseteq 1 .. Len(graph) /\ Len(graph) \in Nat
  BY IdsType DEF InFlight, Inv, TypeOK
<1>2. IsFiniteSet(1 .. Len(graph))
  BY <1>1, FS_Interval
<1> QED
  BY Zenon, <1>1, <1>2, FS_Subset

(* Every step preserves that the pass counts what is in flight. *)
LEMMA NextPassCounts == Inv /\ PassCounts /\ [Next]_vars => PassCounts'
<1> SUFFICES ASSUME Inv, PassCounts, [Next]_vars, cursor' # 0
             PROVE  Cardinality(InFlight') <= pending'
  BY DEF PassCounts
<1>1. IsFiniteSet(InFlight) /\ Cardinality(InFlight) \in Nat /\ pending \in Nat
  BY InFlightFinite, InFlightCount DEF Inv, TypeOK
<1>2. ASSUME NEW s \in Ids, Sends(s) PROVE Cardinality(InFlight') <= pending'
  <2>1. cursor # 0
    BY <1>2, FiringSynapse DEF Sends
  <2>2. Cardinality(InFlight \cup {s}) = Cardinality(InFlight) + 1
    BY <1>1, <1>2, FS_AddElement DEF Sends
  <2> QED
    BY <1>1, <1>2, <2>1, <2>2 DEF Sends, PassCounts
<1>3. CASE Settles
  <2>1. InFlight' \in SUBSET InFlight
    BY <1>3 DEF Settles
  <2>2. Cardinality(InFlight') <= Cardinality(InFlight) /\ IsFiniteSet(InFlight')
    BY Zenon, <1>1, <2>1, FS_Subset
  <2>3. Cardinality(InFlight') \in Nat
    BY <2>2, FS_CardinalityType
  <2> QED
    BY <1>1, <1>3, <2>2, <2>3 DEF Settles, PassCounts
<1>4. CASE BeginPass
  <2>1. InFlight' = InFlight /\ pending' = Cardinality(InFlight)
    BY <1>4 DEF BeginPass, flags, InFlight
  <2> QED
    BY <1>1, <2>1
<1> QED
  BY <1>2, <1>3, <1>4, StepFlight

(* The batch limit of a pass is an integer. *)
LEMMA TotalType == TotalJobLimit \in Int
<1>1. Cardinality(Nodes) \in Nat
  BY NodesAssumption, FS_CardinalityType
<1> QED
  BY <1>1, LimitsAssumption DEF TotalJobLimit, Max2

(* A pass never counts less than what is in flight, in every graph. *)
LEMMA PassCountsHold == Spec => []PassCounts
<1>1. Init => PassCounts
  BY DEF Init, PassCounts
<1> QED
  BY <1>1, NextPassCounts, Invariance, PTL DEF Spec

(* Batch limit (pcmk__execute_graph, throttle_get_total_job_limit): in     *)
(* every graph, a synapse is only sent while fewer synapses are in flight  *)
(* than the limit of the pass allows, although actions that are confirmed  *)
(* in the middle of a pass make its count of pending ones too high.        *)
THEOREM BatchLimitHolds ==
  Spec => [][TotalJobLimit > 0 /\ ~(InFlight' \subseteq InFlight)
               => Cardinality(InFlight') <= TotalJobLimit]_vars
<1> DEFINE A == TotalJobLimit > 0 /\ ~(InFlight' \subseteq InFlight)
                  => Cardinality(InFlight') <= TotalJobLimit
<1>1. Inv /\ PassCounts /\ [Next]_vars => [A]_vars
  <2> SUFFICES ASSUME Inv, PassCounts, [Next]_vars, TotalJobLimit > 0,
                      ~(InFlight' \subseteq InFlight)
               PROVE  Cardinality(InFlight') <= TotalJobLimit
    OBVIOUS
  <2>1. PICK s \in Ids : Sends(s)
    <3>1. BeginPass => InFlight' = InFlight
      BY DEF BeginPass, flags, InFlight
    <3> QED
      BY <3>1, StepFlight DEF Settles
  <2>2. cursor # 0 /\ pending < TotalJobLimit
    <3>1. cursor # 0
      BY <2>1, FiringSynapse DEF Sends
    <3>2. ~BatchLimitReached
      BY <2>1 DEF Sends, Fires
    <3>3. TotalJobLimit \in Int /\ pending \in Nat
      BY TotalType DEF Inv, TypeOK
    <3> QED
      BY <3>1, <3>2, <3>3 DEF BatchLimitReached
  <2>3. IsFiniteSet(InFlight) /\ Cardinality(InFlight) \in Nat /\ pending \in Nat
    BY InFlightFinite, InFlightCount DEF Inv, TypeOK
  <2>4. Cardinality(InFlight \cup {s}) = Cardinality(InFlight) + 1
    BY <2>1, <2>3, FS_AddElement DEF Sends
  <2>5. TotalJobLimit \in Int
    BY TotalType
  <2> QED
    BY <2>1, <2>2, <2>3, <2>4, <2>5 DEF Sends, PassCounts
<1> QED
  BY <1>1, Invariance, PassCountsHold, PTL DEF Spec

-----------------------------------------------------------------------------
(* Requests in flight are watched *)

(* In graphs without cancels no action is confirmed before it is fired. *)
LEMMA ConfirmedIsExecuted ==
  ASSUME \A g \in Graphs : NoCancels(g), Inv
  PROVE  actConfirmed \subseteq executed /\ \A a \in Ids : graph[a].task # "cancel"
<1>1. \A a \in Ids : graph[a].task # "cancel"
  BY DEF NoCancels, Inv, TypeOK, Ids
<1> QED
  BY <1>1 DEF Inv, FlagsOK

Watched(a) == a \in timers \/ (graph[a].type = "fence" /\ <<gid, a>> \in results)

(* Firing a synapse keeps what is in flight watched. *)
LEMMA FiringWatched ==
  ASSUME \A g \in Graphs : NoCancels(g), Inv, InFlightIsWatched,
         NEW s \in Ids, FireSynapse(s)
  PROVE  InFlightIsWatched'
<1>1. Fires(s) /\ gid' = gid /\ graph' = graph
      /\ timers \subseteq timers' /\ results \subseteq results'
  BY DEF FireSynapse, FirePseudo, FireSent, FireAlreadyConfirmed, FireNoWait,
         FireLocalShutdown, FireFence, FireSendFailed, FireLocalAck, Fired, AwaitResult
<1>2. \A a \in InFlight : Watched(a)'
  BY <1>1 DEF InFlightIsWatched, Watched
<1>3. CASE Sends(s)
  <2>1. FireSent(s) \/ FireAlreadyConfirmed(s) \/ FireFence(s)
    <3>1. ASSUME NEW fl, Fired(FALSE) PROVE FALSE
      BY <1>3, <3>1 DEF Sends, Fired, Inv, TypeOK
    <3>2. ~FireSendFailed(s)
      BY <1>3 DEF FireSendFailed, Sends, Inv, TypeOK
    <3> QED
      BY <3>1, <3>2 DEF FireSynapse, FirePseudo, FireNoWait, FireLocalShutdown, FireLocalAck
  <2>2. ~FireAlreadyConfirmed(s)
    BY <1>1, ConfirmedIsExecuted, FiringSynapse DEF FireAlreadyConfirmed
  <2>3. Watched(s)'
    BY <1>1, <2>1, <2>2 DEF FireSent, FireFence, AwaitResult, Watched
  <2> QED
    BY <1>2, <1>3, <2>3 DEF Sends, InFlightIsWatched, Watched
<1>4. CASE Settles
  BY <1>2, <1>4 DEF Settles, InFlightIsWatched, Watched
<1> QED
  BY <1>3, <1>4, FiringFlight

(* An event that takes an action's timer, or its answer, takes it out of   *)
(* flight too.                                                             *)
LEMMA EventWatched ==
  ASSUME Inv, InFlightIsWatched, Event
  PROVE  InFlightIsWatched'
<1>1. gid' = gid /\ graph' = graph /\ complete' = complete
  BY EventShape DEF EndingStep
<1>2. InFlight' \subseteq InFlight
  BY EventFlight
<1>3. SUFFICES ASSUME NEW a \in InFlight', ~Watched(a)' PROVE FALSE
  BY DEF InFlightIsWatched, Watched
<1>4. a \in InFlight /\ Watched(a) /\ a \in Ids /\ ~complete
  BY <1>2, <1>3 DEF InFlightIsWatched, Watched, InFlight, Inv, TypeOK, PassOK
<1>5. \/ a \in timers /\ a \notin timers'
      \/ graph[a].type = "fence" /\ <<gid, a>> \in results /\ <<gid, a>> \notin results'
  BY <1>1, <1>3, <1>4 DEF Watched
<1>6. ASSUME NEW b, NEW fl, TeActionConfirmed(b, fl), timers' = timers \ {b},
             results' = results
      PROVE  FALSE
  <2>1. UpdateGraph({b}, executed, actConfirmed \cup {b}, fl, synFailed)
    BY <1>6 DEF TeActionConfirmed
  <2>2. b \notin InFlight'
    BY <2>1, UpdateGraphFlight
  <2> QED
    BY <1>3, <1>5, <1>6, <2>2
<1>7. ASSUME timers' = timers, results' = results PROVE FALSE
  BY <1>5, <1>7
<1>8. ASSUME NEW b \in Ids, \/ \E ok \in BOOLEAN : ActionResult(b, ok)
                           \/ ActionTimeout(b) \/ OperationGone(b)
      PROVE  FALSE
  <2>1. CASE \E ok \in BOOLEAN : ActionResult(b, ok)
    BY <1>6, <2>1 DEF ActionResult
  <2>2. CASE ActionTimeout(b)
    BY <1>4, <1>6, <2>2 DEF ActionTimeout
  <2>3. CASE OperationGone(b)
    BY <1>6, <2>3 DEF OperationGone
  <2> QED
    BY <1>8, <2>1, <2>2, <2>3
<1>9. ASSUME NEW b \in Ids, FenceResult(b) PROVE FALSE
  <2>1. /\ timers' = timers /\ results' = results \ {<<gid, b>>}
        /\ \E cf, fl : UpdateGraph({b}, executed, cf, fl, synFailed)
    BY <1>9 DEF FenceResult, FenceSucceeded, FenceFailed
  <2>2. b \notin InFlight'
    BY <2>1, UpdateGraphFlight
  <2> QED
    BY <1>3, <1>5, <2>1, <2>2
<1>10. ASSUME NEW n \in Nodes, UnexpectedNodeLoss(n) \/ ReapDeadNode(n) PROVE FALSE
  <2>1. results' = results /\ FailIncompletable(n)
    BY <1>4, <1>10 DEF UnexpectedNodeLoss, ReapDeadNode
  <2>2. /\ timers' = timers \ Incompletable(n)
        /\ UpdateGraph(Incompletable(n), executed, actConfirmed,
                       actFailed \cup Incompletable(n), synFailed \cup Incompletable(n))
    BY <2>1 DEF FailIncompletable
  <2>3. InFlight' \cap Incompletable(n) = {}
    BY <2>2, UpdateGraphFlight
  <2> QED
    BY <1>3, <1>5, <2>1, <2>2, <2>3
<1>11. ASSUME NEW n \in Nodes, ExpectedNodeLoss(n) PROVE FALSE
  BY <1>7, <1>11 DEF ExpectedNodeLoss
<1>12. CASE FencerLost
  BY <1>7, <1>12 DEF FencerLost
<1>13. CASE \E r \in results : LateResult(r[1], r[2]) \/ ResultLost(r[1], r[2])
  <2>1. PICK r \in results : LateResult(r[1], r[2]) \/ ResultLost(r[1], r[2])
    BY <1>13
  <2>2. /\ timers' = timers /\ results' = results \ {<<r[1], r[2]>>}
        /\ r[1] # gid \/ graph[r[2]].type # "fence"
    BY <1>4, <2>1 DEF LateResult, ResultLost
  <2> QED
    BY <1>5, <2>2
<1>14. CASE \/ \E next \in {"wait", "restart"} : ExternalAbort(next)
            \/ \E n \in Nodes : \E level \in Modes : ThrottleUpdate(n, level)
  BY <1>7, <1>14 DEF ExternalAbort, ThrottleUpdate
<1> QED
  BY <1>8, <1>9, <1>10, <1>11, <1>12, <1>13, <1>14 DEF Event

(* Every step keeps what is in flight watched. *)
LEMMA NextWatched ==
  ASSUME \A g \in Graphs : NoCancels(g), Inv, InFlightIsWatched, [Next]_vars
  PROVE  InFlightIsWatched'
<1>1. ASSUME UNCHANGED <<gid, graph, flags, timers, results>> PROVE InFlightIsWatched'
  BY <1>1 DEF InFlightIsWatched, InFlight, flags
<1>2. CASE BeginPass \/ RenotifyComplete \/ ThrottlePass \/ SkipSynapse \/ EndPass
  BY <1>1, <1>2 DEF BeginPass, RenotifyComplete, ThrottlePass, SkipSynapse, EndPass
<1>3. CASE \E g \in Graphs : StartTransition(g)
  BY <1>3 DEF StartTransition, InFlightIsWatched, InFlight
<1>4. CASE UNCHANGED vars
  BY <1>1, <1>4 DEF vars
<1> QED
  BY <1>2, <1>3, <1>4, FiringWatched, EventWatched DEF Next, Pass

(* Every request in flight is watched by an action timer, or by the fencer *)
(* API that owes an answer (te_start_action_timer, fencing_cb), whatever   *)
(* results, timeouts and losses of nodes and of the fencer come.  Cancels  *)
(* are excepted: one that was confirmed before it is sent is in flight     *)
(* without either (execute_rsc_action, "was already confirmed").           *)
THEOREM RequestsAreWatched ==
  ASSUME \A g \in Graphs : NoCancels(g)
  PROVE  Spec => []InFlightIsWatched
<1>1. Init => InFlightIsWatched
  BY DEF Init, InFlightIsWatched, InFlight
<1>2. Inv /\ InFlightIsWatched /\ [Next]_vars => InFlightIsWatched'
  BY NextWatched
<1> QED
  BY <1>1, <1>2, Invariance, PTL DEF Spec

-----------------------------------------------------------------------------
(* Job accounting *)

(* A step that charges an action to its nodes, one that takes it off, and  *)
(* one that does neither.                                                  *)
Charges(s) ==
  /\ s \in Ids /\ IsRsc(s) /\ s \notin Occupied /\ Fires(s)
  /\ Occupied' = Occupied \cup {s} /\ UpdateJobCount(s, 1)

Releases(a) ==
  /\ a \in Ids /\ a \in Occupied
  /\ Occupied' = Occupied \ {a} /\ UpdateJobCount(a, -1)

Same == Occupied' = Occupied /\ UNCHANGED load

(* What Remote says of the graph at hand. *)
LEMMA RemoteGraph ==
  ASSUME \A g \in Graphs : Remote(g), Inv
  PROVE  \A a \in Ids :
           /\ graph[a].task # "cancel"
           /\ IsRsc(a) => Router(a) # LocalNode
           /\ IsMigration(a) => graph[a].router = NoNode
<1>1. \A a \in Ids : graph[a].task \in {"migrate", "cancel"} => IsRsc(a)
  BY GraphIsWellFormed DEF WellFormedGraph, Inv, TypeOK, Ids, IsRsc
<1> QED
  BY <1>1 DEF Remote, Inv, TypeOK, Ids, IsRsc, Router, IsMigration

(* No action of a remote graph is a cancel. *)
LEMMA RemoteHasNoCancels ==
  ASSUME NEW g \in Graphs, Remote(g)
  PROVE  NoCancels(g)
  BY GraphsAssumption DEF Remote, NoCancels, WellFormedGraph

(* What firing a synapse does to the job counts. *)
LEMMA FiringLoad ==
  ASSUME \A g \in Graphs : Remote(g), Inv, Separate, NEW s \in Ids, FireSynapse(s)
  PROVE  graph' = graph /\ Separate' /\ (Charges(s) \/ Same)
<1>1. graph' = graph /\ Fires(s)
  BY DEF FireSynapse, FirePseudo, FireSent, FireAlreadyConfirmed, FireNoWait,
         FireLocalShutdown, FireFence, FireSendFailed, FireLocalAck, Fired, AwaitResult
<1>2. \A a : IsRsc(a)' = IsRsc(a)
  BY <1>1 DEF IsRsc
<1>3. s \notin executed /\ s \notin actConfirmed /\ s \notin synConfirmed
  <2>1. actConfirmed \subseteq executed
    BY ConfirmedIsExecuted, RemoteHasNoCancels
  <2> QED
    BY <1>1, <2>1, FiringSynapse
<1>4. ASSUME AwaitResult(s)
      PROVE  /\ Separate'
             /\ Occupied' = IF IsRsc(s) THEN Occupied \cup {s} ELSE Occupied
  BY <1>2, <1>3, <1>4 DEF AwaitResult, Occupied, Separate
<1>5. ASSUME NEW fl, ConfirmFired(s, fl) PROVE Separate' /\ Occupied' = Occupied
  <2>1. UpdateGraph({s}, executed \cup {s}, actConfirmed \cup {s}, fl, synFailed)
    BY <1>5 DEF ConfirmFired
  <2>2. Separate' /\ executed' = executed \cup {s} /\ actConfirmed' = actConfirmed \cup {s}
    BY <2>1, UpdateGraphFlight
  <2> QED
    BY <1>2, <1>3, <2>2 DEF Occupied
<1>6. CASE FireSent(s)
  BY <1>1, <1>3, <1>4, <1>6 DEF FireSent, Charges, Same, Occupied
<1>7. CASE FireFence(s)
  BY <1>1, <1>4, <1>7 DEF FireFence, Same, IsRsc
<1>8. CASE FireAlreadyConfirmed(s)
  BY <1>3, <1>8 DEF FireAlreadyConfirmed
<1>9. CASE FirePseudo(s) \/ FireNoWait(s) \/ FireLocalShutdown(s)
  BY <1>1, <1>5, <1>9 DEF FirePseudo, FireNoWait, FireLocalShutdown, Same
<1>10. CASE \E ok \in BOOLEAN : FireLocalAck(s, ok)
  BY <1>10, RemoteGraph DEF FireLocalAck
<1>11. CASE FireSendFailed(s)
  <2>1. Occupied' = Occupied
    BY <1>2, <1>3, <1>11 DEF FireSendFailed, Occupied
  <2>2. Separate'
    BY <1>11 DEF FireSendFailed, Separate
  <2> QED
    BY <1>1, <1>11, <2>1, <2>2 DEF FireSendFailed, Same
<1> QED
  BY <1>6, <1>7, <1>8, <1>9, <1>10, <1>11 DEF FireSynapse

(* What an event does to the job counts. *)
LEMMA EventLoad ==
  ASSUME \A g \in Graphs : Remote(g), Inv, Separate, Event
  PROVE  graph' = graph /\ Separate' /\ ((\E a \in Ids : Releases(a)) \/ Same)
<1>1. graph' = graph
  BY EventShape DEF EndingStep
<1>2. \A a : IsRsc(a)' = IsRsc(a)
  BY <1>1 DEF IsRsc
<1>3. ASSUME UNCHANGED flags, UNCHANGED load PROVE Separate' /\ Same
  BY <1>2, <1>3 DEF flags, Separate, Occupied, Same
<1>4. ASSUME NEW A, NEW cf, NEW fl, NEW sf,
             UpdateGraph(A, executed, cf, fl, sf), UNCHANGED load,
             \A a \in (cf \ actConfirmed) \cup (A \ sf) : ~IsRsc(a),
             actConfirmed \subseteq cf
      PROVE  Separate' /\ Same
  <2>1. /\ Separate' /\ executed' = executed
        /\ actConfirmed' = cf \cup (A \cap (executed \ (synConfirmed \cup sf)))
    BY <1>4, UpdateGraphFlight
  <2>2. Occupied' = Occupied
    BY <1>2, <1>4, <2>1 DEF Occupied
  <2> QED
    BY <1>4, <2>1, <2>2 DEF Same
<1>5. ASSUME NEW a \in Ids, NEW fl, TeActionConfirmed(a, fl), a \in executed
      PROVE  Separate' /\ (Releases(a) \/ Same)
  <2>1. UpdateGraph({a}, executed, actConfirmed \cup {a}, fl, synFailed)
    BY <1>5 DEF TeActionConfirmed
  <2>2. Separate' /\ executed' = executed /\ actConfirmed' = actConfirmed \cup {a}
    BY <2>1, UpdateGraphFlight
  <2>3. Occupied' = Occupied \ {a}
    BY <1>2, <2>2 DEF Occupied
  <2>4. CASE IsRsc(a) /\ a \notin actConfirmed
    BY <1>5, <2>2, <2>3, <2>4 DEF TeActionConfirmed, Releases, Occupied
  <2>5. CASE ~(IsRsc(a) /\ a \notin actConfirmed)
    <3>1. a \notin Occupied
      BY <2>5 DEF Occupied
    <3> QED
      BY <1>5, <2>2, <2>3, <2>5, <3>1 DEF TeActionConfirmed, Same
  <2> QED
    BY <2>4, <2>5
<1>6. ASSUME NEW a \in Ids, \/ \E ok \in BOOLEAN : ActionResult(a, ok)
                           \/ ActionTimeout(a) \/ OperationGone(a)
      PROVE  Separate' /\ (Releases(a) \/ Same)
  <2>1. CASE \E ok \in BOOLEAN : ActionResult(a, ok)
    <3>1. a \in executed
      BY <2>1 DEF ActionResult, Inv, ResultsOK
    <3> QED
      BY <1>5, <2>1, <3>1 DEF ActionResult
  <2>2. CASE ActionTimeout(a)
    <3>1. a \in executed
      BY <2>2 DEF ActionTimeout, Inv, TimersOK, InFlight
    <3> QED
      BY <1>3, <1>5, <2>2, <3>1 DEF ActionTimeout
  <2>3. CASE OperationGone(a)
    BY <2>3, RemoteGraph DEF OperationGone
  <2> QED
    BY <1>6, <2>1, <2>2, <2>3
<1>7. ASSUME NEW a \in Ids, FenceResult(a) PROVE Separate' /\ Same
  <2>1. ~IsRsc(a) /\ UNCHANGED load
    BY <1>7 DEF FenceResult, FenceSucceeded, FenceFailed, IsRsc
  <2>2. \/ \E fl : UpdateGraph({a}, executed, actConfirmed \cup {a}, fl, synFailed)
        \/ \E fl : UpdateGraph({a}, executed, actConfirmed, fl, synFailed)
    BY <1>7 DEF FenceResult, FenceSucceeded, FenceFailed
  <2> QED
    BY <1>4, <2>1, <2>2
<1>8. ASSUME NEW n \in Nodes, UnexpectedNodeLoss(n) \/ ReapDeadNode(n)
      PROVE  Separate' /\ Same
  <2>1. /\ UNCHANGED load
        /\ UNCHANGED flags
           \/ UpdateGraph(Incompletable(n), executed, actConfirmed,
                          actFailed \cup Incompletable(n),
                          synFailed \cup Incompletable(n))
    BY <1>8 DEF UnexpectedNodeLoss, ReapDeadNode, FailIncompletable
  <2> QED
    BY <1>3, <1>4, <2>1
<1>9. ASSUME NEW n \in Nodes, ExpectedNodeLoss(n) PROVE Separate' /\ Same
  <2>1. PICK down \in DownEvents(n) :
          \/ UNCHANGED flags
          \/ /\ graph[down].task = "do_shutdown"
             /\ UpdateGraph({down}, executed, actConfirmed, actFailed, synFailed)
    BY Zenon, <1>9 DEF ExpectedNodeLoss
  <2>2. UNCHANGED load
    BY <1>9 DEF ExpectedNodeLoss
  <2>3. down \in Ids
    BY DEF DownEvents, Inv, TypeOK
  <2>4. graph[down].task = "do_shutdown" => ~IsRsc(down)
    BY <2>3, GraphIsWellFormed DEF WellFormedGraph, Inv, TypeOK, Ids, IsRsc
  <2> QED
    BY <1>3, <1>4, <2>1, <2>2, <2>4
<1>10. CASE FencerLost
  <2> DEFINE lost == {a \in Ids \ (synConfirmed \cup actConfirmed) :
                        graph[a].type = "fence"}
  <2>1. /\ UNCHANGED load
        /\ UpdateGraph(lost, executed, actConfirmed, actFailed \cup lost, synFailed)
    BY <1>10 DEF FencerLost
  <2>2. \A a \in lost : ~IsRsc(a)
    BY DEF IsRsc
  <2> HIDE DEF lost
  <2> QED
    BY <1>1, <1>4, <2>1, <2>2
<1>11. CASE \/ \E r \in results : LateResult(r[1], r[2]) \/ ResultLost(r[1], r[2])
            \/ \E next \in {"wait", "restart"} : ExternalAbort(next)
            \/ \E n \in Nodes : \E level \in Modes : ThrottleUpdate(n, level)
  <2>1. UNCHANGED load /\ UNCHANGED flags
    BY Zenon, <1>11 DEF LateResult, ResultLost, ExternalAbort, ThrottleUpdate
  <2> QED
    BY <1>1, <1>3, <2>1
<1> QED
  BY <1>1, <1>6, <1>7, <1>8, <1>9, <1>10, <1>11 DEF Event

(* What occupies a node is finite. *)
LEMMA OccupiedFinite ==
  ASSUME Inv, NEW n
  PROVE  /\ IsFiniteSet(OccupiedOn(n)) /\ Cardinality(OccupiedOn(n)) \in Nat
         /\ IsFiniteSet(MigratingOn(n)) /\ Cardinality(MigratingOn(n)) \in Nat
<1>1. /\ OccupiedOn(n) \subseteq 1 .. Len(graph) /\ Len(graph) \in Nat
      /\ MigratingOn(n) \subseteq 1 .. Len(graph)
  BY IdsType DEF OccupiedOn, MigratingOn, Occupied, Inv, TypeOK
<1>2. IsFiniteSet(1 .. Len(graph))
  BY <1>1, FS_Interval
<1>3. IsFiniteSet(OccupiedOn(n)) /\ IsFiniteSet(MigratingOn(n))
  BY Zenon, <1>1, <1>2, FS_Subset
<1> QED
  BY <1>3, FS_CardinalityType

(* The counts follow what occupies the nodes. *)
LEMMA LoadStep ==
  ASSUME \A g \in Graphs : Remote(g), Inv, LoadOK, graph' = graph,
         \/ \E s \in Ids : Charges(s)
         \/ \E a \in Ids : Releases(a)
         \/ Same
  PROVE  LoadOK'
<1> SUFFICES ASSUME NEW n \in Nodes
             PROVE  /\ jobs'[n] = Cardinality(OccupiedOn(n)')
                    /\ migrateJobs'[n] = Cardinality(MigratingOn(n)')
  BY DEF LoadOK
<1>1. \A a : Charged(a)' = Charged(a) /\ IsMigration(a)' = IsMigration(a)
  BY DEF Charged, IsMigration
<1>2. /\ jobs[n] = Cardinality(OccupiedOn(n)) /\ jobs[n] \in Nat
      /\ migrateJobs[n] = Cardinality(MigratingOn(n)) /\ migrateJobs[n] \in Nat
      /\ IsFiniteSet(OccupiedOn(n)) /\ IsFiniteSet(MigratingOn(n))
  BY OccupiedFinite DEF LoadOK
<1>3. ASSUME NEW s \in Ids, Charges(s)
      PROVE  /\ jobs'[n] = Cardinality(OccupiedOn(n)')
             /\ migrateJobs'[n] = Cardinality(MigratingOn(n)')
  <2>1. /\ Occupied' = Occupied \cup {s} /\ s \notin Occupied /\ UpdateJobCount(s, 1)
    BY <1>3 DEF Charges
  <2>2. OccupiedOn(n)' = IF n \in Charged(s) THEN OccupiedOn(n) \cup {s} ELSE OccupiedOn(n)
    BY <1>1, <2>1 DEF OccupiedOn
  <2>3. MigratingOn(n)' = IF n \in Charged(s) /\ IsMigration(s)
                          THEN MigratingOn(n) \cup {s} ELSE MigratingOn(n)
    BY <1>1, <2>2 DEF MigratingOn
  <2>4. s \notin OccupiedOn(n) /\ s \notin MigratingOn(n)
    BY <2>1 DEF OccupiedOn, MigratingOn
  <2>5. /\ Cardinality(OccupiedOn(n) \cup {s}) = jobs[n] + 1
        /\ Cardinality(MigratingOn(n) \cup {s}) = migrateJobs[n] + 1
    BY <1>2, <2>4, FS_AddElement
  <2>6. /\ jobs'[n] = IF n \in Charged(s) THEN jobs[n] + 1 ELSE jobs[n]
        /\ migrateJobs'[n] = IF n \in Charged(s) /\ IsMigration(s)
                             THEN migrateJobs[n] + 1 ELSE migrateJobs[n]
    BY <2>1, RemoteGraph DEF UpdateJobCount
  <2> QED
    BY <1>2, <2>2, <2>3, <2>5, <2>6
<1>4. ASSUME NEW a \in Ids, Releases(a)
      PROVE  /\ jobs'[n] = Cardinality(OccupiedOn(n)')
             /\ migrateJobs'[n] = Cardinality(MigratingOn(n)')
  <2>1. /\ Occupied' = Occupied \ {a} /\ a \in Occupied /\ UpdateJobCount(a, -1)
    BY <1>4 DEF Releases
  <2>2. OccupiedOn(n)' = OccupiedOn(n) \ {a}
    BY <1>1, <2>1 DEF OccupiedOn
  <2>3. MigratingOn(n)' = MigratingOn(n) \ {a}
    BY <1>1, <2>2 DEF MigratingOn
  <2>4. /\ a \in OccupiedOn(n) <=> n \in Charged(a)
        /\ a \in MigratingOn(n) <=> n \in Charged(a) /\ IsMigration(a)
    BY <2>1 DEF OccupiedOn, MigratingOn
  <2>5. /\ Cardinality(OccupiedOn(n) \ {a}) =
             IF a \in OccupiedOn(n) THEN jobs[n] - 1 ELSE jobs[n]
        /\ Cardinality(MigratingOn(n) \ {a}) =
             IF a \in MigratingOn(n) THEN migrateJobs[n] - 1 ELSE migrateJobs[n]
    BY <1>2, FS_RemoveElement
  <2>6. /\ jobs'[n] = IF n \in Charged(a) THEN jobs[n] + (-1) ELSE jobs[n]
        /\ migrateJobs'[n] = IF n \in Charged(a) /\ IsMigration(a)
                             THEN migrateJobs[n] + (-1) ELSE migrateJobs[n]
    BY <2>1, RemoteGraph DEF UpdateJobCount
  <2> QED
    BY <1>2, <2>2, <2>3, <2>4, <2>5, <2>6
<1>5. CASE Same
  BY <1>1, <1>2, <1>5 DEF Same, load, OccupiedOn, MigratingOn
<1> QED
  BY <1>3, <1>4, <1>5

(* What a step does to the job counts. *)
LEMMA StepLoad ==
  ASSUME \A g \in Graphs : Remote(g), Inv, Separate, [Next]_vars
  PROVE  /\ Separate'
         /\ \/ /\ graph' = graph
               /\ (\E s \in Ids : Charges(s)) \/ (\E a \in Ids : Releases(a)) \/ Same
            \/ \E g \in Graphs : StartTransition(g)
<1>1. ASSUME UNCHANGED <<graph, flags, load>> PROVE graph' = graph /\ Separate' /\ Same
  BY <1>1 DEF flags, Separate, Same, Occupied, IsRsc
<1>2. CASE BeginPass \/ RenotifyComplete \/ ThrottlePass \/ SkipSynapse \/ EndPass
  BY <1>1, <1>2 DEF BeginPass, RenotifyComplete, ThrottlePass, SkipSynapse, EndPass
<1>3. CASE \E g \in Graphs : StartTransition(g)
  <2>1. Separate'
    BY <1>3 DEF StartTransition, Separate
  <2> QED
    BY <1>3, <2>1
<1>4. CASE UNCHANGED vars
  BY <1>1, <1>4 DEF vars
<1>5. CASE Event
  BY <1>5, EventLoad
<1>6. ASSUME NEW s \in Ids, FireSynapse(s)
      PROVE  graph' = graph /\ Separate' /\ (Charges(s) \/ Same)
  BY <1>6, FiringLoad
<1> QED
  BY <1>2, <1>3, <1>4, <1>5, <1>6 DEF Next, Pass

(* Every step preserves the job accounting. *)
LEMMA NextLoad ==
  ASSUME \A g \in Graphs : Remote(g), Inv, Separate, LoadOK, [Next]_vars
  PROVE  Separate' /\ LoadOK'
<1>1. CASE \E g \in Graphs : StartTransition(g)
  <2>1. /\ \A n \in Nodes : jobs'[n] = 0 /\ migrateJobs'[n] = 0
        /\ Occupied' = {}
    BY <1>1 DEF StartTransition, Occupied
  <2>2. \A n : OccupiedOn(n)' = {} /\ MigratingOn(n)' = {}
    BY <2>1 DEF OccupiedOn, MigratingOn
  <2> QED
    BY <2>1, <2>2, FS_EmptySet, StepLoad DEF LoadOK
<1> QED
  BY <1>1, StepLoad, LoadStep

(* The job accounting holds in every reachable state. *)
LEMMA LoadInvariance ==
  ASSUME \A g \in Graphs : Remote(g)
  PROVE  Spec => [](Separate /\ LoadOK)
<1>1. Init => Separate /\ LoadOK
  <2> SUFFICES ASSUME Init PROVE Separate /\ LoadOK
    OBVIOUS
  <2>1. \A n : OccupiedOn(n) = {} /\ MigratingOn(n) = {}
    BY DEF Init, OccupiedOn, MigratingOn, Occupied
  <2> QED
    BY <2>1, FS_EmptySet DEF Init, Separate, LoadOK
<1>2. Inv /\ Separate /\ LoadOK /\ [Next]_vars => Separate' /\ LoadOK'
  BY NextLoad
<1> QED
  BY <1>1, <1>2, Invariance, PTL DEF Spec

(* What works on a node occupies it; until a node is lost, nothing else.   *)
LEMMA RunningOccupies ==
  ASSUME Inv, Separate, NEW n
  PROVE  /\ Running(n) \subseteq OccupiedOn(n)
         /\ synFailed = {} => Running(n) = OccupiedOn(n)
  BY DEF Running, OccupiedOn, Occupied, InFlight, Separate, Inv, FlagsOK

(* Job accounting (te_update_job_count): in every remote graph, until the  *)
(* loss of a node writes actions off, the job count of a node is exactly   *)
(* the number of resource actions that it is working on.  Actions that the *)
(* DC executes itself may be confirmed before they are charged, and        *)
(* cancels before they are sent; both leave a count that is too low.       *)
THEOREM JobsAreBalanced ==
  ASSUME \A g \in Graphs : Remote(g)
  PROVE  Spec => []JobsBalanced
<1>1. Inv /\ Separate /\ LoadOK => JobsBalanced
  BY RunningOccupies DEF LoadOK, JobsBalanced
<1> QED
  BY <1>1, Invariance, LoadInvariance, PTL

(* The job limit of a node is an integer. *)
LEMMA JobLimitType ==
  ASSUME Inv, NEW n \in Nodes
  PROVE  JobLimit(n) \in Int
<1>1. mode[n] \in Levels
  BY DEF Inv, TypeOK
<1> QED
  BY <1>1, LimitsAssumption DEF JobLimit, Levels, Max2

(* A resource action that comes to work on a node was charged to it when   *)
(* the counts allowed it.                                                  *)
LEMMA NewRunning ==
  ASSUME \A g \in Graphs : Remote(g), Inv, Inv', Separate, [Next]_vars,
         NEW n, NEW s \in Running(n)' \ Running(n)
  PROVE  /\ graph' = graph /\ Charges(s) /\ n \in Charged(s)
         /\ Running(n)' = Running(n) \cup {s} /\ Allowed(s)
<1>1. graph' = graph
  <2>1. ASSUME NEW g, StartTransition(g) PROVE InFlight' = {}
    BY <2>1 DEF StartTransition, InFlight
  <2> QED
    BY <2>1, StepLoad DEF Running
<1>2. \A a : /\ Charged(a)' = Charged(a) /\ IsRsc(a)' = IsRsc(a)
  BY <1>1 DEF Charged, IsMigration, IsRsc
<1>3. s \in InFlight' /\ s \notin InFlight /\ IsRsc(s) /\ n \in Charged(s)
  BY <1>2 DEF Running
<1>4. Sends(s) /\ FireSynapse(s) /\ s \in Ids
  <2>1. BeginPass => InFlight' = InFlight
    BY DEF BeginPass, flags, InFlight
  <2> QED
    BY <1>3, <2>1, StepFlight DEF Settles, Sends
<1>5. Charges(s)
  <2>1. s \notin Occupied
    BY <1>4, FiringSynapse DEF Sends, Occupied
  <2>2. s \in Occupied'
    <3>1. Separate'
      BY StepLoad
    <3>2. s \in executed' /\ s \notin actConfirmed'
      BY <1>3, <3>1 DEF InFlight, Separate
    <3> QED
      BY <1>2, <1>3, <3>2 DEF Occupied
  <2> QED
    BY <1>4, <2>1, <2>2, FiringLoad DEF Same
<1>6. Allowed(s)
  BY <1>3, <1>4 DEF Sends, Fires, ShouldFire, IsRsc
<1>7. Running(n)' = Running(n) \cup {s}
  BY <1>2, <1>3, <1>4 DEF Sends, Running
<1> QED
  BY <1>1, <1>3, <1>5, <1>6, <1>7

(* Limits (throttle_get_job_limit, allowed_on_node, pcmk__execute_graph):  *)
(* in every remote graph, sending an action never takes a node over the    *)
(* job limit of its load level at that time, nor over the number of        *)
(* migrations at a time, nor the synapses in flight over the batch limit.  *)
THEOREM LimitsHold ==
  ASSUME \A g \in Graphs : Remote(g)
  PROVE  Spec => LimitsRespected
<1> DEFINE Migrating(n) == {a \in Running(n) : IsMigration(a)}
           J(n) == ~(Running(n)' \subseteq Running(n))
                     => Cardinality(Running(n)') <= JobLimit(n)
           M(n) == MigrationLimit > 0 /\ ~(Migrating(n)' \subseteq Migrating(n))
                     => Cardinality(Migrating(n)') <= MigrationLimit
           B == TotalJobLimit > 0 /\ ~(InFlight' \subseteq InFlight)
                  => Cardinality(InFlight') <= TotalJobLimit
<1>1. Inv /\ Inv' /\ Separate /\ LoadOK /\ [Next]_vars => \A n \in Nodes : J(n) /\ M(n)
  <2> SUFFICES ASSUME Inv, Inv', Separate, LoadOK, [Next]_vars, NEW n \in Nodes
               PROVE  J(n) /\ M(n)
    OBVIOUS
  <2>1. /\ Running(n) \subseteq OccupiedOn(n) /\ Migrating(n) \subseteq MigratingOn(n)
        /\ IsFiniteSet(OccupiedOn(n)) /\ IsFiniteSet(MigratingOn(n))
        /\ jobs[n] = Cardinality(OccupiedOn(n)) /\ jobs[n] \in Nat
        /\ migrateJobs[n] = Cardinality(MigratingOn(n)) /\ migrateJobs[n] \in Nat
        /\ JobLimit(n) \in Int /\ MigrationLimit \in Int
    BY RunningOccupies, OccupiedFinite, JobLimitType, LimitsAssumption
    DEF MigratingOn, LoadOK
  <2>2. ASSUME NEW S, NEW U, NEW s, NEW limit \in Int, IsFiniteSet(U), S \subseteq U,
               s \notin U, Cardinality(U) < limit
        PROVE  Cardinality(S \cup {s}) <= limit
    <3>1. /\ Cardinality(U \cup {s}) = Cardinality(U) + 1 /\ IsFiniteSet(U \cup {s})
          /\ Cardinality(U) \in Nat
      BY <2>2, FS_AddElement, FS_CardinalityType
    <3>2. S \cup {s} \in SUBSET (U \cup {s})
      BY <2>2
    <3>3. /\ Cardinality(S \cup {s}) <= Cardinality(U \cup {s})
          /\ IsFiniteSet(S \cup {s})
      BY Zenon, <3>1, <3>2, FS_Subset
    <3>4. Cardinality(S \cup {s}) \in Nat
      BY <3>3, FS_CardinalityType
    <3> QED
      BY <2>2, <3>1, <3>3, <3>4
  <2>3. J(n)
    <3> SUFFICES ASSUME NEW s \in Running(n)' \ Running(n)
                 PROVE  Cardinality(Running(n)') <= JobLimit(n)
      OBVIOUS
    <3>1. /\ Charges(s) /\ n \in Charged(s) /\ Allowed(s)
          /\ Running(n)' = Running(n) \cup {s}
      BY NewRunning
    <3>2. s \notin OccupiedOn(n) /\ jobs[n] < JobLimit(n)
      BY <3>1 DEF Charges, Allowed, OccupiedOn
    <3>3. Cardinality(OccupiedOn(n)) < JobLimit(n)
      BY <2>1, <3>2
    <3>4. Cardinality(Running(n) \cup {s}) <= JobLimit(n)
      BY Zenon, <2>1, <2>2, <3>2, <3>3
    <3> QED
      BY Zenon, <3>1, <3>4
  <2>4. M(n)
    <3> SUFFICES ASSUME MigrationLimit > 0, NEW s \in Migrating(n)' \ Migrating(n)
                 PROVE  Cardinality(Migrating(n)') <= MigrationLimit
      OBVIOUS
    <3>1. graph' = graph
      <4>1. ASSUME NEW g, StartTransition(g) PROVE InFlight' = {}
        BY <4>1 DEF StartTransition, InFlight
      <4> QED
        BY <4>1, StepLoad DEF Running
    <3>2. s \in Running(n)' \ Running(n) /\ IsMigration(s)
      BY <3>1 DEF IsMigration
    <3>3. /\ Charges(s) /\ n \in Charged(s) /\ Allowed(s)
          /\ Running(n)' = Running(n) \cup {s}
      BY <3>2, NewRunning
    <3>4. Migrating(n)' = Migrating(n) \cup {s}
      BY <3>1, <3>2, <3>3 DEF IsMigration
    <3>5. s \notin MigratingOn(n) /\ migrateJobs[n] < MigrationLimit
      BY <3>2, <3>3 DEF Charges, Allowed, OccupiedOn, MigratingOn
    <3>6. Cardinality(MigratingOn(n)) < MigrationLimit
      BY <2>1, <3>5
    <3> HIDE DEF Migrating
    <3>7. Cardinality(Migrating(n) \cup {s}) <= MigrationLimit
      BY Zenon, <2>1, <2>2, <3>5, <3>6
    <3> QED
      BY Zenon, <3>4, <3>7
  <2> QED
    BY <2>3, <2>4
<1>2. (\A n \in Nodes : J(n) /\ M(n)) /\ [B]_vars
      => [/\ \A n \in Nodes :
               LET M1 == {a \in Running(n) : IsMigration(a)}
               IN  /\ ~(Running(n)' \subseteq Running(n))
                        => Cardinality(Running(n)') <= JobLimit(n)
                   /\ MigrationLimit > 0 /\ ~(M1' \subseteq M1)
                        => Cardinality(M1') <= MigrationLimit
          /\ B]_vars
  OBVIOUS
<1> QED
  BY <1>1, <1>2, Invariance, LoadInvariance, BatchLimitHolds, PTL DEF Spec, LimitsRespected
==============================================================================
