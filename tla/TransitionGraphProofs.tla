------------------------ MODULE TransitionGraphProofs ------------------------
(***************************************************************************)
(* The inductive invariant of TransitionGraph, for every set of nodes,     *)
(* every set of well-formed graphs and every limit: each action preserves  *)
(* it and maps to steps of the abstract transition.  The one action whose  *)
(* proof is about cardinalities (BeginPass) and the theorems come last.    *)
(***************************************************************************)
EXTENDS TransitionGraph, TLAPS

-----------------------------------------------------------------------------
(* Facts about graphs *)

(* The only facts about PCMK_SCORE_INFINITY that the proofs use. *)
LEMMA InfinityType == INFINITY \in Nat /\ INFINITY > 0
BY SMT DEF INFINITY

(* Every state's graph is well formed. *)
LEMMA GraphIsWellFormed ==
  ASSUME graph \in Graphs \cup {<<>>}
  PROVE  WellFormedGraph(graph)
<1>1. CASE graph \in Graphs
  BY <1>1, GraphsAssumption
<1>2. CASE graph = <<>>
  BY <1>2 DEF WellFormedGraph
<1> QED
  BY <1>1, <1>2

(* What is known of the actions of a graph. *)
LEMMA IdsType ==
  ASSUME graph \in Graphs \cup {<<>>}
  PROVE  /\ Ids = 1 .. Len(graph)
         /\ Len(graph) \in Nat
         /\ \A a \in Ids : graph[a] \in GraphAction /\ graph[a].inputs \subseteq Ids
         /\ \A a \in Ids : graph[a].priority \in 0 .. INFINITY /\ graph[a].node \in Nodes
<1>1. graph \in Seq(GraphAction)
  BY GraphIsWellFormed DEF WellFormedGraph
<1>2. Ids = 1 .. Len(graph) /\ Len(graph) \in Nat
  BY <1>1 DEF Ids
<1>4. \A a \in Ids : graph[a] \in GraphAction
  BY <1>1, <1>2
<1>5. \A a \in Ids : graph[a].inputs \subseteq Ids
  BY GraphIsWellFormed DEF WellFormedGraph, Ids
<1>6. \A a \in Ids : graph[a].priority \in 0 .. INFINITY /\ graph[a].node \in Nodes
  BY <1>4 DEF GraphAction
<1> QED
  BY <1>2, <1>4, <1>5, <1>6

(* A cancellation is not a fencing action. *)
LEMMA CancelType ==
  ASSUME graph \in Graphs \cup {<<>>}, NEW a \in Ids, graph[a].task = "cancel"
  PROVE  graph[a].type # "fence"
<1>1. graph[a].type = "rsc"
  BY GraphIsWellFormed DEF WellFormedGraph, Ids
<1> QED
  BY <1>1

(* One more than a priority is an abort priority. *)
LEMMA AbortPriority ==
  ASSUME graph \in Graphs \cup {<<>>}, NEW a \in Ids
  PROVE  graph[a].priority + 1 \in 0 .. INFINITY + 1
<1>1. graph[a].priority \in 0 .. INFINITY
  BY IdsType
<1> QED
  BY <1>1, InfinityType

-----------------------------------------------------------------------------
(* The inductive invariant *)

(* A confirmed input copy stands for an action that was confirmed without  *)
(* failing, or that at least ended if the synapse has priority INFINITY.   *)
Sound(s, i) ==
  IF graph[s].priority = INFINITY THEN i \in actConfirmed \cup actFailed
  ELSE /\ i \in actConfirmed
       /\ i \in actFailed => graph[i].task = "cancel"

(* The flags of synapses, actions and input copies agree. *)
FlagsOK ==
  /\ executed \subseteq Ids /\ synConfirmed \subseteq actConfirmed
  /\ synFailed \subseteq actFailed
  /\ actConfirmed \subseteq Ids /\ actFailed \subseteq Ids
  /\ inputsDone \subseteq Ids \X Ids
  /\ \A a \in actConfirmed \ executed : graph[a].task = "cancel"
  /\ \A s, i \in Ids : <<s, i>> \in inputsDone => Sound(s, i)
  /\ \A s \in executed : \A i \in graph[s].inputs : Sound(s, i)

(* Timers run for unanswered requests in flight only. *)
TimersOK ==
  \A a \in timers : /\ a \in InFlight /\ a \notin actConfirmed
                    /\ graph[a].type \in {"rsc", "cluster"}
                    /\ ~graph[a].noWait

(* Answers are owed for executed actions; a fencing request that is still  *)
(* owed one is unconfirmed, unless the loss of the fencer failed it.       *)
ResultsOK ==
  \A a \in Ids : <<gid, a>> \in results =>
    /\ a \in executed
    /\ graph[a].type = "fence" /\ a \in actConfirmed => a \in actFailed

(* A pass only runs in an open transition, and only counts no pending      *)
(* synapses if none is in flight; the blank graph is complete.             *)
PassOK ==
  /\ ~complete => gid > 0
  /\ complete => cursor = 0 /\ InFlight = {}
  /\ cursor # 0 /\ pending = 0 => InFlight = {}

Inv == TypeOK /\ FlagsOK /\ TimersOK /\ ResultsOK /\ PassOK

-----------------------------------------------------------------------------
(* Updating the graph preserves the agreement of the flags *)

(* The callers of pcmk__update_graph() pass actions A that have ended, on  *)
(* flags that only ever gained members: fired synapses had their inputs,   *)
(* no action fails that was confirmed before.                              *)
Gained(A, ex, cf, fl, sf) ==
  /\ A \subseteq Ids /\ executed \subseteq ex /\ ex \subseteq Ids
  /\ actConfirmed \subseteq cf /\ cf \subseteq Ids
  /\ actFailed \subseteq fl /\ fl \subseteq Ids /\ sf \subseteq fl
  /\ \A s \in ex \ executed : \A i \in graph[s].inputs : <<s, i>> \in inputsDone
  /\ \A a \in cf \ ex : graph[a].task = "cancel"
  /\ \A a \in fl \ actFailed : a \notin actConfirmed
  /\ A \subseteq (cf \cup fl) \cup (ex \ (synConfirmed \cup sf))

(* Such an update keeps the agreement of the flags. *)
LEMMA UpdateGraphFlags ==
  ASSUME graph \in Graphs \cup {<<>>}, graph' = graph, FlagsOK,
         NEW A, NEW ex, NEW cf, NEW fl, NEW sf,
         UpdateGraph(A, ex, cf, fl, sf), Gained(A, ex, cf, fl, sf)
  PROVE  FlagsOK'
<1> USE DEF Gained
<1> DEFINE inFlight == ex \ (synConfirmed \cup sf)
           waiting  == Ids \ (ex \cup synConfirmed \cup sf)
           added    == {p \in waiting \X A :
                          /\ p[2] \in graph[p[1]].inputs
                          /\ p[2] \notin fl \/ graph[p[1]].priority = INFINITY}
<1>1. /\ actConfirmed' = cf \cup (A \cap inFlight)
      /\ synConfirmed' = synConfirmed \cup (inFlight \cap (A \cup cf))
      /\ inputsDone' = inputsDone \cup added
      /\ executed' = ex
      /\ actFailed' = fl
      /\ synFailed' = sf
  BY DEF UpdateGraph
<1>2. Ids' = Ids
  BY DEF Ids
<1>3. /\ inFlight \subseteq ex /\ waiting \subseteq Ids
      /\ A \subseteq (cf \cup fl) \cup inFlight
  OBVIOUS
<1>4. /\ added \subseteq Ids \X Ids
      /\ \A s, i : <<s, i>> \in added =>
           i \in A /\ (i \notin fl \/ graph[s].priority = INFINITY)
  BY <1>3
<1> HIDE DEF inFlight, waiting, added
<1>5. /\ executed' \subseteq Ids' /\ synConfirmed' \subseteq actConfirmed'
      /\ synFailed' \subseteq actFailed'
      /\ actConfirmed' \subseteq Ids' /\ actFailed' \subseteq Ids'
      /\ inputsDone' \subseteq Ids' \X Ids'
  BY <1>1, <1>2, <1>3, <1>4 DEF FlagsOK
<1>6. \A a \in actConfirmed' \ executed' : graph'[a].task = "cancel"
  BY <1>1, <1>3
<1>7. ASSUME NEW s \in Ids, NEW i \in Ids, Sound(s, i)
      PROVE  Sound(s, i)'
  BY <1>1, <1>7 DEF Sound, FlagsOK
<1>8. \A s \in Ids', i \in Ids' : <<s, i>> \in inputsDone' => Sound(s, i)'
  <2> SUFFICES ASSUME NEW s \in Ids, NEW i \in Ids, <<s, i>> \in inputsDone'
               PROVE  Sound(s, i)'
    BY <1>2
  <2>1. CASE <<s, i>> \in inputsDone
    BY <2>1, <1>7 DEF FlagsOK
  <2>2. CASE <<s, i>> \in added
    <3>1. i \in actConfirmed' \cup actFailed'
      BY <1>1, <1>3, <1>4, <2>2
    <3> QED
      BY <3>1, <2>2, <1>1, <1>4 DEF Sound
  <2> QED
    BY <1>1, <2>1, <2>2
<1>9. \A s \in executed' : \A i \in graph'[s].inputs : Sound(s, i)'
  <2> SUFFICES ASSUME NEW s \in ex, NEW i \in graph[s].inputs
               PROVE  Sound(s, i)'
    BY <1>1
  <2>1. s \in Ids /\ i \in Ids
    BY IdsType
  <2>2. Sound(s, i)
    BY Zenon, <2>1 DEF FlagsOK
  <2> QED
    BY <2>1, <2>2, <1>7
<1> QED
  BY <1>5, <1>6, <1>8, <1>9 DEF FlagsOK

(* Job counts stay integers. *)
LEMMA JobCountType ==
  ASSUME jobs \in [Nodes -> Int], migrateJobs \in [Nodes -> Int],
         NEW a, NEW offset \in Int, UpdateJobCount(a, offset)
  PROVE  jobs' \in [Nodes -> Int] /\ migrateJobs' \in [Nodes -> Int]
BY DEF UpdateJobCount

(* An abort keeps the types of what it changes. *)
LEMMA AbortType ==
  ASSUME TypeOK, NEW priority \in 0 .. INFINITY + 1, NEW next \in Completions,
         AbortTransition(priority, next)
  PROVE  /\ abortPriority' \in 0 .. INFINITY + 1
         /\ completion' \in Completions
         /\ raised' \subseteq Inputs
BY Zenon, InfinityType DEF AbortTransition, UpdateAbortPriority, TypeOK, Max2, Inputs,
       Completions

(* The initial state satisfies the invariant. *)
LEMMA InitInv == Init => Inv
<1> SUFFICES ASSUME Init PROVE Inv
  OBVIOUS
<1> USE DEF Init
<1>1. TypeOK
  <2>1. gid \in 0 .. MaxTransitions /\ abortPriority \in 0 .. INFINITY + 1
    BY LimitsAssumption, InfinityType
  <2>2. /\ jobs \in [Nodes -> Int] /\ migrateJobs \in [Nodes -> Int]
        /\ mode \in [Nodes -> Levels]
        /\ fenceFails \in [Nodes -> 0 .. FencingMaxAttempts]
    BY LimitsAssumption DEF Levels
  <2>3. cursor \in 0 .. Len(graph) + 1 /\ fired \in Nat /\ pending \in Nat
    OBVIOUS
  <2> QED
    BY Zenon, <2>1, <2>2, <2>3 DEF TypeOK, Completions
<1>2. FlagsOK
  BY DEF FlagsOK
<1>3. TimersOK /\ ResultsOK
  BY DEF TimersOK, ResultsOK
<1>4. PassOK
  BY DEF PassOK, InFlight
<1> QED
  BY <1>1, <1>2, <1>3, <1>4 DEF Inv

(* Starting a transition establishes the invariant anew. *)
LEMMA StartInv ==
  ASSUME Inv, NEW g \in Graphs, StartTransition(g)
  PROVE  Inv'
<1> USE DEF StartTransition
<1>1. TypeOK'
  <2>1. gid' \in 0 .. MaxTransitions
    BY LimitsAssumption DEF Inv, TypeOK
  <2>2. cursor' \in 0 .. Len(graph') + 1
    <3>1. Len(g) \in Nat
      BY GraphsAssumption DEF WellFormedGraph
    <3> QED
      BY <3>1 DEF pass
  <2>3. results' \subseteq (1 .. gid') \X (Nat \ {0})
    BY DEF Inv, TypeOK
  <2>4. jobs' \in [Nodes -> Int] /\ migrateJobs' \in [Nodes -> Int]
    OBVIOUS
  <2>5. /\ mode' \in [Nodes -> Levels]
        /\ fenceFails' \in [Nodes -> 0 .. FencingMaxAttempts]
        /\ fired' \in Nat /\ pending' \in Nat
    BY DEF Inv, TypeOK, pass
  <2>6. abortPriority' \in 0 .. INFINITY + 1
    BY InfinityType
  <2> QED
    BY Zenon, <2>1, <2>2, <2>3, <2>4, <2>5, <2>6 DEF TypeOK, Completions
<1>2. FlagsOK'
  BY DEF FlagsOK
<1>3. TimersOK'
  BY DEF TimersOK
<1>4. ResultsOK'
  BY DEF ResultsOK, Inv, TypeOK
<1>5. PassOK'
  BY DEF PassOK, InFlight, pass, Inv, TypeOK
<1> QED
  BY <1>1, <1>2, <1>3, <1>4, <1>5 DEF Inv

-----------------------------------------------------------------------------
(* What the kinds of step have in common *)

(* A synapse that is fired: where the pass stands and what is known of it. *)
LEMMA FiringSynapse ==
  ASSUME Inv, NEW s, Fires(s)
  PROVE  /\ s \in Ids /\ cursor = s /\ cursor # 0 /\ ~complete /\ gid > 0
         /\ s \notin executed /\ s \notin synConfirmed /\ s \notin synFailed
         /\ s \notin timers
         /\ \A i \in graph[s].inputs : <<s, i>> \in inputsDone
         /\ cursor + 1 \in 0 .. Len(graph) + 1
         /\ s \in actConfirmed => graph[s].task = "cancel"
<1>1. s \in Ids /\ cursor = s /\ s \notin executed /\ s \notin synConfirmed
      /\ s \notin synFailed
      /\ \A i \in graph[s].inputs : <<s, i>> \in inputsDone
  BY DEF Fires, InPass, ShouldFire
<1>2. cursor # 0 /\ cursor + 1 \in 0 .. Len(graph) + 1
  BY <1>1, IdsType DEF Inv, TypeOK
<1>3. ~complete /\ gid > 0
  BY <1>2 DEF Inv, PassOK
<1>4. s \notin timers
  BY <1>1 DEF Inv, TimersOK, InFlight
<1>5. s \in actConfirmed => graph[s].task = "cancel"
  BY <1>1 DEF Inv, FlagsOK
<1> QED
  BY <1>1, <1>2, <1>3, <1>4, <1>5

(* Synapses that are confirmed as they fire. *)
LEMMA ConfirmFiredInv ==
  ASSUME Inv, NEW s, Fires(s), graph[s].type # "fence",
         NEW fl, fl \in {actFailed, actFailed \cup {s}},
         fl = actFailed \/ s \notin actConfirmed,
         ConfirmFired(s, fl),
         graph' = graph, gid' = gid, complete' = complete, timers' = timers,
         pending' = pending, cursor' = cursor + 1,
         results' \subseteq results \cup {<<gid, s>>}
  PROVE  FlagsOK' /\ TimersOK' /\ ResultsOK' /\ PassOK'
<1>1. UpdateGraph({s}, executed \cup {s}, actConfirmed \cup {s}, fl, synFailed)
  BY DEF ConfirmFired
<1>2. s \in Ids /\ s \notin timers /\ cursor # 0 /\ ~complete
      /\ s \notin synConfirmed /\ s \notin synFailed
      /\ cursor + 1 \in 0 .. Len(graph) + 1 /\ cursor = s
      /\ \A i \in graph[s].inputs : <<s, i>> \in inputsDone
  BY FiringSynapse
<1>3. Ids' = Ids
  BY DEF Ids
<1>4. FlagsOK'
  <2>1. graph \in Graphs \cup {<<>>} /\ FlagsOK
    BY DEF Inv, TypeOK
  <2>2. /\ {s} \subseteq Ids /\ executed \cup {s} \subseteq Ids
        /\ actConfirmed \cup {s} \subseteq Ids
        /\ actFailed \subseteq fl /\ fl \subseteq Ids /\ synFailed \subseteq fl
        /\ \A a \in (actConfirmed \cup {s}) \ (executed \cup {s}) :
             graph[a].task = "cancel"
        /\ \A a \in fl \ actFailed : a \notin actConfirmed
    BY <1>2, <2>1 DEF FlagsOK
  <2>3. \A t \in (executed \cup {s}) \ executed :
          \A i \in graph[t].inputs : <<t, i>> \in inputsDone
    BY <1>2
  <2>4. Gained({s}, executed \cup {s}, actConfirmed \cup {s}, fl, synFailed)
    BY <2>2, <2>3 DEF Gained
  <2> QED
    BY <1>1, <2>1, <2>4, UpdateGraphFlags
<1>5. /\ actConfirmed' = actConfirmed \cup {s}
      /\ synConfirmed \subseteq synConfirmed' /\ s \in synConfirmed'
      /\ executed' = executed \cup {s} /\ synFailed' = synFailed
      /\ actFailed' = fl
      /\ synConfirmed' \subseteq synConfirmed \cup (actConfirmed \cup {s})
  BY <1>1, <1>2 DEF UpdateGraph
<1>6. InFlight' \subseteq InFlight
  BY <1>5 DEF InFlight
<1>7. TimersOK'
  BY <1>2, <1>5 DEF Inv, TimersOK, InFlight
<1>8. ResultsOK'
  BY <1>2, <1>3, <1>5 DEF Inv, ResultsOK
<1>9. PassOK'
  BY <1>2, <1>6 DEF Inv, PassOK
<1> QED
  BY <1>4, <1>7, <1>8, <1>9

(* Synapses that are fired and then awaited. *)
LEMMA AwaitResultInv ==
  ASSUME Inv, NEW s, Fires(s), AwaitResult(s),
         graph' = graph, gid' = gid, complete' = complete,
         pending' = pending + 1, cursor' = cursor + 1,
         \/ timers' = timers
         \/ /\ timers' = timers \cup {s}
            /\ s \notin actConfirmed /\ ~graph[s].noWait
            /\ graph[s].type \in {"rsc", "cluster"}
  PROVE  FlagsOK' /\ TimersOK' /\ ResultsOK' /\ PassOK'
<1>1. /\ s \in Ids /\ cursor # 0 /\ ~complete
      /\ s \notin executed /\ s \notin synConfirmed /\ s \notin synFailed
      /\ cursor + 1 \in 0 .. Len(graph) + 1 /\ cursor = s
      /\ \A i \in graph[s].inputs : <<s, i>> \in inputsDone
      /\ s \in actConfirmed => graph[s].task = "cancel"
  BY FiringSynapse
<1>2. Ids' = Ids
  BY DEF Ids
<1> USE DEF AwaitResult
<1>3. FlagsOK'
  <2>1. \A i \in graph[s].inputs : i \in Ids /\ Sound(s, i)
    BY Zenon, <1>1, IdsType DEF Inv, TypeOK, FlagsOK
  <2>2. \A t, i : Sound(t, i)' = Sound(t, i)
    BY DEF Sound
  <2> QED
    BY <1>1, <1>2, <2>1, <2>2 DEF Inv, FlagsOK
<1>4. TimersOK'
  BY <1>1 DEF Inv, TimersOK, InFlight
<1>5. ResultsOK'
  <2>1. graph[s].type = "fence" => s \notin actConfirmed
    BY <1>1, GraphIsWellFormed DEF Inv, TypeOK, WellFormedGraph, Ids
  <2> QED
    BY <1>1, <1>2, <2>1 DEF Inv, ResultsOK
<1>6. PassOK'
  <2>1. pending' # 0
    BY DEF Inv, TypeOK
  <2> QED
    BY <1>1, <2>1 DEF Inv, PassOK
<1> QED
  BY <1>3, <1>4, <1>5, <1>6

(* An event ends actions A of the graph between two passes. *)
Ends(A, cf, fl, sf) ==
  /\ A \subseteq Ids /\ actConfirmed \subseteq cf /\ cf \subseteq actConfirmed \cup A
  /\ actFailed \subseteq fl /\ fl \subseteq actFailed \cup A
  /\ synFailed \subseteq sf /\ sf \subseteq fl /\ sf \subseteq synFailed \cup A
  /\ \A a \in cf \ executed : graph[a].task = "cancel"
  /\ \A a \in fl \ actFailed : a \notin actConfirmed
  /\ A \subseteq (cf \cup fl) \cup (executed \ (synConfirmed \cup sf))
  /\ timers' \subseteq timers \ A /\ results' \subseteq results
  /\ \A a \in A : graph[a].type = "fence" => <<gid, a>> \notin results' \/ a \in fl

(* Such an event preserves all but the types. *)
LEMMA EventUpdateInv ==
  ASSUME Inv, Idle, graph' = graph, gid' = gid, complete' = complete,
         cursor' = cursor,
         NEW A, NEW cf, NEW fl, NEW sf, UpdateGraph(A, executed, cf, fl, sf),
         Ends(A, cf, fl, sf)
  PROVE  FlagsOK' /\ TimersOK' /\ ResultsOK' /\ PassOK'
<1> USE DEF Ends
<1>1. FlagsOK'
  <2>1. graph \in Graphs \cup {<<>>} /\ FlagsOK
    BY DEF Inv, TypeOK
  <2>2. executed \subseteq Ids /\ cf \subseteq Ids /\ fl \subseteq Ids
    BY <2>1 DEF FlagsOK
  <2>3. Gained(A, executed, cf, fl, sf)
    BY <2>2 DEF Gained
  <2> HIDE DEF Ends
  <2> QED
    BY <2>1, <2>3, UpdateGraphFlags
<1>2. /\ executed' = executed /\ actFailed' = fl /\ synFailed' = sf
      /\ synConfirmed \subseteq synConfirmed'
      /\ synConfirmed' \subseteq synConfirmed \cup A \cup cf
      /\ actConfirmed' \subseteq actConfirmed \cup A
  BY DEF UpdateGraph
<1>3. InFlight' \subseteq InFlight
  BY <1>2 DEF InFlight
<1>4. TimersOK'
  <2> SUFFICES ASSUME NEW a \in timers'
               PROVE  a \in InFlight' /\ a \notin actConfirmed'
    BY DEF TimersOK, Inv
  <2>1. a \in timers /\ a \notin A /\ a \in InFlight /\ a \notin actConfirmed
    BY DEF Inv, TimersOK
  <2>2. a \notin sf
    BY <2>1 DEF InFlight
  <2> QED
    BY <1>2, <2>1, <2>2 DEF InFlight
<1>5. ResultsOK'
  BY <1>2 DEF Inv, ResultsOK, Ids
<1>6. PassOK'
  BY <1>3 DEF Inv, PassOK, Idle
<1> QED
  BY <1>1, <1>4, <1>5, <1>6

(* Types after a step within a transition. *)
LEMMA TypeStep ==
  ASSUME TypeOK, FlagsOK', TimersOK', graph' = graph, gid' = gid,
         complete' \in BOOLEAN, trigger' \in BOOLEAN,
         abortPriority' \in 0 .. INFINITY + 1, completion' \in Completions,
         raised' \subseteq Inputs,
         jobs' \in [Nodes -> Int], migrateJobs' \in [Nodes -> Int],
         mode' \in [Nodes -> Levels],
         fenceFails' \in [Nodes -> 0 .. FencingMaxAttempts],
         cursor' \in 0 .. Len(graph) + 1, fired' \in Nat, pending' \in Nat,
         results' \subseteq (1 .. gid) \X (Nat \ {0})
  PROVE  TypeOK'
<1>1. /\ executed' \subseteq Ids' /\ synConfirmed' \subseteq Ids'
      /\ synFailed' \subseteq Ids' /\ actConfirmed' \subseteq Ids'
      /\ actFailed' \subseteq Ids' /\ inputsDone' \subseteq Ids' \X Ids'
  BY DEF FlagsOK
<1>2. timers' \subseteq Ids'
  BY <1>1 DEF TimersOK, InFlight
<1> QED
  BY <1>1, <1>2 DEF TypeOK

(* What firing a synapse leaves well typed, apart from the flags. *)
LEMMA FiredType ==
  ASSUME Inv, NEW s, Fires(s), NEW waits \in BOOLEAN, Fired(waits)
  PROVE  /\ graph' = graph /\ gid' = gid /\ complete' = complete
         /\ complete' \in BOOLEAN
         /\ mode' \in [Nodes -> Levels]
         /\ fenceFails' \in [Nodes -> 0 .. FencingMaxAttempts]
         /\ cursor' = cursor + 1 /\ cursor' \in 0 .. Len(graph) + 1
         /\ fired' \in Nat /\ pending' \in Nat
         /\ pending' = IF waits THEN pending + 1 ELSE pending
         /\ results \cup {<<gid, s>>} \subseteq (1 .. gid) \X (Nat \ {0})
<1>1. /\ graph' = graph /\ gid' = gid /\ complete' = complete /\ complete \in BOOLEAN
      /\ mode' = mode /\ fenceFails' = fenceFails
      /\ mode \in [Nodes -> Levels]
      /\ fenceFails \in [Nodes -> 0 .. FencingMaxAttempts]
      /\ fired \in Nat /\ pending \in Nat /\ gid \in Nat
      /\ results \subseteq (1 .. gid) \X (Nat \ {0})
  BY DEF Fired, Inv, TypeOK
<1>2. cursor' = cursor + 1 /\ cursor' \in 0 .. Len(graph) + 1
  BY FiringSynapse DEF Fired
<1>3. /\ fired' \in Nat /\ pending' \in Nat
      /\ pending' = IF waits THEN pending + 1 ELSE pending
  BY <1>1 DEF Fired
<1>4. gid > 0 /\ s \in Nat \ {0}
  <2>1. gid > 0 /\ s \in Ids
    BY FiringSynapse
  <2>2. s \in Nat \ {0}
    BY <2>1, IdsType DEF Inv, TypeOK
  <2> QED
    BY <2>1, <2>2
<1>5. <<gid, s>> \in (1 .. gid) \X (Nat \ {0})
  BY <1>1, <1>4
<1> QED
  BY <1>1, <1>2, <1>3, <1>5

-----------------------------------------------------------------------------
(* Each action preserves the invariant: firing *)

(* Synapses that are confirmed while they are fired. *)
LEMMA FireConfirmedInv ==
  ASSUME Inv, NEW s \in Ids,
         FirePseudo(s) \/ FireNoWait(s) \/ FireLocalShutdown(s)
  PROVE  Inv'
<1>1. /\ Fires(s) /\ graph[s].type # "fence"
      /\ ConfirmFired(s, actFailed) /\ Fired(FALSE) /\ UNCHANGED <<timers, load>>
      /\ results' \subseteq results \cup {<<gid, s>>}
      /\ abortPriority' = abortPriority /\ raised' = raised
      /\ completion' \in {completion, "shutdown"}
  <2>1. CASE FirePseudo(s)
    BY Zenon, <2>1 DEF FirePseudo, NoAbort
  <2>2. CASE FireNoWait(s)
    BY Zenon, <2>2 DEF FireNoWait, NoAbort
  <2>3. CASE FireLocalShutdown(s)
    <3>1. graph[s].type # "fence"
      BY <2>3, GraphIsWellFormed
      DEF Inv, TypeOK, WellFormedGraph, Ids, FireLocalShutdown
    <3> QED
      BY Zenon, <2>3, <3>1 DEF FireLocalShutdown
  <2> QED
    BY Zenon, <2>1, <2>2, <2>3
<1>2. /\ graph' = graph /\ gid' = gid /\ complete' = complete
      /\ complete' \in BOOLEAN
      /\ mode' \in [Nodes -> Levels]
      /\ fenceFails' \in [Nodes -> 0 .. FencingMaxAttempts]
      /\ cursor' = cursor + 1 /\ cursor' \in 0 .. Len(graph) + 1
      /\ fired' \in Nat /\ pending' \in Nat /\ pending' = pending
      /\ results \cup {<<gid, s>>} \subseteq (1 .. gid) \X (Nat \ {0})
  BY Zenon, <1>1, FiredType
<1>3. FlagsOK' /\ TimersOK' /\ ResultsOK' /\ PassOK'
  BY <1>1, <1>2, ConfirmFiredInv
<1>4. /\ abortPriority' \in 0 .. INFINITY + 1 /\ completion' \in Completions
      /\ raised' \subseteq Inputs
      /\ jobs' \in [Nodes -> Int] /\ migrateJobs' \in [Nodes -> Int]
      /\ trigger' \in BOOLEAN
  BY <1>1 DEF Inv, TypeOK, Completions, load, ConfirmFired
<1>5. TypeOK'
  BY <1>1, <1>2, <1>3, <1>4, TypeStep DEF Inv
<1> QED
  BY <1>3, <1>5 DEF Inv

(* Synapses that are fired and whose result is awaited. *)
LEMMA FireAwaitInv ==
  ASSUME Inv, NEW s \in Ids,
         FireSent(s) \/ FireAlreadyConfirmed(s) \/ FireFence(s)
  PROVE  Inv'
<1>1. /\ Fires(s) /\ AwaitResult(s) /\ Fired(TRUE) /\ NoAbort
      /\ \/ timers' = timers
         \/ /\ timers' = timers \cup {s}
            /\ s \notin actConfirmed /\ ~graph[s].noWait
            /\ graph[s].type \in {"rsc", "cluster"}
      /\ UpdateJobCount(s, 1) \/ UNCHANGED load
  BY Zenon DEF FireSent, FireAlreadyConfirmed, FireFence
<1>2. /\ graph' = graph /\ gid' = gid /\ complete' = complete
      /\ complete' \in BOOLEAN
      /\ mode' \in [Nodes -> Levels]
      /\ fenceFails' \in [Nodes -> 0 .. FencingMaxAttempts]
      /\ cursor' = cursor + 1 /\ cursor' \in 0 .. Len(graph) + 1
      /\ fired' \in Nat /\ pending' \in Nat /\ pending' = pending + 1
      /\ results \cup {<<gid, s>>} \subseteq (1 .. gid) \X (Nat \ {0})
  BY Zenon, <1>1, FiredType
<1>3. FlagsOK' /\ TimersOK' /\ ResultsOK' /\ PassOK'
  BY <1>1, <1>2, AwaitResultInv
<1>4. /\ abortPriority' \in 0 .. INFINITY + 1 /\ completion' \in Completions
      /\ raised' \subseteq Inputs /\ trigger' \in BOOLEAN
      /\ results' = results \cup {<<gid, s>>}
  BY <1>1 DEF Inv, TypeOK, NoAbort, AwaitResult
<1>5. jobs' \in [Nodes -> Int] /\ migrateJobs' \in [Nodes -> Int]
  BY <1>1, JobCountType DEF Inv, TypeOK, load
<1>6. TypeOK'
  BY <1>2, <1>3, <1>4, <1>5, TypeStep DEF Inv
<1> QED
  BY <1>3, <1>6 DEF Inv

(* The DC's own executor acknowledges while the synapse is fired. *)
LEMMA FireLocalAckInv ==
  ASSUME Inv, NEW s \in Ids, NEW ok \in BOOLEAN, FireLocalAck(s, ok)
  PROVE  Inv'
<1> DEFINE failed == IF ~ok /\ ~graph[s].onFailIgnore
                     THEN actFailed \cup {s} ELSE actFailed
<1>1. /\ Fires(s) /\ graph[s].type = "rsc" /\ s \notin actConfirmed
      /\ ConfirmFired(s, failed) /\ Fired(FALSE) /\ UpdateJobCount(s, -1)
      /\ UNCHANGED <<timers, results>>
      /\ AbortTransition(graph[s].priority + 1, "restart") \/ NoAbort
  BY Zenon DEF FireLocalAck, IsRsc
<1>2. /\ graph' = graph /\ gid' = gid /\ complete' = complete
      /\ complete' \in BOOLEAN
      /\ mode' \in [Nodes -> Levels]
      /\ fenceFails' \in [Nodes -> 0 .. FencingMaxAttempts]
      /\ cursor' = cursor + 1 /\ cursor' \in 0 .. Len(graph) + 1
      /\ fired' \in Nat /\ pending' \in Nat /\ pending' = pending
      /\ results \cup {<<gid, s>>} \subseteq (1 .. gid) \X (Nat \ {0})
  BY Zenon, <1>1, FiredType
<1>3. FlagsOK' /\ TimersOK' /\ ResultsOK' /\ PassOK'
  <2>1. failed \in {actFailed, actFailed \cup {s}} /\ graph[s].type # "fence"
    BY SMTT(30), <1>1
  <2> HIDE DEF failed
  <2> QED
    BY <1>1, <1>2, <2>1, ConfirmFiredInv
<1>4. /\ abortPriority' \in 0 .. INFINITY + 1 /\ completion' \in Completions
      /\ raised' \subseteq Inputs
  <2>1. graph[s].priority + 1 \in 0 .. INFINITY + 1 /\ "restart" \in Completions
    BY AbortPriority DEF Inv, TypeOK, Completions
  <2> QED
    BY <1>1, <2>1, AbortType DEF Inv, TypeOK, NoAbort
<1>5. jobs' \in [Nodes -> Int] /\ migrateJobs' \in [Nodes -> Int]
  BY <1>1, JobCountType DEF Inv, TypeOK
<1>6. TypeOK'
  <2>1. trigger' \in BOOLEAN /\ results' = results
    BY <1>1 DEF ConfirmFired
  <2> QED
    BY <1>2, <1>3, <1>4, <1>5, <2>1, TypeStep DEF Inv
<1> QED
  BY <1>3, <1>6 DEF Inv

(* A request that cannot be sent fails its synapse on the spot. *)
LEMMA FireSendFailedInv ==
  ASSUME Inv, NEW s \in Ids, FireSendFailed(s)
  PROVE  Inv'
<1> USE DEF FireSendFailed
<1>1. /\ Fires(s) /\ graph[s].type # "fence"
      /\ graph' = graph /\ gid' = gid /\ Ids' = Ids
  BY DEF Ids
<1>2. /\ s \in Ids /\ cursor = s /\ cursor # 0 /\ ~complete
      /\ s \notin executed /\ s \notin synConfirmed /\ s \notin timers
      /\ \A i \in graph[s].inputs : <<s, i>> \in inputsDone
      /\ cursor + 1 \in 0 .. Len(graph) + 1
      /\ s \in actConfirmed => graph[s].task = "cancel"
  BY SMTT(30), <1>1, FiringSynapse
<1>3. FlagsOK'
  <2>1. \A i \in graph[s].inputs : i \in Ids /\ Sound(s, i)
    BY ZenonT(30), <1>2, IdsType DEF Inv, TypeOK, FlagsOK
  <2>2. \A t, i : Sound(t, i) => Sound(t, i)'
    BY Zenon, <1>1, <1>2 DEF Sound
  <2> QED
    BY <1>1, <1>2, <2>1, <2>2 DEF Inv, FlagsOK
<1>4. TimersOK'
  BY <1>1, <1>2 DEF Inv, TimersOK, InFlight
<1>5. ResultsOK'
  BY <1>1, <1>2 DEF Inv, ResultsOK
<1>6. PassOK'
  <2>1. InFlight' \subseteq InFlight
    BY SMTT(30), <1>2 DEF InFlight
  <2> QED
    BY <1>1, <1>2, <2>1 DEF Inv, PassOK
<1>7. TypeOK'
  <2>1. /\ abortPriority' \in 0 .. INFINITY + 1
        /\ cursor' \in 0 .. Len(graph) + 1
    BY InfinityType, <1>2
  <2>2. /\ complete' \in BOOLEAN /\ trigger' \in BOOLEAN
        /\ completion' \in Completions /\ raised' \subseteq Inputs
        /\ jobs' \in [Nodes -> Int] /\ migrateJobs' \in [Nodes -> Int]
        /\ mode' \in [Nodes -> Levels]
        /\ fenceFails' \in [Nodes -> 0 .. FencingMaxAttempts]
        /\ fired' \in Nat /\ pending' \in Nat
        /\ results' \subseteq (1 .. gid) \X (Nat \ {0})
    BY Zenon DEF Inv, TypeOK, load
  <2> QED
    BY Zenon, <1>1, <1>3, <1>4, <2>1, <2>2, TypeStep DEF Inv
<1> QED
  BY <1>3, <1>4, <1>5, <1>6, <1>7 DEF Inv

-----------------------------------------------------------------------------
(* Each action preserves the invariant: the pass around the firing *)

(* Steps that leave the flags, the timers and the answers owed alone. *)
LEMMA SameFlags ==
  ASSUME Inv, UNCHANGED <<gid, graph, flags, timers>>, results' \subseteq results
  PROVE  /\ FlagsOK' /\ TimersOK' /\ ResultsOK'
         /\ InFlight' = InFlight /\ Ids' = Ids
<1>1. InFlight' = InFlight /\ Ids' = Ids
  BY DEF InFlight, Ids, flags
<1>2. \A s, i : Sound(s, i)' = Sound(s, i)
  BY DEF Sound, flags
<1>3. FlagsOK'
  BY <1>1, <1>2 DEF Inv, FlagsOK, flags
<1>4. TimersOK' /\ ResultsOK'
  BY <1>1 DEF Inv, TimersOK, ResultsOK, flags
<1> QED
  BY <1>1, <1>3, <1>4

(* The steps of pcmk__execute_graph() that fire nothing, but for the first.*)
LEMMA PassInv ==
  ASSUME Inv, RenotifyComplete \/ ThrottlePass \/ SkipSynapse \/ EndPass
  PROVE  Inv'
<1>1. UNCHANGED <<gid, graph, flags, timers, load, mode, results, fenceFails,
                  abortPriority>>
  BY DEF RenotifyComplete, ThrottlePass, SkipSynapse, EndPass
<1>2. FlagsOK' /\ TimersOK' /\ ResultsOK' /\ InFlight' = InFlight
  BY <1>1, SameFlags
<1>3. Len(graph) \in Nat /\ Ids = 1 .. Len(graph)
  BY IdsType DEF Inv, TypeOK
<1>4. /\ cursor' \in 0 .. Len(graph) + 1 /\ fired' \in Nat /\ pending' \in Nat
      /\ complete' \in BOOLEAN /\ trigger' \in BOOLEAN
      /\ completion' \in Completions /\ raised' \subseteq Inputs
      /\ PassOK'
  <2>1. CASE RenotifyComplete
    <3>1. completion' \in Completions /\ raised' \subseteq Inputs
      BY <2>1 DEF RenotifyComplete, NotifyCrmd, Inv, TypeOK, Completions, Inputs
    <3> QED
      BY Zenon, <2>1, <3>1, <1>2 DEF RenotifyComplete, Inv, TypeOK, PassOK, pass
  <2>2. CASE ThrottlePass
    BY <2>2, <1>2, <1>3 DEF ThrottlePass, Inv, TypeOK, PassOK, InPass
  <2>3. CASE SkipSynapse
    <3>1. cursor \in 1 .. Len(graph)
      BY <2>3, <1>3 DEF SkipSynapse, InPass
    <3> QED
      BY <2>3, <3>1, <1>2, <1>3 DEF SkipSynapse, Inv, TypeOK, PassOK
  <2>4. CASE EndPass
    <3>1. completion' \in Completions /\ raised' \subseteq Inputs
      BY <2>4 DEF EndPass, NotifyCrmd, Inv, TypeOK, Completions, Inputs
    <3>2. cursor # 0
      BY <2>4, <1>3 DEF EndPass
    <3>3. pending = 0 => InFlight = {}
      BY <3>2 DEF Inv, PassOK
    <3>4. /\ cursor' = 0 /\ fired' = 0 /\ pending' = 0 /\ gid' = gid
          /\ trigger' = trigger
          /\ \/ complete' = TRUE /\ pending = 0
             \/ complete' = complete
      BY <2>4 DEF EndPass
    <3>5. PassOK'
      BY <3>2, <3>3, <3>4, <1>2 DEF Inv, PassOK
    <3>6. complete' \in BOOLEAN /\ trigger' \in BOOLEAN
      BY Zenon, <3>4 DEF Inv, TypeOK
    <3> QED
      BY <3>1, <3>4, <3>5, <3>6, <1>3
  <2> QED
    BY <2>1, <2>2, <2>3, <2>4
<1>5. TypeOK'
  BY SMTT(30), <1>1, <1>2, <1>4, TypeStep DEF Inv, TypeOK, load
<1> QED
  BY <1>2, <1>4, <1>5 DEF Inv

-----------------------------------------------------------------------------
(* Each action preserves the invariant: events *)

(* Types after an event that may abort and may update the job counts. *)
LEMMA EventType ==
  ASSUME Inv, FlagsOK', TimersOK', UNCHANGED <<gid, graph, complete, pass>>,
         results' \subseteq results, trigger' \in BOOLEAN,
         mode' \in [Nodes -> Levels],
         fenceFails' \in [Nodes -> 0 .. FencingMaxAttempts],
         \/ NoAbort
         \/ \E priority \in 0 .. INFINITY + 1, next \in Completions :
              AbortTransition(priority, next),
         jobs' \in [Nodes -> Int], migrateJobs' \in [Nodes -> Int]
  PROVE  TypeOK'
<1>1. /\ abortPriority' \in 0 .. INFINITY + 1 /\ completion' \in Completions
      /\ raised' \subseteq Inputs
  BY AbortType DEF NoAbort, Inv, TypeOK
<1>2. /\ cursor' \in 0 .. Len(graph) + 1 /\ fired' \in Nat /\ pending' \in Nat
      /\ results' \subseteq (1 .. gid) \X (Nat \ {0})
  BY DEF Inv, TypeOK, pass
<1>3. complete' \in BOOLEAN /\ graph' = graph /\ gid' = gid /\ TypeOK
  BY DEF Inv, TypeOK
<1> QED
  BY <1>1, <1>2, <1>3, TypeStep

(* Outside a pass its variables keep their values. *)
LEMMA PassSame ==
  ASSUME UNCHANGED pass
  PROVE  cursor' = cursor /\ fired' = fired /\ pending' = pending
BY DEF pass

(* What TypeOK says of the state that events seldom change. *)
LEMMA Unchanging ==
  ASSUME Inv
  PROVE  /\ jobs \in [Nodes -> Int] /\ migrateJobs \in [Nodes -> Int]
         /\ mode \in [Nodes -> Levels]
         /\ fenceFails \in [Nodes -> 0 .. FencingMaxAttempts]
         /\ INFINITY \in 0 .. INFINITY + 1
         /\ {"restart", "wait"} \subseteq Completions
BY InfinityType DEF Inv, TypeOK, Completions

(* te_action_confirmed() keeps the types of what it changes. *)
LEMMA TeActionConfirmedType ==
  ASSUME Inv, NEW a, NEW failed, TeActionConfirmed(a, failed)
  PROVE  jobs' \in [Nodes -> Int] /\ migrateJobs' \in [Nodes -> Int]
         /\ trigger' \in BOOLEAN
         /\ UpdateGraph({a}, executed, actConfirmed \cup {a}, failed, synFailed)
BY Unchanging, JobCountType DEF TeActionConfirmed, load

(* An action of the current transition is answered or times out. *)
LEMMA AnswerInv ==
  ASSUME Inv, NEW a \in Ids, Idle, a \in executed, a \notin actConfirmed,
         graph[a].type # "fence",
         NEW failed, failed \in {actFailed, actFailed \cup {a}},
         TeActionConfirmed(a, failed), timers' = timers \ {a},
         \/ NoAbort
         \/ \E priority \in 0 .. INFINITY + 1 : AbortTransition(priority, "restart"),
         UNCHANGED <<gid, graph, complete, mode, pass, results, fenceFails>>
  PROVE  Inv'
<1>1. /\ jobs' \in [Nodes -> Int] /\ migrateJobs' \in [Nodes -> Int]
      /\ trigger' \in BOOLEAN
      /\ UpdateGraph({a}, executed, actConfirmed \cup {a}, failed, synFailed)
  BY Zenon, TeActionConfirmedType
<1>2. FlagsOK' /\ TimersOK' /\ ResultsOK' /\ PassOK'
  <2>1. /\ {a} \subseteq Ids /\ failed \subseteq actFailed \cup {a}
        /\ actFailed \subseteq failed /\ synFailed \subseteq failed
        /\ \A b \in (actConfirmed \cup {a}) \ executed : graph[b].task = "cancel"
        /\ \A b \in failed \ actFailed : b \notin actConfirmed
    BY DEF Inv, FlagsOK
  <2>2. cursor' = cursor
    BY Zenon, PassSame
  <2>3. Ends({a}, actConfirmed \cup {a}, failed, synFailed)
    BY <2>1 DEF Ends
  <2> QED
    BY SMTT(30), <1>1, <2>2, <2>3, EventUpdateInv
<1>3. TypeOK'
  <2>1. /\ mode' \in [Nodes -> Levels] /\ "restart" \in Completions
        /\ fenceFails' \in [Nodes -> 0 .. FencingMaxAttempts]
    BY Unchanging
  <2> QED
    BY <1>1, <1>2, <2>1, EventType
<1> QED
  BY <1>2, <1>3 DEF Inv

(* process_graph_event() for an awaited result. *)
LEMMA ActionResultInv ==
  ASSUME Inv, NEW a \in Ids, NEW ok \in BOOLEAN, ActionResult(a, ok)
  PROVE  Inv'
<1> DEFINE failed == IF ~ok /\ ~graph[a].onFailIgnore
                     THEN actFailed \cup {a} ELSE actFailed
<1>1. /\ Idle /\ <<gid, a>> \in results /\ graph[a].type # "fence"
      /\ a \notin actConfirmed /\ TeActionConfirmed(a, failed)
      /\ AbortTransition(graph[a].priority + 1, "restart") \/ NoAbort
      /\ timers' = timers \ {a}
      /\ UNCHANGED <<gid, graph, complete, mode, pass, results, fenceFails>>
  BY SMTT(30) DEF ActionResult
<1>2. a \in executed
  BY SMTT(30), <1>1 DEF Inv, ResultsOK
<1>3. graph[a].priority + 1 \in 0 .. INFINITY + 1
  BY AbortPriority DEF Inv, TypeOK
<1>4. failed \in {actFailed, actFailed \cup {a}}
  OBVIOUS
<1> HIDE DEF failed
<1> QED
  BY <1>1, <1>2, <1>3, <1>4, AnswerInv

(* action_timer_callback(): timers only run for unanswered requests. *)
LEMMA ActionTimeoutInv ==
  ASSUME Inv, NEW a \in Ids, ActionTimeout(a)
  PROVE  Inv'
<1>1. /\ Idle /\ a \in timers /\ timers' = timers \ {a}
      /\ UNCHANGED <<gid, graph, complete, mode, pass, results, fenceFails>>
  BY DEF ActionTimeout
<1>2. a \in InFlight /\ a \notin actConfirmed /\ graph[a].type # "fence"
  BY <1>1 DEF Inv, TimersOK
<1>3. ~complete
  BY <1>2 DEF Inv, PassOK
<1>4. TeActionConfirmed(a, actFailed \cup {a}) /\ AbortTransition(INFINITY, "restart")
  BY <1>3 DEF ActionTimeout
<1>5. a \in executed
  BY <1>2 DEF InFlight
<1>6. INFINITY \in 0 .. INFINITY + 1
  BY Unchanging
<1> QED
  BY <1>1, <1>2, <1>4, <1>5, <1>6, AnswerInv

(* confirm_cancel_action(), also for a cancel that was never sent. *)
LEMMA OperationGoneInv ==
  ASSUME Inv, NEW a \in Ids, OperationGone(a)
  PROVE  Inv'
<1>1. /\ Idle /\ graph[a].task = "cancel" /\ timers' = timers \ {a}
      /\ TeActionConfirmed(a, actFailed) /\ NoAbort
      /\ UNCHANGED <<gid, graph, complete, mode, pass, results, fenceFails>>
  BY DEF OperationGone
<1>2. /\ jobs' \in [Nodes -> Int] /\ migrateJobs' \in [Nodes -> Int]
      /\ trigger' \in BOOLEAN
      /\ UpdateGraph({a}, executed, actConfirmed \cup {a}, actFailed, synFailed)
  BY SMTT(30), <1>1, TeActionConfirmedType
<1>3. FlagsOK' /\ TimersOK' /\ ResultsOK' /\ PassOK'
  <2>1. /\ {a} \subseteq Ids /\ synFailed \subseteq actFailed
        /\ \A b \in (actConfirmed \cup {a}) \ executed : graph[b].task = "cancel"
    BY SMTT(30), <1>1 DEF Inv, FlagsOK
  <2>2. graph[a].type # "fence"
    BY Zenon, <1>1, CancelType DEF Inv, TypeOK
  <2>3. cursor' = cursor
    BY Zenon, <1>1, PassSame
  <2>4. Ends({a}, actConfirmed \cup {a}, actFailed, synFailed)
    BY <1>1, <2>1, <2>2 DEF Ends
  <2> QED
    BY SMTT(30), <1>1, <1>2, <2>3, <2>4, EventUpdateInv
<1>4. TypeOK'
  <2>1. /\ mode' \in [Nodes -> Levels]
        /\ fenceFails' \in [Nodes -> 0 .. FencingMaxAttempts]
    BY ZenonT(30), <1>1, Unchanging
  <2> QED
    BY Zenon, <1>1, <1>2, <1>3, <2>1, EventType
<1> QED
  BY <1>3, <1>4 DEF Inv

(* fencing_cb(): an answer is owed to executed fencing actions only, and a *)
(* confirmed one that is still owed an answer has failed before.           *)
LEMMA FenceResultInv ==
  ASSUME Inv, NEW a \in Ids, FenceResult(a)
  PROVE  Inv'
<1> DEFINE n == graph[a].node
<1>1. /\ Idle /\ <<gid, a>> \in results /\ graph[a].type = "fence"
      /\ results' = results \ {<<gid, a>>} /\ trigger' = TRUE
      /\ UNCHANGED <<gid, graph, complete, timers, load, mode, pass>>
  BY Zenon DEF FenceResult, FenceSucceeded, FenceFailed
<1>2. /\ a \in executed /\ (a \in actConfirmed => a \in actFailed)
      /\ a \notin timers /\ n \in Nodes
  BY Zenon, <1>1, IdsType DEF Inv, ResultsOK, TimersOK, TypeOK
<1>3. \/ UpdateGraph({a}, executed, actConfirmed \cup {a}, actFailed, synFailed)
      \/ UpdateGraph({a}, executed, actConfirmed, actFailed \cup {a}, synFailed)
  BY ZenonT(30) DEF FenceResult, FenceSucceeded, FenceFailed
<1>4. FlagsOK' /\ TimersOK' /\ ResultsOK' /\ PassOK'
  <2>1. /\ {a} \subseteq Ids /\ synFailed \subseteq actFailed
        /\ \A b \in actConfirmed \ executed : graph[b].task = "cancel"
        /\ \A b \in (actConfirmed \cup {a}) \ executed : graph[b].task = "cancel"
        /\ \A b \in (actFailed \cup {a}) \ actFailed : b \notin actConfirmed
        /\ timers' \subseteq timers \ {a} /\ results' \subseteq results
        /\ <<gid, a>> \notin results'
    BY <1>1, <1>2 DEF Inv, FlagsOK
  <2>2. cursor' = cursor /\ graph' = graph /\ gid' = gid /\ complete' = complete
    BY Zenon, <1>1, PassSame
  <2>3. /\ Ends({a}, actConfirmed \cup {a}, actFailed, synFailed)
        /\ Ends({a}, actConfirmed, actFailed \cup {a}, synFailed)
    BY <1>2, <2>1 DEF Ends
  <2> QED
    BY ZenonT(30), <1>1, <1>3, <2>2, <2>3, EventUpdateInv
<1>5. fenceFails' \in [Nodes -> 0 .. FencingMaxAttempts]
  <2>1. fenceFails \in [Nodes -> 0 .. FencingMaxAttempts]
    BY Unchanging
  <2>2. PICK k \in 0 .. FencingMaxAttempts : fenceFails' = [fenceFails EXCEPT ![n] = k]
    <3>1. fenceFails[n] \in 0 .. FencingMaxAttempts /\ FencingMaxAttempts \in Nat
      BY <1>2, <2>1, LimitsAssumption
    <3>2. CASE FenceSucceeded(a)
      <4>1. 0 \in 0 .. FencingMaxAttempts
        BY <3>1
      <4>2. fenceFails' = [fenceFails EXCEPT ![n] = 0]
        BY Zenon, <3>2 DEF FenceSucceeded
      <4> QED
        BY Zenon, <4>1, <4>2
    <3>3. CASE \E noDevice \in BOOLEAN : FenceFailed(a, noDevice)
      <4> DEFINE k == IF fenceFails[n] < FencingMaxAttempts
                      THEN fenceFails[n] + 1 ELSE fenceFails[n]
      <4>1. k \in 0 .. FencingMaxAttempts
        BY SMTT(30), <3>1
      <4>2. fenceFails' = [fenceFails EXCEPT ![n] = k]
        BY <3>3 DEF FenceFailed
      <4> QED
        BY Zenon, <4>1, <4>2
    <3> QED
      BY <3>2, <3>3 DEF FenceResult
  <2> QED
    BY Zenon, <2>1, <2>2
<1>6. \/ NoAbort
      \/ \E next \in Completions : AbortTransition(INFINITY, next)
  <2>1. CASE FenceSucceeded(a)
    BY ZenonT(30), <2>1 DEF FenceSucceeded
  <2>2. CASE \E noDevice \in BOOLEAN : FenceFailed(a, noDevice)
    BY Zenon, <2>2, Unchanging DEF FenceFailed, AbortForFencingFailure
  <2> QED
    BY SMTT(30), <2>1, <2>2 DEF FenceResult
<1>7. TypeOK'
  BY Zenon, <1>1, <1>4, <1>5, <1>6, Unchanging, EventType DEF load
<1> QED
  BY <1>4, <1>7 DEF Inv

(* fail_incompletable_fencing(): requests that were not confirmed fail,    *)
(* whether or not they were sent.                                          *)
LEMMA FencerLostInv ==
  ASSUME Inv, FencerLost
  PROVE  Inv'
<1> DEFINE lost == {a \in Ids \ (synConfirmed \cup actConfirmed) :
                      graph[a].type = "fence"}
<1>1. /\ Idle /\ trigger' = TRUE
      /\ UpdateGraph(lost, executed, actConfirmed, actFailed \cup lost, synFailed)
      /\ \/ NoAbort
         \/ \E next \in Completions : AbortTransition(INFINITY, next)
      /\ UNCHANGED <<gid, graph, complete, timers, load, mode, pass, results,
                     fenceFails>>
  BY Unchanging DEF FencerLost, AbortForFencingFailure
<1>2. /\ lost \subseteq Ids /\ \A a \in lost : a \notin actConfirmed /\ a \notin timers
  BY DEF Inv, TimersOK
<1> HIDE DEF lost
<1>3. FlagsOK' /\ TimersOK' /\ ResultsOK' /\ PassOK'
  <2>1. /\ synFailed \subseteq actFailed \cup lost
        /\ \A b \in actConfirmed \ executed : graph[b].task = "cancel"
        /\ \A b \in (actFailed \cup lost) \ actFailed : b \notin actConfirmed
        /\ timers' \subseteq timers \ lost
    BY <1>1, <1>2 DEF Inv, FlagsOK
  <2>2. cursor' = cursor
    BY Zenon, <1>1, PassSame
  <2>3. Ends(lost, actConfirmed, actFailed \cup lost, synFailed)
    BY <1>1, <1>2, <2>1 DEF Ends
  <2> QED
    BY <1>1, <2>2, <2>3, EventUpdateInv
<1>4. TypeOK'
  BY <1>1, <1>3, Unchanging, EventType DEF load
<1> QED
  BY SMTT(30), <1>3, <1>4 DEF Inv

(* fail_incompletable_actions() for a lost node. *)
LEMMA FailIncompletableInv ==
  ASSUME Inv, NEW n, Idle, FailIncompletable(n),
         UNCHANGED <<gid, graph, complete, pass, results>>
  PROVE  FlagsOK' /\ TimersOK' /\ ResultsOK' /\ PassOK'
<1> DEFINE gone == Incompletable(n)
<1>1. /\ gone \subseteq Ids
      /\ \A a \in gone : a \notin actConfirmed /\ graph[a].type # "fence"
  BY DEF Incompletable, Scanned
<1>2. /\ UpdateGraph(gone, executed, actConfirmed, actFailed \cup gone,
                     synFailed \cup gone)
      /\ timers' = timers \ gone
  BY DEF FailIncompletable
<1> HIDE DEF gone
<1>3. /\ synFailed \cup gone \subseteq actFailed \cup gone
      /\ \A b \in actConfirmed \ executed : graph[b].task = "cancel"
      /\ \A b \in (actFailed \cup gone) \ actFailed : b \notin actConfirmed
  BY <1>1 DEF Inv, FlagsOK
<1>4. cursor' = cursor
  BY Zenon, PassSame
<1>5. Ends(gone, actConfirmed, actFailed \cup gone, synFailed \cup gone)
  BY <1>1, <1>2, <1>3 DEF Ends
<1> QED
  BY <1>2, <1>4, <1>5, EventUpdateInv

(* Expected or not, the loss of a node keeps the invariant. *)
LEMMA NodeLossInv ==
  ASSUME Inv, NEW n \in Nodes,
         ExpectedNodeLoss(n) \/ UnexpectedNodeLoss(n) \/ ReapDeadNode(n)
  PROVE  Inv'
<1>1. /\ Idle
      /\ UNCHANGED <<gid, graph, complete, load, mode, pass, results, fenceFails>>
      /\ NoAbort \/ AbortTransition(INFINITY, "restart")
  BY DEF ExpectedNodeLoss, UnexpectedNodeLoss, ReapDeadNode
<1>2. trigger' \in BOOLEAN
  BY Zenon DEF ExpectedNodeLoss, UnexpectedNodeLoss, ReapDeadNode, Inv, TypeOK
<1>3. FlagsOK' /\ TimersOK' /\ ResultsOK' /\ PassOK'
  <2>1. CASE UNCHANGED <<flags, timers>>
    <3>1. FlagsOK' /\ TimersOK' /\ ResultsOK' /\ InFlight' = InFlight
      BY <1>1, <2>1, SameFlags
    <3> QED
      BY <3>1, <1>1 DEF Inv, PassOK, pass
  <2>2. CASE FailIncompletable(n)
    BY SMTT(30), <1>1, <2>2, FailIncompletableInv
  <2>3. ASSUME NEW down \in DownEvents(n), graph[down].task = "do_shutdown",
               timers' = timers,
               UpdateGraph({down}, executed, actConfirmed, actFailed, synFailed)
        PROVE  FlagsOK' /\ TimersOK' /\ ResultsOK' /\ PassOK'
    <3>1. down \in Ids /\ down \in executed
      BY SMTT(30) DEF DownEvents, Inv, FlagsOK
    <3>2. graph[down].noWait /\ graph[down].type # "fence"
      BY <2>3, <3>1, GraphIsWellFormed DEF Inv, TypeOK, WellFormedGraph, Ids
    <3>3. timers' \subseteq timers \ {down}
      BY ZenonT(30), <2>3, <3>2 DEF Inv, TimersOK
    <3>4. /\ {down} \subseteq (actConfirmed \cup actFailed)
               \cup (executed \ (synConfirmed \cup synFailed))
          /\ \A b \in actConfirmed \ executed : graph[b].task = "cancel"
          /\ synFailed \subseteq actFailed
      BY <3>1 DEF Inv, FlagsOK
    <3>5. cursor' = cursor /\ {down} \subseteq Ids
      BY Zenon, <1>1, <3>1, PassSame
    <3>6. Ends({down}, actConfirmed, actFailed, synFailed)
      BY <1>1, <3>2, <3>3, <3>4, <3>5 DEF Ends
    <3> QED
      BY ZenonT(30), <1>1, <2>3, <3>5, <3>6, EventUpdateInv
  <2>4. CASE ExpectedNodeLoss(n)
    <3>1. timers' = timers
      BY ZenonT(30), <2>4 DEF ExpectedNodeLoss
    <3>2. PICK down \in DownEvents(n) :
             \/ UNCHANGED flags
             \/ /\ graph[down].task = "do_shutdown"
                /\ UpdateGraph({down}, executed, actConfirmed, actFailed, synFailed)
      BY Zenon, <2>4 DEF ExpectedNodeLoss
    <3> QED
      BY Zenon, <3>1, <3>2, <2>1, <2>3
  <2> QED
    BY <2>1, <2>2, <2>4 DEF UnexpectedNodeLoss, ReapDeadNode
<1>4. TypeOK'
  BY <1>1, <1>2, <1>3, Unchanging, EventType DEF load
<1> QED
  BY <1>3, <1>4 DEF Inv

(* Events that abort or only change what is outside of the graph. *)
LEMMA OutsideEventInv ==
  ASSUME Inv,
         \/ \E r \in results : LateResult(r[1], r[2]) \/ ResultLost(r[1], r[2])
         \/ \E next \in {"wait", "restart"} : ExternalAbort(next)
         \/ \E n \in Nodes : \E level \in Modes : ThrottleUpdate(n, level)
  PROVE  Inv'
<1>1. /\ UNCHANGED <<gid, graph, complete, flags, timers, load, pass, fenceFails>>
      /\ results' \subseteq results
      /\ NoAbort \/ \E next \in Completions : AbortTransition(INFINITY, next)
  <2>1. CASE \E r \in results : LateResult(r[1], r[2]) \/ ResultLost(r[1], r[2])
    BY <2>1, Unchanging DEF LateResult, ResultLost, NoAbort
  <2>2. CASE \E next \in {"wait", "restart"} : ExternalAbort(next)
    BY <2>2, Unchanging DEF ExternalAbort
  <2>3. CASE \E n \in Nodes : \E level \in Modes : ThrottleUpdate(n, level)
    BY <2>3 DEF ThrottleUpdate, NoAbort
  <2> QED
    BY <2>1, <2>2, <2>3
<1>2. mode' \in [Nodes -> Levels]
  BY Zenon, Unchanging, LimitsAssumption
  DEF LateResult, ResultLost, ExternalAbort, ThrottleUpdate
<1>3. trigger' \in BOOLEAN
  BY Zenon DEF LateResult, ResultLost, ExternalAbort, ThrottleUpdate, Inv, TypeOK
<1>4. FlagsOK' /\ TimersOK' /\ ResultsOK' /\ InFlight' = InFlight
  BY <1>1, SameFlags
<1>5. PassOK'
  BY <1>1, <1>4 DEF Inv, PassOK, pass
<1>6. TypeOK'
  BY <1>1, <1>2, <1>3, <1>4, Unchanging, EventType DEF load
<1> QED
  BY <1>4, <1>5, <1>6 DEF Inv

-----------------------------------------------------------------------------
(* Steps as the abstract transition sees them *)

Ended == actConfirmed \cup actFailed

FiringStep(s) ==
  /\ Fires(s) /\ executed' = executed \cup {s}
  /\ Ended' \in {Ended, Ended \cup {s}}
  /\ UNCHANGED <<gid, graph, complete>>

EndingStep ==
  /\ executed' = executed /\ Ended \subseteq Ended'
  /\ UNCHANGED <<gid, graph, complete>>

FinishingStep ==
  /\ ~complete /\ complete' /\ InFlight = {}
  /\ UNCHANGED <<gid, graph, flags>>

(* Firing a synapse executes that synapse only. *)
LEMMA FiringShape ==
  ASSUME Inv, NEW s \in Ids, FireSynapse(s)
  PROVE  FiringStep(s)
<1>1. CASE FireSendFailed(s)
  BY Zenon, <1>1 DEF FireSendFailed, FiringStep, Ended
<1>2. ASSUME NEW waits \in BOOLEAN, Fires(s), AwaitResult(s), Fired(waits)
      PROVE  FiringStep(s)
  BY <1>2 DEF AwaitResult, Fired, FiringStep, Ended
<1>3. ASSUME NEW fl, fl \in {actFailed, actFailed \cup {s}},
             NEW waits \in BOOLEAN, Fires(s), ConfirmFired(s, fl), Fired(waits)
      PROVE  FiringStep(s)
  <2>1. /\ executed' = executed \cup {s} /\ actFailed' = fl
        /\ actConfirmed' = actConfirmed \cup {s}
    BY <1>3 DEF ConfirmFired, UpdateGraph
  <2> QED
    BY SMTT(30), <1>3, <2>1 DEF Fired, FiringStep, Ended
<1>4. CASE \E ok \in BOOLEAN : FireLocalAck(s, ok)
  BY Zenon, <1>4, <1>3 DEF FireLocalAck
<1> QED
  BY Zenon, <1>1, <1>2, <1>3, <1>4 DEF FireSynapse, FirePseudo, FireSent,
     FireAlreadyConfirmed, FireNoWait, FireLocalShutdown, FireFence

(* pcmk__update_graph() takes nothing back. *)
LEMMA UpdateGraphGrows ==
  ASSUME NEW A, NEW cf, NEW fl, NEW sf, UpdateGraph(A, executed, cf, fl, sf)
  PROVE  executed' = executed /\ cf \subseteq actConfirmed' /\ actFailed' = fl
BY DEF UpdateGraph

(* Flags that only grow make an ending step. *)
Growing ==
  /\ executed' = executed
  /\ actConfirmed \subseteq actConfirmed' /\ actFailed \subseteq actFailed'
  /\ UNCHANGED <<gid, graph, complete>>

(* Growing flags, as the abstract transition sees them. *)
LEMMA GrowingEnds == Growing => EndingStep
BY DEF Growing, EndingStep, Ended

(* Events execute nothing and take nothing back. *)
LEMMA EventShape ==
  ASSUME Inv, Event
  PROVE  EndingStep
<1> SUFFICES Growing
  BY GrowingEnds
<1>1. ASSUME UNCHANGED <<gid, graph, complete, flags>> PROVE Growing
  BY <1>1 DEF Growing, flags
<1>2. ASSUME UNCHANGED <<gid, graph, complete>>, NEW a, NEW fl,
             TeActionConfirmed(a, fl), actFailed \subseteq fl
      PROVE  Growing
  <2>1. UpdateGraph({a}, executed, actConfirmed \cup {a}, fl, synFailed)
    BY <1>2 DEF TeActionConfirmed
  <2>2. executed' = executed /\ actConfirmed \cup {a} \subseteq actConfirmed'
        /\ actFailed' = fl
    BY <2>1, UpdateGraphGrows
  <2> QED
    BY <1>2, <2>2 DEF Growing
<1>3. ASSUME NEW a, \E ok \in BOOLEAN : ActionResult(a, ok) PROVE Growing
  <2>1. UNCHANGED <<gid, graph, complete>>
    BY <1>3 DEF ActionResult
  <2>2. PICK fl \in {actFailed, actFailed \cup {a}} : TeActionConfirmed(a, fl)
    BY <1>3 DEF ActionResult
  <2>3. actFailed \subseteq fl
    BY <2>2
  <2> QED
    BY <2>1, <2>2, <2>3, <1>2
<1>4. ASSUME NEW a, ActionTimeout(a) PROVE Growing
  <2>1. /\ UNCHANGED <<gid, graph, complete>>
        /\ UNCHANGED flags \/ TeActionConfirmed(a, actFailed \cup {a})
    BY <1>4 DEF ActionTimeout
  <2>2. actFailed \subseteq actFailed \cup {a}
    OBVIOUS
  <2> QED
    BY <2>1, <2>2, <1>1, <1>2
<1>5. ASSUME NEW a, OperationGone(a) PROVE Growing
  <2>1. UNCHANGED <<gid, graph, complete>> /\ TeActionConfirmed(a, actFailed)
    BY <1>5 DEF OperationGone
  <2> QED
    BY <2>1, <1>2
<1>6. ASSUME UNCHANGED <<gid, graph, complete>>, NEW A, NEW fl, NEW sf,
             UpdateGraph(A, executed, actConfirmed, actFailed \cup fl, sf)
      PROVE  Growing
  <2>1. executed' = executed /\ actConfirmed \subseteq actConfirmed'
        /\ actFailed' = actFailed \cup fl
    BY <1>6, UpdateGraphGrows
  <2> QED
    BY <1>6, <2>1 DEF Growing
<1>7. ASSUME NEW a, FenceResult(a) PROVE Growing
  <2>1. CASE FenceSucceeded(a)
    <3>1. /\ UNCHANGED <<gid, graph, complete>>
          /\ UpdateGraph({a}, executed, actConfirmed \cup {a}, actFailed, synFailed)
      BY <2>1 DEF FenceSucceeded
    <3>2. executed' = executed /\ actConfirmed \cup {a} \subseteq actConfirmed'
          /\ actFailed' = actFailed
      BY <3>1, UpdateGraphGrows
    <3> QED
      BY SMTT(30), <3>1, <3>2 DEF Growing
  <2>2. CASE \E noDevice \in BOOLEAN : FenceFailed(a, noDevice)
    <3>1. /\ UNCHANGED <<gid, graph, complete>>
          /\ UpdateGraph({a}, executed, actConfirmed, actFailed \cup {a}, synFailed)
      BY <2>2 DEF FenceFailed
    <3> QED
      BY ZenonT(30), <3>1, <1>6
  <2> QED
    BY <1>7, <2>1, <2>2 DEF FenceResult
<1>8. ASSUME NEW n, FailIncompletable(n), UNCHANGED <<gid, graph, complete>>
      PROVE  Growing
  <2>1. UpdateGraph(Incompletable(n), executed, actConfirmed,
                    actFailed \cup Incompletable(n), synFailed \cup Incompletable(n))
    BY <1>8 DEF FailIncompletable
  <2> QED
    BY <1>8, <2>1, <1>6
<1>9. ASSUME NEW n, UnexpectedNodeLoss(n) \/ ReapDeadNode(n) PROVE Growing
  <2>1. /\ UNCHANGED <<gid, graph, complete>>
        /\ UNCHANGED flags \/ FailIncompletable(n)
    BY <1>9 DEF UnexpectedNodeLoss, ReapDeadNode
  <2> QED
    BY <2>1, <1>1, <1>8
<1>10. ASSUME NEW n, ExpectedNodeLoss(n) PROVE Growing
  <2>1. /\ UNCHANGED <<gid, graph, complete>>
        /\ \/ UNCHANGED flags
           \/ \E down : UpdateGraph({down}, executed, actConfirmed, actFailed,
                                    synFailed)
    BY Zenon, <1>10 DEF ExpectedNodeLoss
  <2>2. actFailed = actFailed \cup {}
    OBVIOUS
  <2> QED
    BY Zenon, <2>1, <2>2, <1>1, <1>6
<1>11. CASE FencerLost
  <2> DEFINE lost == {a \in Ids \ (synConfirmed \cup actConfirmed) :
                        graph[a].type = "fence"}
  <2>1. /\ UNCHANGED <<gid, graph, complete>>
        /\ UpdateGraph(lost, executed, actConfirmed, actFailed \cup lost, synFailed)
    BY <1>11 DEF FencerLost
  <2> HIDE DEF lost
  <2> QED
    BY <2>1, <1>6
<1>12. ASSUME \/ \E r \in results : LateResult(r[1], r[2]) \/ ResultLost(r[1], r[2])
              \/ \E next \in {"wait", "restart"} : ExternalAbort(next)
              \/ \E n \in Nodes : \E level \in Modes : ThrottleUpdate(n, level)
       PROVE  Growing
  <2>1. UNCHANGED <<gid, graph, complete, flags>>
    BY Zenon, <1>12 DEF LateResult, ResultLost, ExternalAbort, ThrottleUpdate
  <2> QED
    BY <2>1, <1>1
<1> QED
  BY <1>3, <1>4, <1>5, <1>7, <1>9, <1>10, <1>11, <1>12 DEF Event

(* A pass that fires nothing ends nothing, but may finish the transition   *)
(* when nothing is in flight.                                              *)
LEMMA PassShape ==
  ASSUME Inv,
         BeginPass \/ RenotifyComplete \/ ThrottlePass \/ SkipSynapse \/ EndPass
  PROVE  EndingStep \/ FinishingStep
<1>1. ASSUME UNCHANGED <<gid, graph, complete, flags>> PROVE EndingStep
  BY <1>1 DEF EndingStep, Ended, flags
<1>2. CASE EndPass
  <2>1. CASE UNCHANGED complete
    BY <1>1, <1>2, <2>1 DEF EndPass
  <2>2. CASE pending = 0 /\ complete'
    <3>1. cursor # 0
      BY <1>2, IdsType DEF EndPass, Inv, TypeOK
    <3>2. ~complete /\ InFlight = {}
      BY <3>1, <2>2 DEF Inv, PassOK
    <3> QED
      BY SMTT(30), <1>2, <2>2, <3>2 DEF EndPass, FinishingStep
  <2> QED
    BY <1>2, <2>1, <2>2 DEF EndPass
<1> QED
  BY <1>1, <1>2 DEF BeginPass, RenotifyComplete, ThrottlePass, SkipSynapse

(* Every step has one of four shapes. *)
LEMMA StepShape ==
  ASSUME Inv, [Next]_vars
  PROVE  \/ \E s \in Ids : FiringStep(s)
         \/ EndingStep
         \/ FinishingStep
         \/ \E g \in Graphs : StartTransition(g)
<1>1. CASE Pass
  BY <1>1, FiringShape, PassShape DEF Pass
<1>2. CASE Event
  BY <1>2, EventShape
<1>3. CASE UNCHANGED vars
  BY <1>3 DEF vars, flags, EndingStep, Ended
<1> QED
  BY <1>1, <1>2, <1>3 DEF Next

(* Every step of the engine is a step of the abstract transition. *)
LEMMA StepRefines == Inv /\ Inv' /\ [Next]_vars => [T!TNext]_(T!tvars)
<1> SUFFICES ASSUME Inv, Inv', [Next]_vars PROVE T!TNext \/ UNCHANGED T!tvars
  OBVIOUS
<1>1. /\ DOMAIN Plan(graph) = Ids
      /\ \A a \in Ids : Plan(graph)[a] = graph[a].inputs
  BY DEF Plan, Ids
<1>2. ASSUME graph' = graph PROVE Plan(graph)' = Plan(graph)
  BY <1>2 DEF Plan
<1>3. ASSUME NEW s \in Ids, FiringStep(s) PROVE T!TNext
  <2>1. ~complete /\ s \notin executed /\ graph[s].inputs \subseteq Ended
    <3>1. /\ s \notin executed /\ ~complete
          /\ \A i \in graph[s].inputs : <<s, i>> \in inputsDone
      BY <1>3, FiringSynapse DEF FiringStep
    <3>2. \A i \in graph[s].inputs : i \in Ids /\ Sound(s, i)
      BY ZenonT(30), <3>1, IdsType DEF Inv, TypeOK, FlagsOK
    <3> QED
      BY <3>1, <3>2 DEF Sound, Ended
  <2>2. T!Start(s)
    BY SMTT(30), <1>1, <1>2, <1>3, <2>1 DEF T!Start, FiringStep, Ended
  <2> QED
    BY <1>1, <2>2 DEF T!TNext
<1>4. CASE EndingStep
  <2>1. Ended' \subseteq Ids
    BY <1>4 DEF Inv, FlagsOK, Ended, EndingStep, Ids
  <2>2. T!End(Ended')
    BY <1>1, <1>2, <1>4, <2>1 DEF T!End, EndingStep, Ended
  <2> QED
    BY SMTT(30), <1>1, <2>1, <2>2 DEF T!TNext
<1>5. CASE FinishingStep
  <2>1. executed \subseteq Ended
    BY <1>5 DEF FinishingStep, InFlight, Inv, FlagsOK, Ended
  <2>2. T!Finish
    BY <1>2, <1>5, <2>1 DEF T!Finish, FinishingStep, flags, Ended
  <2> QED
    BY <2>2 DEF T!TNext
<1>6. ASSUME NEW g \in Graphs, StartTransition(g) PROVE T!TNext
  <2>1. T!Begin(Plan(g))
    BY <1>6 DEF T!Begin, StartTransition, Plan
  <2> QED
    BY <2>1 DEF T!TNext
<1> QED
  BY <1>3, <1>4, <1>5, <1>6, StepShape

-----------------------------------------------------------------------------
(* The inductive invariant holds *)

INSTANCE FiniteSetTheorems

(* The number of synapses in flight is a natural number, and zero only if  *)
(* there are none.                                                         *)
LEMMA InFlightCount ==
  ASSUME Inv
  PROVE  /\ Cardinality(InFlight) \in Nat
         /\ Cardinality(InFlight) = 0 => InFlight = {}
<1>1. InFlight \subseteq 1 .. Len(graph) /\ Len(graph) \in Nat
  BY IdsType DEF InFlight, Inv, TypeOK
<1>2. IsFiniteSet(1 .. Len(graph))
  BY <1>1, FS_Interval
<1>3. IsFiniteSet(InFlight)
  BY Zenon, <1>1, <1>2, FS_Subset
<1> QED
  BY <1>3, FS_CardinalityType, FS_EmptySet

(* A pass begins with a correct count. *)
LEMMA BeginPassInv ==
  ASSUME Inv, BeginPass
  PROVE  Inv'
<1>1. /\ UNCHANGED <<gid, graph, complete, flags, timers, load, mode, results,
                      fenceFails, abortPriority, completion, raised>>
      /\ cursor' = 1 /\ fired' = 0 /\ pending' = Cardinality(InFlight)
      /\ trigger' = FALSE /\ ~complete
  BY DEF BeginPass
<1>2. FlagsOK' /\ TimersOK' /\ ResultsOK' /\ InFlight' = InFlight
  BY <1>1, SameFlags
<1>3. PassOK'
  BY <1>1, <1>2, InFlightCount DEF PassOK, Inv
<1>4. /\ cursor' \in 0 .. Len(graph) + 1 /\ fired' \in Nat /\ pending' \in Nat
  BY <1>1, IdsType, InFlightCount DEF Inv, TypeOK
<1>5. TypeOK'
  BY Zenon, <1>1, <1>2, <1>4, TypeStep DEF Inv, TypeOK, load
<1> QED
  BY <1>2, <1>3, <1>5 DEF Inv

(* Every step preserves the invariant. *)
LEMMA NextInv == Inv /\ [Next]_vars => Inv'
<1> SUFFICES ASSUME Inv, [Next]_vars PROVE Inv'
  OBVIOUS
<1>1. ASSUME NEW s \in Ids, FireSynapse(s) PROVE Inv'
  BY <1>1, FireConfirmedInv, FireAwaitInv, FireLocalAckInv, FireSendFailedInv
  DEF FireSynapse
<1>2. CASE Pass
  BY <1>1, <1>2, BeginPassInv, PassInv DEF Pass
<1>3. CASE Event
  BY <1>3, ActionResultInv, ActionTimeoutInv, FenceResultInv, OperationGoneInv,
     OutsideEventInv, NodeLossInv, FencerLostInv DEF Event
<1>4. CASE \E g \in Graphs : StartTransition(g)
  BY <1>4, StartInv
<1>5. CASE UNCHANGED vars
  <2>1. UNCHANGED <<gid, graph, flags, timers>> /\ results' = results
    BY <1>5 DEF vars
  <2>2. FlagsOK' /\ TimersOK' /\ ResultsOK' /\ InFlight' = InFlight /\ Ids' = Ids
    BY <2>1, SameFlags
  <2>3. PassOK'
    BY <1>5, <2>2 DEF vars, pass, Inv, PassOK
  <2>4. TypeOK'
    BY <1>5, <2>2 DEF vars, pass, load, flags, Inv, TypeOK
  <2> QED
    BY <2>2, <2>3, <2>4 DEF Inv
<1> QED
  BY <1>2, <1>3, <1>4, <1>5 DEF Next

(* The inductive invariant holds in every reachable state. *)
LEMMA Invariance == Spec => []Inv
<1>1. Init => Inv
  BY InitInv
<1>2. Inv /\ [Next]_vars => Inv'
  BY NextInv
<1> QED
  BY <1>1, <1>2, PTL DEF Spec

-----------------------------------------------------------------------------
(* Theorems *)

(* The state of the engine keeps its types; in particular the flags that   *)
(* pcmk__update_graph() and its callers set only ever name actions of the  *)
(* current graph, and the count of pending synapses is a natural number.   *)
THEOREM TypeCorrect == Spec => []TypeOK
<1>1. Inv => TypeOK
  BY DEF Inv
<1> QED
  BY <1>1, Invariance, PTL

(* Ordering (should_fire_synapse, pcmk__update_graph): for every graph, an *)
(* action has only been executed if all of its inputs were confirmed       *)
(* without failing, or at least ended for priority INFINITY.               *)
THEOREM OrderingHolds == Spec => []InputsFirst
<1>1. Inv => InputsFirst
  BY DEF Inv, FlagsOK, InputsFirst, Sound
<1> QED
  BY <1>1, Invariance, PTL

(* Completion (pcmk__execute_graph): when the engine reports the end of a  *)
(* transition, no synapse is in flight and no action timer is running.     *)
THEOREM CompletionIsQuiet == Spec => []QuietWhenComplete
<1>1. Inv => QuietWhenComplete
  BY DEF Inv, PassOK, TimersOK, QuietWhenComplete
<1> QED
  BY <1>1, Invariance, PTL

(* Aborts (should_fire_synapse, update_abort_priority): in every graph,    *)
(* once the abort priority is INFINITY or more, only pseudo-actions and    *)
(* actions of priority INFINITY are started in that transition.            *)
THEOREM AbortsStopFiring == Spec => AbortStopsFiring
<1> DEFINE A == abortPriority >= INFINITY /\ gid' = gid =>
                  \A s \in executed' \ executed :
                    graph[s].type = "pseudo" \/ graph[s].priority = INFINITY
<1>1. Inv /\ [Next]_vars => [A]_vars
  <2> SUFFICES ASSUME Inv, [Next]_vars, abortPriority >= INFINITY, gid' = gid,
                      NEW s \in executed' \ executed
               PROVE  graph[s].type = "pseudo" \/ graph[s].priority = INFINITY
    OBVIOUS
  <2>1. CASE \E t \in Ids : FiringStep(t)
    <3>1. s \in Ids /\ Fires(s)
      BY <2>1 DEF FiringStep
    <3>2. graph[s].priority \in 0 .. INFINITY /\ abortPriority \in 0 .. INFINITY + 1
      BY <3>1, IdsType DEF Inv, TypeOK
    <3> QED
      BY <3>1, <3>2, InfinityType DEF Fires, ShouldFire
  <2>2. CASE EndingStep \/ FinishingStep
    BY <2>2 DEF EndingStep, FinishingStep, flags
  <2>3. CASE \E g \in Graphs : StartTransition(g)
    BY <2>3 DEF StartTransition, Inv, TypeOK
  <2> QED
    BY <2>1, <2>2, <2>3, StepShape
<1> QED
  BY <1>1, Invariance, PTL DEF Spec, AbortStopsFiring

(* Refinement: for every set of graphs the engine implements Transition.   *)
(* It starts an action at most once and only after its inputs have ended,  *)
(* and it reports the end of a transition (notify_crmd) only when every    *)
(* action that it started has ended.                                       *)
THEOREM EngineImplementsTransition == Spec => ImplementsTransition
<1>1. Init => T!TInit
  <2> SUFFICES ASSUME Init PROVE T!TInit
    OBVIOUS
  <2>1. Plan(graph) = <<>>
    BY DEF Init, Plan
  <2> QED
    BY <2>1 DEF Init, T!TInit
<1>2. Inv /\ Inv' /\ [Next]_vars => [T!TNext]_(T!tvars)
  BY StepRefines
<1> QED
  BY <1>1, <1>2, Invariance, PTL DEF Spec, ImplementsTransition, T!TSpec
==============================================================================
