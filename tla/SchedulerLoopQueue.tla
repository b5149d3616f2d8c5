-------------------------- MODULE SchedulerLoopQueue ---------------------------
(***************************************************************************)
(* Lemmas about SchedulerLoop: what the queue of the FSA and its pending   *)
(* actions say about the states to come, the strengthening of IdleIsCurrent *)
(* (Current and Tracked), and what the functions of the controller do to it. *)
(***************************************************************************)
EXTENDS SchedulerLoop, TLAPS

(* A message that brings A_TE_INVOKE about has the graph. *)
Kept(m) ==
  "A_TE_INVOKE" \in m.acts \/ m.input = "I_PE_SUCCESS" => m.data.kind = "graph"

Queue(q) == q \in Seq(Msgs) /\ \A i \in DOMAIN q : Kept(q[i])

(* A_TE_INVOKE is only due while a message with a graph is handled, which  *)
(* is given up when the FSA stalls.                                        *)
Invokes(d) ==
  "A_TE_INVOKE" \in d.acts => d.busy /\ ~d.stalled /\ d.cur.data.kind = "graph"

Good(d) == d \in Controllers /\ Queue(d.queue) /\ Invokes(d)

(* Between the steps of the FSA *)
Stable(d) ==
  /\ d.running => ~d.stalled
  /\ d.busy => d.running /\ d.acts # {}
  /\ d.running /\ ~d.busy => d.queue # <<>>

Shape ==
  /\ Good(dc) /\ Stable(dc)
  /\ cib \in Nat /\ pipe \in Seq(CibMsgs) /\ sched \in Seq(Requests)

-----------------------------------------------------------------------------
(* The tables *)

LEMMA InputSet ==
  Inputs = {"I_NULL", "I_WAIT_FOR_EVENT", "I_PE_CALC", "I_PE_SUCCESS",
            "I_TE_SUCCESS", "I_NODE_JOIN", "I_INTEGRATED", "I_FINALIZED",
            "I_ELECTION", "I_ELECTION_DC", "I_ERROR", "I_FAIL"}
  BY DEF Inputs, NextState

LEMMA GoesTypes ==
  ASSUME NEW from, NEW to \in States
  PROVE  Goes(from, to) \in [States -> States]
  BY DEF Goes

LEMMA NextTypes == \A i \in Inputs : NextState[i] \in [States -> States]
  <1> SUFFICES ASSUME NEW i \in Inputs PROVE NextState[i] \in [States -> States]
    OBVIOUS
  <1>1. /\ "S_IDLE" \in States /\ "S_POLICY_ENGINE" \in States
        /\ "S_TRANSITION_ENGINE" \in States /\ "S_INTEGRATION" \in States
        /\ "S_FINALIZE_JOIN" \in States /\ "S_ELECTION" \in States
        /\ "S_RECOVERY" \in States
    BY DEF States
  <1>2. \A from : \A to \in States : Goes(from, to) \in [States -> States]
    BY GoesTypes
  <1>3. CASE i = "I_FAIL"
    BY <1>1, <1>2, <1>3 DEF NextState
  <1>4. CASE i # "I_FAIL"
    BY <1>1, <1>2, <1>4, InputSet DEF NextState
  <1> QED BY <1>3, <1>4

LEMMA ActionTypes ==
  \A i \in Inputs : /\ NewActions[i] \in [States -> SUBSET Actions]
                    /\ \A s \in States :
                         "A_TE_INVOKE" \in NewActions[i][s] => i = "I_PE_SUCCESS"
  <1> DEFINE A == Actions \ {"A_TE_INVOKE"}
  <1> SUFFICES ASSUME NEW i \in Inputs
               PROVE  /\ NewActions[i] \in [States -> SUBSET Actions]
                      /\ i # "I_PE_SUCCESS" => NewActions[i] \in [States -> SUBSET A]
    OBVIOUS
  <1>1. /\ {} \in SUBSET A /\ {"A_PE_INVOKE"} \in SUBSET A
        /\ {"A_TE_HALT"} \in SUBSET A /\ {"A_TE_CANCEL"} \in SUBSET A
        /\ {"A_PE_START"} \in SUBSET A /\ {"A_PE_INVOKE", "A_TE_CANCEL"} \in SUBSET A
        /\ {"A_TE_INVOKE"} \in SUBSET Actions
    BY DEF Actions
  <1>2. /\ \A from : \A acts \in SUBSET A : Does(from, acts) \in [States -> SUBSET A]
        /\ \A from : \A acts \in SUBSET Actions :
             Does(from, acts) \in [States -> SUBSET Actions]
    BY DEF Does
  <1>3. [States -> SUBSET A] \subseteq [States -> SUBSET Actions]
    OBVIOUS
  <1> HIDE DEF A
  <1>4. CASE i = "I_FAIL"
    BY <1>1, <1>2, <1>3, <1>4, Zenon DEF NewActions
  <1>5. CASE i # "I_FAIL"
    BY <1>1, <1>2, <1>3, <1>5, InputSet DEF NewActions, Nothing
  <1> QED BY <1>4, <1>5

-----------------------------------------------------------------------------
(* Messages *)

LEMMA QueueTail ==
  ASSUME NEW q, Queue(q), q # <<>>
  PROVE  Queue(Tail(q)) /\ Head(q) \in Msgs /\ Kept(Head(q))
  <1>1. Tail(q) \in Seq(Msgs) /\ Head(q) \in Msgs /\ Kept(Head(q))
    BY DEF Queue
  <1>2. ASSUME NEW i \in DOMAIN Tail(q) PROVE Kept(Tail(q)[i])
    BY <1>2 DEF Queue
  <1> QED BY <1>1, <1>2 DEF Queue

LEMMA MsgTypes ==
  ASSUME NEW input \in Inputs, NEW data \in Data, NEW acts \in SUBSET Actions
  PROVE  /\ Msg(input, data, acts) \in Msgs
         /\ Msg(input, data, acts).input = input
         /\ Msg(input, data, acts).data = data
         /\ Msg(input, data, acts).acts = acts
  BY DEF Msg, Msgs

LEMMA DataTypes ==
  /\ NoData \in Data /\ JoinData \in Data /\ NoMsg \in Msgs
  /\ NoMsg.data = NoData /\ NoData.kind = "none"
  BY MsgTypes, InputSet DEF NoData, JoinData, Data, NoRef, NoMsg, Msg, Msgs

-----------------------------------------------------------------------------
(* Positions in the queue of the FSA *)

(* Inputs that end S_POLICY_ENGINE, and inputs that end S_TRANSITION_ENGINE *)
Exits == {"I_NODE_JOIN", "I_ELECTION", "I_ELECTION_DC", "I_ERROR", "I_FAIL"}
Barriers == Exits \cup {"I_PE_CALC"}

Ends(q) == {i \in DOMAIN q : q[i].input = "I_TE_SUCCESS"}

(* The FSA is not in S_TRANSITION_ENGINE when it comes to message i. *)
Harmless(st, q, i) ==
  \E k \in 0 .. i - 1 :
    /\ k = 0 => st # "S_TRANSITION_ENGINE"
    /\ k > 0 => q[k].input \in Barriers
    /\ \A j \in k + 1 .. i - 1 : q[j].input # "I_PE_SUCCESS"

(* One of some inputs comes, and none of another kind before it. *)
Comes(q, inputs, other) ==
  \E k \in DOMAIN q : /\ q[k].input \in inputs
                      /\ \A j \in 1 .. k - 1 : q[j].input # other

Appended(q, m, r) ==
  /\ Len(r) = Len(q) + 1 /\ r[Len(q) + 1] = m
  /\ \A i \in 1 .. Len(q) : r[i] = q[i]

Prepended(q, m, r) ==
  /\ Len(r) = Len(q) + 1 /\ r[1] = m
  /\ \A i \in 1 .. Len(q) : r[i + 1] = q[i]

LEMMA AppendIs ==
  ASSUME NEW q \in Seq(Msgs), NEW m \in Msgs
  PROVE  Append(q, m) \in Seq(Msgs) /\ Appended(q, m, Append(q, m))
  BY DEF Appended

LEMMA AppendedIs ==
  ASSUME NEW q \in Seq(Msgs), NEW r \in Seq(Msgs), NEW m, Appended(q, m, r)
  PROVE  /\ \A j \in DOMAIN r : \/ j \in DOMAIN q /\ r[j] = q[j]
                                \/ j = Len(q) + 1 /\ r[j] = m
         /\ \A j \in DOMAIN q : j < Len(q) + 1
  BY DEF Appended

LEMMA PrependIs ==
  ASSUME NEW q \in Seq(Msgs), NEW m \in Msgs
  PROVE  <<m>> \o q \in Seq(Msgs) /\ Prepended(q, m, <<m>> \o q)
  <1>1. <<m>> \in Seq(Msgs) /\ Len(<<m>>) = 1 /\ <<m>>[1] = m
    OBVIOUS
  <1> HIDE DEF Prepended
  <1>2. <<m>> \o q \in Seq(Msgs) /\ Len(<<m>> \o q) = Len(q) + 1
    BY <1>1
  <1>3. (<<m>> \o q)[1] = m
    BY <1>1
  <1>4. ASSUME NEW i \in 1 .. Len(q) PROVE (<<m>> \o q)[i + 1] = q[i]
    BY <1>1
  <1> QED BY <1>2, <1>3, <1>4 DEF Prepended

LEMMA TailIs ==
  ASSUME NEW q \in Seq(Msgs), q # <<>>
  PROVE  /\ Tail(q) \in Seq(Msgs) /\ Head(q) \in Msgs
         /\ Prepended(Tail(q), Head(q), q)
  BY DEF Prepended

LEMMA HarmlessAppend ==
  ASSUME NEW q \in Seq(Msgs), NEW r \in Seq(Msgs), NEW m, Appended(q, m, r),
         NEW st, NEW i \in DOMAIN q, Harmless(st, q, i)
  PROVE  Harmless(st, r, i)
  BY DEF Appended, Harmless

LEMMA HarmlessPrepend ==
  ASSUME NEW q \in Seq(Msgs), NEW r \in Seq(Msgs), NEW m, Prepended(q, m, r),
         m.input # "I_PE_SUCCESS",
         NEW st, NEW i \in DOMAIN q, Harmless(st, q, i)
  PROVE  Harmless(st, r, i + 1)
  <1>1. PICK k \in 0 .. i - 1 :
          /\ k = 0 => st # "S_TRANSITION_ENGINE"
          /\ k > 0 => q[k].input \in Barriers
          /\ \A j \in k + 1 .. i - 1 : q[j].input # "I_PE_SUCCESS"
    BY DEF Harmless
  <1>2. CASE k = 0
    <2>1. ASSUME NEW j \in 0 + 1 .. i + 1 - 1 PROVE r[j].input # "I_PE_SUCCESS"
      <3>1. CASE j = 1 BY <3>1 DEF Prepended
      <3>2. CASE j # 1
        <4>1. j - 1 \in 1 .. Len(q) /\ (j - 1) + 1 = j /\ j - 1 \in k + 1 .. i - 1
          BY <1>2, <3>2
        <4>2. r[(j - 1) + 1] = q[j - 1]
          BY <4>1 DEF Prepended
        <4> QED BY <1>1, <4>1, <4>2
      <3> QED BY <3>1, <3>2
    <2> QED BY <1>1, <1>2, <2>1 DEF Harmless
  <1>3. CASE k # 0
    <2>0. k \in 1 .. Len(q)
      BY <1>3
    <2>1. r[k + 1] = q[k]
      BY <2>0 DEF Prepended
    <2>2. ASSUME NEW j \in (k + 1) + 1 .. i + 1 - 1 PROVE r[j].input # "I_PE_SUCCESS"
      <3>1. j - 1 \in 1 .. Len(q) /\ (j - 1) + 1 = j /\ j - 1 \in k + 1 .. i - 1
        OBVIOUS
      <3>2. r[(j - 1) + 1] = q[j - 1]
        BY <3>1 DEF Prepended
      <3> QED BY <1>1, <3>1, <3>2
    <2>3. k + 1 \in 0 .. i + 1 - 1 /\ k + 1 # 0
      OBVIOUS
    <2>4. r[k + 1].input \in Barriers
      BY <1>1, <1>3, <2>1
    <2> SUFFICES \E x \in 0 .. i + 1 - 1 :
                   /\ x = 0 => st # "S_TRANSITION_ENGINE"
                   /\ x > 0 => r[x].input \in Barriers
                   /\ \A j \in x + 1 .. i + 1 - 1 : r[j].input # "I_PE_SUCCESS"
      BY DEF Harmless
    <2> WITNESS k + 1 \in 0 .. i + 1 - 1
    <2> QED BY <2>2, <2>3, <2>4
  <1> QED BY <1>2, <1>3

(* The first message is handled. *)
LEMMA HarmlessTail ==
  ASSUME NEW q \in Seq(Msgs), NEW r \in Seq(Msgs), NEW m, Prepended(r, m, q),
         NEW st, NEW nst, NEW i \in DOMAIN r, Harmless(st, q, i + 1),
         m.input \in Barriers => nst # "S_TRANSITION_ENGINE",
         st # "S_TRANSITION_ENGINE" /\ m.input # "I_PE_SUCCESS"
           => nst # "S_TRANSITION_ENGINE"
  PROVE  Harmless(nst, r, i)
  <1>1. PICK k \in 0 .. i + 1 - 1 :
          /\ k = 0 => st # "S_TRANSITION_ENGINE"
          /\ k > 0 => q[k].input \in Barriers
          /\ \A j \in k + 1 .. i + 1 - 1 : q[j].input # "I_PE_SUCCESS"
    BY DEF Harmless
  <1>2. \A j \in 1 .. Len(r) : q[j + 1] = r[j]
    BY DEF Prepended
  <1>3. CASE k \in {0, 1}
    <2>1. nst # "S_TRANSITION_ENGINE"
      BY <1>1, <1>3 DEF Prepended
    <2>2. \A j \in 0 + 1 .. i - 1 : r[j].input # "I_PE_SUCCESS"
      BY <1>1, <1>2, <1>3
    <2> QED BY <2>1, <2>2 DEF Harmless
  <1>4. CASE k \notin {0, 1}
    <2>1. k - 1 \in 0 .. i - 1 /\ k - 1 > 0 /\ r[k - 1] = q[k]
      BY <1>2, <1>4
    <2>2. ASSUME NEW j \in (k - 1) + 1 .. i - 1 PROVE r[j].input # "I_PE_SUCCESS"
      <3>1. j \in 1 .. Len(r) /\ j + 1 \in k + 1 .. i + 1 - 1
        BY <1>4
      <3> QED BY <1>1, <1>2, <3>1
    <2>3. k - 1 # 0 /\ r[k - 1].input \in Barriers
      BY <1>1, <1>4, <2>1
    <2> SUFFICES \E x \in 0 .. i - 1 :
                   /\ x = 0 => nst # "S_TRANSITION_ENGINE"
                   /\ x > 0 => r[x].input \in Barriers
                   /\ \A j \in x + 1 .. i - 1 : r[j].input # "I_PE_SUCCESS"
      BY DEF Harmless
    <2> k - 1 \in 0 .. i - 1
      BY <2>1
    <2> WITNESS k - 1 \in 0 .. i - 1
    <2> QED BY <2>2, <2>3
  <1> QED BY <1>3, <1>4

-----------------------------------------------------------------------------
(* What the queue says about the messages to come *)

Stops == {"A_TE_HALT", "A_TE_CANCEL"}

LeavesEngine(q) == Comes(q, Barriers, "I_TE_SUCCESS")
LeavesPolicy(q) == Comes(q, Exits, "I_PE_SUCCESS")

AllHarmless(st, q) == \A i \in Ends(q) : Harmless(st, q, i)

(* Each I_TE_SUCCESS is harmless, or followed by a calculation. *)
AllCovered(st, q) == \A i \in Ends(q) : Harmless(st, q, i) \/ CalcAfter(q, i)

Stopping(m) == m.data = NoData /\ m.acts \cap Stops # {}

StopsHarmless(st, q) == \A i \in DOMAIN q : Stopping(q[i]) => Harmless(st, q, i)

(* One of some actions comes before S_TRANSITION_ENGINE ends. *)
Ahead(st, q, acts) ==
  \E w \in DOMAIN q : /\ q[w].acts \cap acts # {} /\ q[w].input # "I_TE_SUCCESS"
                      /\ \A i \in Ends(q) : i < w => Harmless(st, q, i)

(* Nothing that was to come is lost. *)
Keeps(st, q, r) ==
  /\ CalcAfter(q, 0) => CalcAfter(r, 0)
  /\ LeavesEngine(q) => LeavesEngine(r)
  /\ LeavesPolicy(q) => LeavesPolicy(r)
  /\ StopsHarmless(st, q) => StopsHarmless(st, r)
  /\ Ahead(st, q, Stops) => Ahead(st, r, Stops)
  /\ Ahead(st, q, {"A_TE_INVOKE"}) => Ahead(st, r, {"A_TE_INVOKE"})
  /\ q # <<>> => r # <<>>

Grows(st, q, r) ==
  /\ Keeps(st, q, r)
  /\ AllHarmless(st, q) => AllHarmless(st, r)
  /\ AllCovered(st, q) => AllCovered(st, r)

LEMMA CalcAppend ==
  ASSUME NEW q \in Seq(Msgs), NEW r \in Seq(Msgs), NEW m, Appended(q, m, r), NEW i
  PROVE  /\ CalcAfter(q, i) => CalcAfter(r, i)
         /\ m.input = "I_PE_CALC" /\ i \in 0 .. Len(q) => CalcAfter(r, i)
  BY DEF Appended, CalcAfter

LEMMA CalcPrepend ==
  ASSUME NEW q \in Seq(Msgs), NEW r \in Seq(Msgs), NEW m, Prepended(q, m, r), NEW i \in Nat
  PROVE  /\ CalcAfter(q, i) => CalcAfter(r, i + 1)
         /\ CalcAfter(r, i + 1) => CalcAfter(q, i)
         /\ CalcAfter(r, 0) => m.input = "I_PE_CALC" \/ CalcAfter(q, 0)
         /\ CalcAfter(q, 0) => CalcAfter(r, 0)
  <1>1. \A k \in 1 .. Len(q) : r[k + 1] = q[k] /\ k + 1 \in DOMAIN r
    BY DEF Prepended
  <1>2. \A k \in DOMAIN r : k = 1 \/ (k - 1 \in 1 .. Len(q) /\ r[k] = q[k - 1])
    BY <1>1 DEF Prepended
  <1>3. r[1] = m
    BY DEF Prepended
  <1>4. CalcAfter(q, i) => CalcAfter(r, i + 1)
    BY <1>1 DEF CalcAfter
  <1>5. CalcAfter(r, i + 1) => CalcAfter(q, i)
    BY <1>2 DEF CalcAfter
  <1>6. CalcAfter(r, 0) => m.input = "I_PE_CALC" \/ CalcAfter(q, 0)
    BY <1>2, <1>3 DEF CalcAfter
  <1>7. CalcAfter(q, 0) => CalcAfter(r, 0)
    BY <1>1 DEF CalcAfter
  <1> QED BY <1>4, <1>5, <1>6, <1>7

LEMMA ComesAppend ==
  ASSUME NEW q \in Seq(Msgs), NEW r \in Seq(Msgs), NEW m, Appended(q, m, r),
         NEW inputs, NEW other
  PROVE  Comes(q, inputs, other) => Comes(r, inputs, other)
  BY DEF Appended, Comes

LEMMA ComesPrepend ==
  ASSUME NEW q \in Seq(Msgs), NEW r \in Seq(Msgs), NEW m, Prepended(q, m, r),
         NEW inputs, NEW other
  PROVE  /\ m.input # other /\ Comes(q, inputs, other) => Comes(r, inputs, other)
         /\ m.input \in inputs => Comes(r, inputs, other)
         /\ Comes(r, inputs, other)
              => m.input \in inputs \/ (m.input # other /\ Comes(q, inputs, other))
  <1>1. \A k \in 1 .. Len(q) : r[k + 1] = q[k] /\ k + 1 \in DOMAIN r
    BY DEF Prepended
  <1>2. r[1] = m /\ 1 \in DOMAIN r
    BY DEF Prepended
  <1>3. ASSUME m.input # other, Comes(q, inputs, other) PROVE Comes(r, inputs, other)
    <2>1. PICK k \in DOMAIN q : /\ q[k].input \in inputs
                                /\ \A j \in 1 .. k - 1 : q[j].input # other
      BY <1>3 DEF Comes
    <2>2. ASSUME NEW j \in 1 .. k + 1 - 1 PROVE r[j].input # other
      <3>1. CASE j = 1 BY <1>2, <1>3, <3>1
      <3>2. CASE j # 1
        <4>1. j - 1 \in 1 .. Len(q) /\ j - 1 \in 1 .. k - 1 /\ j = (j - 1) + 1
          BY <3>2
        <4> QED BY <1>1, <2>1, <4>1
      <3> QED BY <3>1, <3>2
    <2>3. k + 1 \in DOMAIN r /\ r[k + 1].input \in inputs
      BY <1>1, <2>1
    <2> QED BY <2>2, <2>3 DEF Comes
  <1>4. m.input \in inputs => Comes(r, inputs, other)
    BY <1>2 DEF Comes
  <1>5. ASSUME Comes(r, inputs, other), m.input \notin inputs
        PROVE  m.input # other /\ Comes(q, inputs, other)
    <2>1. PICK k \in DOMAIN r : /\ r[k].input \in inputs
                                /\ \A j \in 1 .. k - 1 : r[j].input # other
      BY <1>5 DEF Comes
    <2>2. k # 1 /\ k - 1 \in DOMAIN q /\ k = (k - 1) + 1 /\ k - 1 \in 1 .. Len(q)
      BY <1>2, <1>5, <2>1 DEF Prepended
    <2>3. q[k - 1] = r[k] /\ r[1].input # other
      BY <1>1, <2>1, <2>2
    <2>4. ASSUME NEW j \in 1 .. (k - 1) - 1 PROVE q[j].input # other
      <3>1. j \in 1 .. Len(q) /\ j + 1 \in 1 .. k - 1
        BY <2>2
      <3> QED BY <1>1, <2>1, <3>1
    <2> QED BY <1>2, <2>1, <2>2, <2>3, <2>4 DEF Comes
  <1> QED BY <1>3, <1>4, <1>5

LEMMA EndsAppend ==
  ASSUME NEW q \in Seq(Msgs), NEW r \in Seq(Msgs), NEW m, Appended(q, m, r)
  PROVE  /\ \A i \in Ends(q) : i \in Ends(r) /\ i \in DOMAIN q
         /\ \A i \in Ends(r) : i \in Ends(q) \/ (i = Len(q) + 1 /\ m.input = "I_TE_SUCCESS")
  BY DEF Appended, Ends

LEMMA EndsPrepend ==
  ASSUME NEW q \in Seq(Msgs), NEW r \in Seq(Msgs), NEW m, Prepended(q, m, r)
  PROVE  /\ \A i \in Ends(q) : i + 1 \in Ends(r) /\ i \in DOMAIN q
         /\ \A i \in Ends(r) : \/ i - 1 \in Ends(q) /\ i - 1 \in DOMAIN q /\ i \in DOMAIN r
                               \/ i = 1 /\ m.input = "I_TE_SUCCESS"
  <1>1. \A k \in 1 .. Len(q) : r[k + 1] = q[k] /\ k + 1 \in DOMAIN r
    BY DEF Prepended
  <1>2. \A k \in DOMAIN r : k = 1 \/ (k - 1 \in 1 .. Len(q) /\ r[k] = q[k - 1])
    BY <1>1 DEF Prepended
  <1>3. r[1] = m
    BY DEF Prepended
  <1> QED BY <1>1, <1>2, <1>3 DEF Ends

(* A message at the end of the queue takes nothing away. *)
LEMMA KeepsAppend ==
  ASSUME NEW q \in Seq(Msgs), NEW r \in Seq(Msgs), NEW m, Appended(q, m, r),
         ~Stopping(m), NEW st
  PROVE  /\ Keeps(st, q, r)
         /\ m.input # "I_TE_SUCCESS" => Grows(st, q, r)
         /\ m.input = "I_PE_CALC" => AllCovered(st, r)
  <1>1. \A i \in DOMAIN q : r[i] = q[i] /\ i \in DOMAIN r
    BY DEF Appended
  <1>2. \A i \in DOMAIN r : i \in DOMAIN q \/ (i = Len(q) + 1 /\ r[i] = m)
    BY DEF Appended
  <1>3. \A i \in DOMAIN q : Harmless(st, q, i) => Harmless(st, r, i)
    BY HarmlessAppend
  <1>4. StopsHarmless(st, q) => StopsHarmless(st, r)
    BY <1>1, <1>2, <1>3 DEF StopsHarmless
  <1>5. ASSUME NEW acts, Ahead(st, q, acts) PROVE Ahead(st, r, acts)
    <2>1. PICK w \in DOMAIN q : /\ q[w].acts \cap acts # {} /\ q[w].input # "I_TE_SUCCESS"
                                /\ \A i \in Ends(q) : i < w => Harmless(st, q, i)
      BY <1>5 DEF Ahead
    <2>2. \A i \in Ends(r) : i < w => Harmless(st, r, i)
      BY <1>3, <2>1, EndsAppend
    <2> QED BY <1>1, <2>1, <2>2 DEF Ahead
  <1>6. q # <<>> => r # <<>>
    BY DEF Appended
  <1>7. Keeps(st, q, r)
    BY <1>4, <1>5, <1>6, CalcAppend, ComesAppend, Zenon DEF Keeps, LeavesEngine, LeavesPolicy
  <1>8. ASSUME m.input # "I_TE_SUCCESS" PROVE Grows(st, q, r)
    BY <1>3, <1>7, <1>8, EndsAppend, CalcAppend, Zenon DEF Grows, AllHarmless, AllCovered
  <1>9. ASSUME m.input = "I_PE_CALC" PROVE AllCovered(st, r)
    BY <1>9, EndsAppend, CalcAppend DEF AllCovered
  <1> QED BY <1>7, <1>8, <1>9

(* Nor does one in front of it, unless it ends what is under way. *)
LEMMA GrowsPrepend ==
  ASSUME NEW q \in Seq(Msgs), NEW r \in Seq(Msgs), NEW m, Prepended(q, m, r),
         m.input \notin {"I_TE_SUCCESS", "I_PE_SUCCESS"}, NEW st,
         Stopping(m) => st # "S_TRANSITION_ENGINE"
  PROVE  Grows(st, q, r)
  <1>0. Len(r) = Len(q) + 1 /\ \A i \in 1 .. Len(q) : r[i + 1] = q[i]
    BY DEF Prepended
  <1>1. \A i \in DOMAIN q : r[i + 1] = q[i] /\ i + 1 \in DOMAIN r
    BY <1>0
  <1>2. \A i \in DOMAIN r : i = 1 \/ (i - 1 \in DOMAIN q /\ r[i] = q[i - 1] /\ i = (i - 1) + 1)
    BY DEF Prepended
  <1>3. \A i \in DOMAIN q : Harmless(st, q, i) => Harmless(st, r, i + 1)
    BY HarmlessPrepend
  <1>4. r[1] = m
    BY DEF Prepended
  <1>5. StopsHarmless(st, q) => StopsHarmless(st, r)
    <2>1. Stopping(m) => Harmless(st, r, 1)
      BY DEF Harmless
    <2> QED BY <1>2, <1>3, <1>4, <2>1, Zenon DEF StopsHarmless
  <1>6. ASSUME NEW acts, Ahead(st, q, acts) PROVE Ahead(st, r, acts)
    <2>1. PICK w \in DOMAIN q : /\ q[w].acts \cap acts # {} /\ q[w].input # "I_TE_SUCCESS"
                                /\ \A i \in Ends(q) : i < w => Harmless(st, q, i)
      BY <1>6 DEF Ahead
    <2>2. ASSUME NEW i \in Ends(r), i < w + 1 PROVE Harmless(st, r, i)
      <3>1. i - 1 \in Ends(q) /\ i - 1 \in DOMAIN q /\ i \in DOMAIN r
        BY EndsPrepend
      <3>2. i - 1 < w /\ (i - 1) + 1 = i
        BY <2>2, <3>1
      <3> QED BY <1>3, <2>1, <3>1, <3>2
    <2> QED BY <1>1, <2>1, <2>2, Zenon DEF Ahead
  <1>7. q # <<>> => r # <<>>
    BY DEF Prepended
  <1>8. /\ CalcAfter(q, 0) => CalcAfter(r, 0)
        /\ \A i \in DOMAIN q : CalcAfter(q, i) => CalcAfter(r, i + 1)
    BY CalcPrepend
  <1>9. Keeps(st, q, r)
    BY <1>5, <1>6, <1>7, <1>8, ComesPrepend, Zenon DEF Keeps, LeavesEngine, LeavesPolicy
  <1>10. ASSUME NEW i \in Ends(r) PROVE i - 1 \in Ends(q) /\ i - 1 \in DOMAIN q /\ (i - 1) + 1 = i
    <2>1. i - 1 \in Ends(q) /\ i - 1 \in DOMAIN q /\ i \in DOMAIN r
      BY EndsPrepend
    <2> QED BY <2>1
  <1>11. /\ AllHarmless(st, q) => AllHarmless(st, r)
         /\ AllCovered(st, q) => AllCovered(st, r)
    BY <1>3, <1>8, <1>10 DEF AllHarmless, AllCovered
  <1> QED BY <1>9, <1>11 DEF Grows

(* The first message is handled, and the FSA goes on in another state. *)
LEMMA QueueHandled ==
  ASSUME NEW q \in Seq(Msgs), NEW r \in Seq(Msgs), NEW m, Prepended(r, m, q),
         NEW st, NEW nst,
         m.input \in Barriers => nst # "S_TRANSITION_ENGINE",
         st # "S_TRANSITION_ENGINE" /\ m.input # "I_PE_SUCCESS"
           => nst # "S_TRANSITION_ENGINE"
  PROVE  /\ CalcAfter(q, 0) => m.input = "I_PE_CALC" \/ CalcAfter(r, 0)
         /\ LeavesEngine(q) => \/ m.input \in Barriers
                               \/ (m.input # "I_TE_SUCCESS" /\ LeavesEngine(r))
         /\ LeavesPolicy(q) => \/ m.input \in Exits
                               \/ (m.input # "I_PE_SUCCESS" /\ LeavesPolicy(r))
         /\ AllHarmless(st, q) => AllHarmless(nst, r)
         /\ AllCovered(st, q) => AllCovered(nst, r)
         /\ StopsHarmless(st, q) => StopsHarmless(nst, r)
         /\ \A acts : Ahead(st, q, acts) => m.acts \cap acts # {} \/ Ahead(nst, r, acts)
         /\ AllCovered(st, q) /\ m.input = "I_TE_SUCCESS" /\ st = "S_TRANSITION_ENGINE"
              => CalcAfter(r, 0)
         /\ AllHarmless(st, q) /\ st = "S_TRANSITION_ENGINE" => m.input # "I_TE_SUCCESS"
         /\ StopsHarmless(st, q) /\ st = "S_TRANSITION_ENGINE" => ~Stopping(m)
         /\ \A acts : Ahead(st, q, acts) /\ st = "S_TRANSITION_ENGINE"
                      => m.input # "I_TE_SUCCESS"
  <1>1. \A i \in DOMAIN r : q[i + 1] = r[i] /\ i + 1 \in DOMAIN q
    BY DEF Prepended
  <1>2. \A i \in DOMAIN q : i = 1 \/ (i - 1 \in DOMAIN r /\ q[i] = r[i - 1] /\ i = (i - 1) + 1)
    BY DEF Prepended
  <1>3. \A i \in DOMAIN r : Harmless(st, q, i + 1) => Harmless(nst, r, i)
    BY HarmlessTail
  <1>4. q[1] = m /\ 1 \in DOMAIN q
    BY DEF Prepended
  <1>5. /\ CalcAfter(q, 0) => m.input = "I_PE_CALC" \/ CalcAfter(r, 0)
        /\ \A i \in DOMAIN r : CalcAfter(q, i + 1) => CalcAfter(r, i)
        /\ CalcAfter(q, 0 + 1) => CalcAfter(r, 0)
    BY CalcPrepend
  <1>6. /\ LeavesEngine(q) => \/ m.input \in Barriers
                              \/ (m.input # "I_TE_SUCCESS" /\ LeavesEngine(r))
        /\ LeavesPolicy(q) => \/ m.input \in Exits
                              \/ (m.input # "I_PE_SUCCESS" /\ LeavesPolicy(r))
    BY ComesPrepend, Zenon DEF LeavesEngine, LeavesPolicy
  <1>7. \A i \in Ends(r) : i \in DOMAIN r /\ i + 1 \in Ends(q)
    BY EndsPrepend
  <1>8. /\ AllHarmless(st, q) => AllHarmless(nst, r)
        /\ AllCovered(st, q) => AllCovered(nst, r)
    BY <1>3, <1>5, <1>7, Zenon DEF AllHarmless, AllCovered
  <1>9. StopsHarmless(st, q) => StopsHarmless(nst, r)
    BY <1>1, <1>3, Zenon DEF StopsHarmless
  <1>10. ~Harmless(st, q, 1) \/ st # "S_TRANSITION_ENGINE"
    BY DEF Harmless
  <1>11. m.input = "I_TE_SUCCESS" => 1 \in Ends(q)
    BY <1>4 DEF Ends
  <1>12. ASSUME NEW acts, Ahead(st, q, acts)
         PROVE  /\ m.acts \cap acts # {} \/ Ahead(nst, r, acts)
                /\ st = "S_TRANSITION_ENGINE" => m.input # "I_TE_SUCCESS"
    <2>1. PICK w \in DOMAIN q : /\ q[w].acts \cap acts # {} /\ q[w].input # "I_TE_SUCCESS"
                                /\ \A i \in Ends(q) : i < w => Harmless(st, q, i)
      BY <1>12 DEF Ahead
    <2>2. CASE w = 1
      BY <1>4, <2>1, <2>2
    <2>3. CASE w # 1
      <3>1. w - 1 \in DOMAIN r /\ r[w - 1] = q[w] /\ 1 < w
        BY <1>2, <2>3
      <3>2. ASSUME NEW i \in Ends(r), i < w - 1 PROVE Harmless(nst, r, i)
        <4>1. i \in DOMAIN r /\ i + 1 \in Ends(q) /\ i + 1 < w
          BY <1>7, <3>2
        <4> QED BY <1>3, <2>1, <4>1
      <3>3. Ahead(nst, r, acts)
        BY <2>1, <3>1, <3>2, Zenon DEF Ahead
      <3> QED BY <1>10, <1>11, <2>1, <3>1, <3>3
    <2> QED BY <2>2, <2>3
  <1>13. AllCovered(st, q) /\ m.input = "I_TE_SUCCESS" /\ st = "S_TRANSITION_ENGINE"
           => CalcAfter(r, 0)
    BY <1>5, <1>10, <1>11 DEF AllCovered
  <1>14. AllHarmless(st, q) /\ st = "S_TRANSITION_ENGINE" => m.input # "I_TE_SUCCESS"
    BY <1>10, <1>11 DEF AllHarmless
  <1>15. StopsHarmless(st, q) /\ st = "S_TRANSITION_ENGINE" => ~Stopping(m)
    BY <1>4, <1>10 DEF StopsHarmless
  <1> QED BY <1>5, <1>6, <1>8, <1>9, <1>12, <1>13, <1>14, <1>15, Zenon

LEMMA AheadAppend ==
  ASSUME NEW q \in Seq(Msgs), NEW r \in Seq(Msgs), NEW m, Appended(q, m, r),
         m.input # "I_TE_SUCCESS", NEW st, NEW acts, m.acts \cap acts # {},
         AllHarmless(st, q)
  PROVE  Ahead(st, r, acts)
  <1>1. Len(q) + 1 \in DOMAIN r /\ r[Len(q) + 1] = m
    BY DEF Appended
  <1>2. \A i \in Ends(r) : i \in Ends(q) /\ i \in DOMAIN q
    BY EndsAppend
  <1>3. \A i \in Ends(r) : Harmless(st, r, i)
    BY <1>2, HarmlessAppend DEF AllHarmless
  <1> QED BY <1>1, <1>3, Zenon DEF Ahead

LEMMA CoveredSplit ==
  ASSUME NEW q \in Seq(Msgs), NEW st, AllCovered(st, q)
  PROVE  AllHarmless(st, q) \/ CalcAfter(q, 0)
  BY DEF AllCovered, AllHarmless, CalcAfter, Ends

LEMMA CalcLast ==
  ASSUME NEW q \in Seq(Msgs), q # <<>>, q[Len(q)].input = "I_PE_CALC", NEW st
  PROVE  CalcAfter(q, 0) /\ AllCovered(st, q)
  <1>1. Len(q) \in DOMAIN q /\ Len(q) > 0
    OBVIOUS
  <1>2. CalcAfter(q, 0)
    BY <1>1 DEF CalcAfter
  <1>3. \A i \in Ends(q) : CalcAfter(q, i)
    BY <1>1 DEF Ends, CalcAfter
  <1> QED BY <1>2, <1>3 DEF AllCovered

LEMMA EmptyFlags ==
  ASSUME NEW st
  PROVE  /\ Ends(<<>>) = {} /\ AllHarmless(st, <<>>) /\ AllCovered(st, <<>>)
         /\ StopsHarmless(st, <<>>) /\ \A acts : ~Ahead(st, <<>>, acts)
  BY DEF Ends, AllHarmless, AllCovered, StopsHarmless, Ahead

LEMMA GrowsSame == ASSUME NEW st, NEW q PROVE Grows(st, q, q)
  BY DEF Grows, Keeps

-----------------------------------------------------------------------------
(* The graph that the controller waits for *)

(* A CIB is the current one, or a notification will tell that it is not. *)
Fresh(version, current, coming) == version = current \/ coming

(* The reference is that of one request, or of one message at most. *)
Single(s, q, ref) ==
  /\ \A i, j \in DOMAIN s : s[i].ref = ref /\ s[j].ref = ref => i = j
  /\ \A i, j \in DOMAIN q : q[i].data.ref = ref /\ q[j].data.ref = ref => i = j
  /\ \A i \in DOMAIN s, j \in DOMAIN q : s[i].ref = ref => q[j].data.ref # ref

Awaited(s, q, ref) ==
  \/ \E i \in DOMAIN s : s[i].ref = ref
  \/ \E j \in DOMAIN q : q[j].data.ref = ref

(* No I_TE_SUCCESS comes after the graph. *)
Last(q, ref) == \A j \in DOMAIN q : q[j].data.ref = ref => \A i \in Ends(q) : i < j

AllFresh(s, q, ref, c, p) ==
  /\ \A i \in DOMAIN s : s[i].ref = ref => Fresh(s[i].version, c, p)
  /\ \A j \in DOMAIN q : q[j].data.ref = ref => Fresh(q[j].data.version, c, p)

(* A queue has no more of the awaited graph than another one. *)
Tracks(s, q, r, ref) ==
  /\ Single(s, q, ref) => Single(s, r, ref)
  /\ Awaited(s, r, ref) => Awaited(s, q, ref)
  /\ Last(q, ref) => Last(r, ref)
  /\ \A c, p : AllFresh(s, q, ref, c, p) => AllFresh(s, r, ref, c, p)
  /\ Ends(q) = {} => Ends(r) = {}

LEMMA TracksAppend ==
  ASSUME NEW q \in Seq(Msgs), NEW r \in Seq(Msgs), NEW m, Appended(q, m, r),
         m.input # "I_TE_SUCCESS", NEW ref, m.data.ref # ref, NEW s
  PROVE  Tracks(s, q, r, ref)
  <1>1. \A j \in DOMAIN r : r[j].data.ref = ref => j \in DOMAIN q /\ r[j] = q[j]
    BY DEF Appended
  <1>2. \A i \in Ends(r) : i \in Ends(q)
    BY EndsAppend
  <1>3. Single(s, q, ref) => Single(s, r, ref)
    BY <1>1, Zenon DEF Single
  <1>4. Awaited(s, r, ref) => Awaited(s, q, ref)
    BY <1>1, Zenon DEF Awaited
  <1>5. Last(q, ref) => Last(r, ref)
    BY <1>1, <1>2, Zenon DEF Last
  <1>6. \A c, p : AllFresh(s, q, ref, c, p) => AllFresh(s, r, ref, c, p)
    BY <1>1, Zenon DEF AllFresh
  <1> QED BY <1>2, <1>3, <1>4, <1>5, <1>6 DEF Tracks

LEMMA TracksPrepend ==
  ASSUME NEW q \in Seq(Msgs), NEW r \in Seq(Msgs), NEW m, Prepended(q, m, r),
         m.input # "I_TE_SUCCESS", NEW ref, m.data.ref # ref, NEW s
  PROVE  Tracks(s, q, r, ref)
  <1>1. ASSUME NEW j \in DOMAIN r, r[j].data.ref = ref
        PROVE  j - 1 \in DOMAIN q /\ r[j] = q[j - 1] /\ j \in Nat
    BY <1>1 DEF Prepended
  <1>2. \A i \in Ends(r) : i - 1 \in Ends(q) /\ i \in DOMAIN r
    BY EndsPrepend
  <1>3. Single(s, q, ref) => Single(s, r, ref)
    BY <1>1 DEF Single
  <1>4. Awaited(s, r, ref) => Awaited(s, q, ref)
    BY <1>1, Zenon DEF Awaited
  <1>5. Last(q, ref) => Last(r, ref)
    BY <1>1, <1>2 DEF Last
  <1>6. \A c, p : AllFresh(s, q, ref, c, p) => AllFresh(s, r, ref, c, p)
    BY <1>1, Zenon DEF AllFresh
  <1> QED BY <1>2, <1>3, <1>4, <1>5, <1>6 DEF Tracks

(* The first message is handled. *)
LEMMA TracksTail ==
  ASSUME NEW q \in Seq(Msgs), NEW r \in Seq(Msgs), NEW m, Prepended(r, m, q),
         NEW ref, NEW s
  PROVE  /\ Tracks(s, q, r, ref)
         /\ m.data.ref = ref => Awaited(s, q, ref)
         /\ m.data.ref = ref /\ Single(s, q, ref) => ~Awaited(s, r, ref)
         /\ m.data.ref = ref /\ Last(q, ref) => Ends(r) = {}
         /\ \A c, p : m.data.ref = ref /\ AllFresh(s, q, ref, c, p)
                        => Fresh(m.data.version, c, p)
  <1>1. \A j \in DOMAIN r : j + 1 \in DOMAIN q /\ q[j + 1] = r[j] /\ j \in Nat /\ j + 1 # 1
    BY DEF Prepended
  <1>2. \A i \in Ends(r) : i + 1 \in Ends(q) /\ i \in DOMAIN r
    BY EndsPrepend
  <1>3. q[1] = m /\ 1 \in DOMAIN q
    BY DEF Prepended
  <1>4. Single(s, q, ref) => Single(s, r, ref)
    BY <1>1 DEF Single
  <1>5. Awaited(s, r, ref) => Awaited(s, q, ref)
    BY <1>1, Zenon DEF Awaited
  <1>6. Last(q, ref) => Last(r, ref)
    BY <1>1, <1>2 DEF Last
  <1>7. \A c, p : AllFresh(s, q, ref, c, p) => AllFresh(s, r, ref, c, p)
    BY <1>1, Zenon DEF AllFresh
  <1>8. Tracks(s, q, r, ref)
    BY <1>2, <1>4, <1>5, <1>6, <1>7 DEF Tracks
  <1>9. m.data.ref = ref => Awaited(s, q, ref)
    BY <1>3, Zenon DEF Awaited
  <1>10. m.data.ref = ref /\ Single(s, q, ref) => ~Awaited(s, r, ref)
    BY <1>1, <1>3, Zenon DEF Single, Awaited
  <1>11. m.data.ref = ref /\ Last(q, ref) => Ends(r) = {}
    BY <1>2, <1>3, <1>1 DEF Last
  <1>12. \A c, p : m.data.ref = ref /\ AllFresh(s, q, ref, c, p)
                     => Fresh(m.data.version, c, p)
    BY <1>3, Zenon DEF AllFresh
  <1> QED BY <1>8, <1>9, <1>10, <1>11, <1>12

LEMMA TracksTrans ==
  ASSUME NEW s, NEW q, NEW r, NEW t, NEW ref, Tracks(s, q, r, ref), Tracks(s, r, t, ref)
  PROVE  Tracks(s, q, t, ref)
  BY Zenon DEF Tracks

LEMMA GrowsTrans ==
  ASSUME NEW st, NEW q, NEW r, NEW t, Grows(st, q, r), Grows(st, r, t)
  PROVE  Grows(st, q, t)
  BY Zenon DEF Grows, Keeps

-----------------------------------------------------------------------------
(* The strengthening of IdleIsCurrent *)

(* The FSA works on the actions of a message, or will take another one. *)
Busy(d) == d.busy /\ d.acts # {} /\ ~d.stalled
Running(d) == Busy(d) \/ (d.running /\ ~d.stalled /\ d.queue # <<>>)

CalcDue(d) == d.delay \/ CalcAfter(d.queue, 0)

(* fresh: the graph was calculated from a fresh CIB. *)
InIdle(d, fresh) == d.state = "S_IDLE" => CalcDue(d) \/ (d.complete /\ fresh)

(* A graph that is out of date will be replaced. *)
InEngine(d, fresh) ==
  d.state = "S_TRANSITION_ENGINE" =>
    \/ fresh \/ CalcDue(d) \/ LeavesEngine(d.queue)
    \/ ~d.complete /\ d.action = "restart"
    \/ Busy(d) /\ d.acts \cap Stops # {}
    \/ /\ Busy(d) /\ "A_TE_INVOKE" \in d.acts
       /\ d.connected \/ "A_PE_START" \in d.acts \/ AllHarmless(d.state, d.queue)
    \/ Ahead(d.state, d.queue, Stops)
    \/ /\ Ahead(d.state, d.queue, {"A_TE_INVOKE"})
       /\ "A_PE_START" \in d.acts \/ (Running(d) /\ d.connected)

(* No I_TE_SUCCESS is left when the graph comes, if there is no scheduler. *)
InPolicy(d) ==
  d.state = "S_POLICY_ENGINE" =>
    \/ d.delay \/ "A_PE_START" \in d.acts
    \/ Running(d) /\ d.connected
    \/ Busy(d) /\ d.acts \cap {"A_PE_INVOKE", "A_TE_CANCEL"} # {}
    \/ LeavesPolicy(d.queue) \/ AllCovered(d.state, d.queue)

(* I_TE_SUCCESS does not mean the graph that is running. *)
InGraph(d) == ~d.complete => d.delay \/ AllCovered(d.state, d.queue)

(* A_TE_HALT and A_TE_CANCEL are not left over in S_TRANSITION_ENGINE. *)
StopsKept(d) ==
  /\ StopsHarmless(d.state, d.queue)
  /\ d.state = "S_TRANSITION_ENGINE" /\ d.acts \cap Stops # {}
       => Busy(d) /\ d.cur.data # NoData

Current(d, fresh) ==
  InIdle(d, fresh) /\ InEngine(d, fresh) /\ InPolicy(d) /\ InGraph(d) /\ StopsKept(d)

Carried(d) == Busy(d) /\ d.cur.data.ref = d.ref

(* The graph that is waited for is in one place, and calculated from a     *)
(* fresh CIB.                                                              *)
Tracked(d, s, c, p) ==
  d.ref # NoRef =>
    /\ d.connected /\ Single(s, d.queue, d.ref) /\ Last(d.queue, d.ref)
    /\ Carried(d) => ~Awaited(s, d.queue, d.ref) /\ Ends(d.queue) = {}
    /\ d.state = "S_TRANSITION_ENGINE" /\ Awaited(s, d.queue, d.ref)
         => Busy(d) /\ "A_TE_INVOKE" \in d.acts
    /\ d.state \in Working /\ ~(Busy(d) /\ "A_TE_CANCEL" \in d.acts)
         => /\ AllFresh(s, d.queue, d.ref, c, p)
            /\ Carried(d) => Fresh(d.cur.data.version, c, p)

(* What the two do not look at *)
Alike(d, e) ==
  /\ e.state = d.state /\ e.acts = d.acts /\ e.cur = d.cur
  /\ e.complete = d.complete /\ e.action = d.action /\ e.version = d.version
  /\ e.delay = d.delay /\ e.connected = d.connected
  /\ e.busy = d.busy /\ e.running = d.running /\ e.stalled = d.stalled

LEMMA AlikeCurrent ==
  ASSUME NEW d, NEW e, Alike(d, e), Grows(d.state, d.queue, e.queue),
         NEW fresh, Current(d, fresh)
  PROVE  Current(e, fresh)
  <1>1. Busy(e) = Busy(d) /\ (Running(d) => Running(e)) /\ (CalcDue(d) => CalcDue(e))
    BY DEF Alike, Grows, Keeps, Busy, Running, CalcDue
  <1>2. InIdle(e, fresh)
    BY <1>1 DEF Alike, Current, InIdle
  <1>3. InEngine(e, fresh)
    BY <1>1, Zenon DEF Alike, Grows, Keeps, Current, InEngine
  <1>4. InPolicy(e)
    BY <1>1, Zenon DEF Alike, Grows, Keeps, Current, InPolicy
  <1>5. InGraph(e) /\ StopsKept(e)
    BY <1>1, Zenon DEF Alike, Grows, Keeps, Current, InGraph, StopsKept
  <1> QED BY <1>2, <1>3, <1>4, <1>5 DEF Current

LEMMA AlikeTracked ==
  ASSUME NEW d, NEW e, Alike(d, e), e.ref = d.ref, NEW s,
         Tracks(s, d.queue, e.queue, d.ref),
         NEW c, NEW p, Tracked(d, s, c, p)
  PROVE  Tracked(e, s, c, p)
  <1>1. Busy(e) = Busy(d) /\ Carried(e) = Carried(d)
    BY DEF Alike, Busy, Carried
  <1> QED BY <1>1, Zenon DEF Alike, Tracks, Tracked

LEMMA ForgottenTracked ==
  ASSUME NEW d, d.ref = NoRef, NEW s, NEW c, NEW p
  PROVE  Tracked(d, s, c, p)
  BY DEF Tracked

-----------------------------------------------------------------------------
(* Inputs of the FSA *)

LEMMA TriggerFields ==
  ASSUME NEW d \in Controllers
  PROVE  /\ SetTrigger(d) \in Controllers /\ Alike(d, SetTrigger(d))
         /\ SetTrigger(d).ref = d.ref /\ SetTrigger(d).queue = d.queue
         /\ SetTrigger(d).delayed = d.delayed
  <1>1. SetTrigger(d) \in Controllers
    BY Zenon DEF SetTrigger, Controllers
  <1> QED BY <1>1, Zenon DEF SetTrigger, Controllers, Alike

LEMMA QueueFields ==
  ASSUME NEW d \in Controllers, NEW q \in Seq(Msgs)
  PROVE  LET e == [d EXCEPT !.queue = q]
         IN  /\ e \in Controllers /\ Alike(d, e) /\ e.ref = d.ref /\ e.queue = q
             /\ e.delayed = d.delayed
  <1>1. [d EXCEPT !.queue = q] \in Controllers
    BY Zenon DEF Controllers
  <1> QED BY <1>1 DEF Controllers, Alike

LEMMA AlikeTrans ==
  ASSUME NEW d, NEW e, NEW f, Alike(d, e), Alike(e, f)
  PROVE  Alike(d, f)
  BY Zenon DEF Alike

LEMMA AppendFields ==
  ASSUME NEW d \in Controllers, NEW input \in Inputs, NEW data \in Data
  PROVE  LET e == FsaAppend(d, input, data)
         IN  /\ e \in Controllers /\ Alike(d, e) /\ e.ref = d.ref /\ e.delayed = d.delayed
             /\ \/ /\ input = "I_PE_CALC" /\ e.queue = d.queue /\ d.queue # <<>>
                   /\ d.queue[Len(d.queue)].input = "I_PE_CALC"
                \/ Appended(d.queue, Msg(input, data, {}), e.queue)
  <1> DEFINE e == FsaAppend(d, input, data)
             m == Msg(input, data, {})
             q == Append(d.queue, m)
             g == [d EXCEPT !.queue = q]
  <1>1. m \in Msgs
    BY MsgTypes
  <1>2. d.queue \in Seq(Msgs)
    BY DEF Controllers
  <1>3. Append(d.queue, m) \in Seq(Msgs) /\ Appended(d.queue, m, Append(d.queue, m))
    <2> HIDE DEF m
    <2> QED BY <1>1, <1>2, AppendIs
  <1>4. \/ /\ input = "I_PE_CALC" /\ e = d /\ d.queue # <<>>
           /\ d.queue[Len(d.queue)].input = "I_PE_CALC"
        \/ e = SetTrigger(g)
    BY DEF FsaAppend
  <1>5. Alike(d, d)
    BY DEF Alike
  <1> HIDE DEF e, m
  <1>6. q \in Seq(Msgs) /\ Appended(d.queue, m, q)
    BY <1>3
  <1> HIDE DEF q
  <1>7. g \in Controllers /\ Alike(d, g) /\ g.ref = d.ref /\ g.queue = q /\ g.delayed = d.delayed
    BY <1>6, QueueFields
  <1> HIDE DEF g
  <1>8. CASE e = d
    BY <1>4, <1>5, <1>6, <1>7, <1>8, TriggerFields DEF e, m
  <1>9. CASE e = SetTrigger(g)
    <2>1. /\ e \in Controllers /\ Alike(g, e) /\ e.ref = g.ref /\ e.queue = g.queue
          /\ e.delayed = g.delayed
      BY <1>7, <1>9, TriggerFields
    <2> QED BY <1>6, <1>7, <2>1, AlikeTrans DEF e, m
  <1> QED BY <1>4, <1>8, <1>9

LEMMA PrependFields ==
  ASSUME NEW d \in Controllers, NEW input \in Inputs
  PROVE  LET e == FsaPrepend(d, input)
         IN  /\ e \in Controllers /\ Alike(d, e) /\ e.ref = d.ref
             /\ Prepended(d.queue, Msg(input, NoData, {}), e.queue)
  <1> DEFINE e == FsaPrepend(d, input)
             m == Msg(input, NoData, {})
             q == <<m>> \o d.queue
             g == [d EXCEPT !.queue = q]
  <1>1. m \in Msgs
    BY MsgTypes, DataTypes
  <1>2. d.queue \in Seq(Msgs)
    BY DEF Controllers
  <1>3. e = SetTrigger(g)
    BY DEF FsaPrepend
  <1> HIDE DEF e, m
  <1>4. q \in Seq(Msgs) /\ Prepended(d.queue, m, q)
    BY <1>1, <1>2, PrependIs
  <1> HIDE DEF q
  <1>5. g \in Controllers /\ Alike(d, g) /\ g.ref = d.ref /\ g.queue = q
    BY <1>4, QueueFields
  <1> HIDE DEF g
  <1>6. /\ e \in Controllers /\ Alike(g, e) /\ e.ref = g.ref /\ e.queue = g.queue
    BY <1>3, <1>5, TriggerFields
  <1> QED BY <1>4, <1>5, <1>6, AlikeTrans DEF e, m

(* A step that changes nothing but the queue, for the better *)
Mild(d, e) ==
  /\ e \in Controllers /\ Alike(d, e) /\ e.ref = d.ref
  /\ Grows(d.state, d.queue, e.queue)
  /\ d.ref # NoRef => \A s : Tracks(s, d.queue, e.queue, d.ref)

LEMMA MildStep ==
  ASSUME NEW d, NEW e, Mild(d, e), NEW fresh, NEW s, NEW c, NEW p
  PROVE  /\ Current(d, fresh) => Current(e, fresh)
         /\ Tracked(d, s, c, p) => Tracked(e, s, c, p)
  <1>1. Current(d, fresh) => Current(e, fresh)
    BY AlikeCurrent DEF Mild
  <1>2. CASE d.ref = NoRef
    BY <1>1, <1>2, ForgottenTracked DEF Mild
  <1>3. CASE d.ref # NoRef
    BY <1>1, <1>3, AlikeTracked, Zenon DEF Mild
  <1> QED BY <1>2, <1>3

LEMMA MsgPlain ==
  ASSUME NEW input \in Inputs, NEW data \in Data
  PROVE  LET m == Msg(input, data, {})
         IN  m \in Msgs /\ ~Stopping(m) /\ m.input = input /\ m.data = data
  BY MsgTypes DEF Stopping

LEMMA AppendMild ==
  ASSUME NEW d \in Controllers, NEW input \in Inputs, input # "I_TE_SUCCESS",
         NEW data \in Data, d.ref # NoRef => data.ref # d.ref
  PROVE  Mild(d, FsaAppend(d, input, data))
  <1> DEFINE e == FsaAppend(d, input, data)
             m == Msg(input, data, {})
  <1>1. d.queue \in Seq(Msgs)
    BY DEF Controllers
  <1>2. m \in Msgs /\ ~Stopping(m) /\ m.input = input /\ m.data = data
    BY MsgPlain
  <1>3. /\ e \in Controllers /\ Alike(d, e) /\ e.ref = d.ref
        /\ e.queue = d.queue \/ Appended(d.queue, m, e.queue)
    BY AppendFields
  <1>4. e.queue \in Seq(Msgs)
    BY <1>3 DEF Controllers
  <1> HIDE DEF e, m
  <1>5. ASSUME e.queue = d.queue PROVE Mild(d, e)
    BY <1>3, <1>5, GrowsSame DEF Mild, Tracks
  <1>6. ASSUME Appended(d.queue, m, e.queue) PROVE Mild(d, e)
    <2>1. Grows(d.state, d.queue, e.queue)
      BY <1>1, <1>2, <1>4, <1>6, KeepsAppend
    <2>2. d.ref # NoRef => \A s : Tracks(s, d.queue, e.queue, d.ref)
      BY <1>1, <1>2, <1>4, <1>6, TracksAppend
    <2> QED BY <1>3, <2>1, <2>2 DEF Mild
  <1> QED BY <1>3, <1>5, <1>6 DEF e

LEMMA PrependMild ==
  ASSUME NEW d \in Controllers, NEW input \in Inputs,
         input \notin {"I_TE_SUCCESS", "I_PE_SUCCESS"}
  PROVE  Mild(d, FsaPrepend(d, input))
  <1> DEFINE e == FsaPrepend(d, input)
             m == Msg(input, NoData, {})
  <1>1. d.queue \in Seq(Msgs)
    BY DEF Controllers
  <1>2. m \in Msgs /\ ~Stopping(m) /\ m.input = input /\ m.data.ref = NoRef
    BY MsgPlain, DataTypes DEF NoData
  <1>3. /\ e \in Controllers /\ Alike(d, e) /\ e.ref = d.ref
        /\ Prepended(d.queue, m, e.queue)
    BY PrependFields
  <1>4. e.queue \in Seq(Msgs)
    BY <1>3 DEF Controllers
  <1> HIDE DEF e, m
  <1>5. Grows(d.state, d.queue, e.queue)
    BY <1>1, <1>2, <1>3, <1>4, GrowsPrepend
  <1>6. d.ref # NoRef => \A s : Tracks(s, d.queue, e.queue, d.ref)
    BY <1>1, <1>2, <1>3, <1>4, TracksPrepend
  <1> QED BY <1>3, <1>5, <1>6 DEF Mild, e

(* register_fsa_error: the error ends S_TRANSITION_ENGINE and               *)
(* S_POLICY_ENGINE, and the saved actions wait behind it.                  *)
LEMMA ErrorFields ==
  ASSUME NEW d \in Controllers, NEW input \in Inputs
  PROVE  LET e == FsaError(d, input)
             m == Msg(input, NoData, {})
             x == Msg("I_NULL", d.cur.data, d.acts)
         IN  /\ e \in Controllers /\ e.acts = {} /\ Alike([d EXCEPT !.acts = {}], e)
             /\ e.ref = d.ref
             /\ \/ d.acts = {} /\ Prepended(d.queue, m, e.queue)
                \/ \E r \in Seq(Msgs) : /\ Prepended(d.queue, x, r)
                                        /\ Prepended(r, m, e.queue)
  <1> DEFINE x == Msg("I_NULL", d.cur.data, d.acts)
             saved == IF d.acts = {} THEN <<>> ELSE <<x>>
             r == saved \o d.queue
             a == [d EXCEPT !.acts = {}]
             g == [a EXCEPT !.queue = r]
             e == FsaError(d, input)
  <1>1. d.queue \in Seq(Msgs) /\ d.cur.data \in Data /\ d.acts \in SUBSET Actions
    BY DEF Controllers, Msgs
  <1>2. x \in Msgs
    BY <1>1, MsgTypes, InputSet
  <1>3. e = FsaPrepend([d EXCEPT !.acts = {}, !.queue = saved \o @], input)
    BY DEF FsaError
  <1>4. [d EXCEPT !.acts = {}, !.queue = saved \o @] = g
    <2> HIDE DEF saved
    <2> QED BY DEF Controllers
  <1> HIDE DEF x
  <1>5. <<>> \o d.queue = d.queue
    BY <1>1
  <1>6. /\ r \in Seq(Msgs)
        /\ (d.acts = {} /\ r = d.queue) \/ Prepended(d.queue, x, r)
    BY <1>1, <1>2, <1>5, PrependIs, Zenon
  <1> HIDE DEF r, e
  <1>7. a \in Controllers /\ a.acts = {} /\ a.queue = d.queue /\ a.ref = d.ref
    <2>1. {} \in SUBSET Actions
      OBVIOUS
    <2>2. a \in Controllers
      BY <2>1, Zenon DEF Controllers
    <2> QED BY <2>2 DEF Controllers
  <1>8. g \in Controllers /\ Alike(a, g) /\ g.ref = a.ref /\ g.queue = r
    <2> HIDE DEF a
    <2> QED BY <1>6, <1>7, QueueFields
  <1> HIDE DEF a, g
  <1>9. /\ e \in Controllers /\ Alike(g, e) /\ e.ref = g.ref
        /\ Prepended(g.queue, Msg(input, NoData, {}), e.queue)
    BY <1>3, <1>4, <1>8, PrependFields, Zenon
  <1>10. Alike(a, e) /\ e.acts = {} /\ e.ref = d.ref
    BY <1>7, <1>8, <1>9, AlikeTrans DEF Alike
  <1> QED BY <1>6, <1>8, <1>9, <1>10 DEF e, x, a

LEMMA ErrorCurrent ==
  ASSUME NEW d \in Controllers, NEW input \in Inputs, input \in Exits, NEW fresh,
         InIdle(d, fresh), InGraph(d), StopsKept(d)
  PROVE  Current(FsaError(d, input), fresh)
  <1> DEFINE e == FsaError(d, input)
             m == Msg(input, NoData, {})
             x == Msg("I_NULL", d.cur.data, d.acts)
             a == [d EXCEPT !.acts = {}]
  <1>1. d.queue \in Seq(Msgs) /\ d.cur.data \in Data /\ d.acts \in SUBSET Actions
    BY DEF Controllers, Msgs
  <1>2. m \in Msgs /\ ~Stopping(m) /\ m.input = input
    BY MsgPlain, DataTypes
  <1>3. x \in Msgs /\ x.input = "I_NULL" /\ x.data = d.cur.data /\ x.acts = d.acts
    BY <1>1, MsgTypes, InputSet
  <1>4. /\ e \in Controllers /\ e.acts = {} /\ Alike(a, e)
        /\ \/ d.acts = {} /\ Prepended(d.queue, m, e.queue)
           \/ \E r \in Seq(Msgs) : Prepended(d.queue, x, r) /\ Prepended(r, m, e.queue)
    BY ErrorFields
  <1>5. /\ a.state = d.state /\ a.complete = d.complete /\ a.delay = d.delay
    BY DEF Controllers
  <1> HIDE DEF e, m, x, a
  <1>6. e.state = d.state /\ e.complete = d.complete /\ e.delay = d.delay
    BY <1>4, <1>5 DEF Alike
  <1>7. e.queue \in Seq(Msgs)
    BY <1>4 DEF Controllers
  <1>8. m.input \notin {"I_TE_SUCCESS", "I_PE_SUCCESS"}
    BY <1>2 DEF Exits
  <1>9. Stopping(x) => d.state # "S_TRANSITION_ENGINE"
    BY <1>3 DEF Stopping, StopsKept
  <1>10. Grows(d.state, d.queue, e.queue) /\ LeavesEngine(e.queue) /\ LeavesPolicy(e.queue)
    <2>1. ASSUME NEW r \in Seq(Msgs), Prepended(r, m, e.queue)
          PROVE  /\ Grows(d.state, r, e.queue)
                 /\ LeavesEngine(e.queue) /\ LeavesPolicy(e.queue)
      <3>1. Grows(d.state, r, e.queue)
        BY <1>2, <1>7, <1>8, <2>1, GrowsPrepend
      <3>2. m.input \in Exits /\ m.input \in Barriers
        BY <1>2 DEF Barriers
      <3> QED BY <1>7, <2>1, <3>1, <3>2, ComesPrepend DEF LeavesEngine, LeavesPolicy
    <2>2. ASSUME NEW r \in Seq(Msgs), Prepended(d.queue, x, r)
          PROVE  Grows(d.state, d.queue, r)
      <3>1. x.input \notin {"I_TE_SUCCESS", "I_PE_SUCCESS"}
        BY <1>3
      <3> QED BY <1>1, <1>9, <2>2, <3>1, GrowsPrepend
    <2> QED BY <1>1, <1>4, <2>1, <2>2, GrowsTrans
  <1>11. InIdle(e, fresh)
    BY <1>6, <1>10 DEF InIdle, CalcDue, Grows, Keeps
  <1>12. InEngine(e, fresh) /\ InPolicy(e)
    BY <1>10 DEF InEngine, InPolicy
  <1>13. InGraph(e)
    BY <1>6, <1>10 DEF InGraph, Grows
  <1>14. StopsKept(e)
    BY <1>4, <1>6, <1>10 DEF StopsKept, Grows, Keeps
  <1> QED BY <1>11, <1>12, <1>13, <1>14 DEF Current, e

LEMMA ErrorTracked ==
  ASSUME NEW d \in Controllers, NEW input \in Inputs, input \in Exits,
         ~d.busy, d.cur = NoMsg, NEW s, NEW c, NEW p, Tracked(d, s, c, p)
  PROVE  Tracked(FsaError(d, input), s, c, p)
  <1> DEFINE e == FsaError(d, input)
             m == Msg(input, NoData, {})
             x == Msg("I_NULL", d.cur.data, d.acts)
             a == [d EXCEPT !.acts = {}]
  <1>1. d.queue \in Seq(Msgs) /\ d.cur.data \in Data /\ d.acts \in SUBSET Actions
    BY DEF Controllers, Msgs
  <1>2. m \in Msgs /\ m.input = input /\ m.data.ref = NoRef
    BY MsgPlain, DataTypes DEF NoData
  <1>3. x \in Msgs /\ x.input = "I_NULL" /\ x.data.ref = NoRef
    BY <1>1, MsgTypes, InputSet, DataTypes DEF NoData
  <1>4. /\ e \in Controllers /\ Alike(a, e) /\ e.ref = d.ref
        /\ \/ d.acts = {} /\ Prepended(d.queue, m, e.queue)
           \/ \E r \in Seq(Msgs) : Prepended(d.queue, x, r) /\ Prepended(r, m, e.queue)
    BY ErrorFields
  <1>5. /\ a.state = d.state /\ a.busy = d.busy /\ a.connected = d.connected
    BY DEF Controllers
  <1> HIDE DEF e, m, x, a
  <1>6. /\ e.state = d.state /\ e.connected = d.connected /\ ~Busy(e) /\ ~Busy(d)
        /\ ~Carried(e) /\ ~Carried(d)
    BY <1>4, <1>5 DEF Alike, Busy, Carried
  <1>7. e.queue \in Seq(Msgs) /\ m.input # "I_TE_SUCCESS" /\ x.input # "I_TE_SUCCESS"
    BY <1>2, <1>3, <1>4 DEF Controllers, Exits
  <1>8. ASSUME d.ref # NoRef PROVE Tracks(s, d.queue, e.queue, d.ref)
    <2>1. \A r \in Seq(Msgs) : Prepended(r, m, e.queue) => Tracks(s, r, e.queue, d.ref)
      BY <1>2, <1>7, <1>8, TracksPrepend
    <2>2. \A r \in Seq(Msgs) : Prepended(d.queue, x, r) => Tracks(s, d.queue, r, d.ref)
      BY <1>1, <1>3, <1>7, <1>8, TracksPrepend
    <2> QED BY <1>1, <1>4, <2>1, <2>2, TracksTrans
  <1> QED BY <1>4, <1>6, <1>8, Zenon DEF Tracked, Tracks, e

-----------------------------------------------------------------------------
(* Scheduler and transition engine *)

(* A calculation is due, and no I_TE_SUCCESS comes after it. *)
Due(d) == d.delay \/ (CalcAfter(d.queue, 0) /\ AllCovered(d.state, d.queue))

LEMMA DueCurrent ==
  ASSUME NEW d, Due(d), StopsKept(d), NEW fresh
  PROVE  Current(d, fresh)
  BY DEF Due, Current, InIdle, InEngine, InPolicy, InGraph, CalcDue

(* I_PE_CALC is appended. *)
LEMMA CalcDueNow ==
  ASSUME NEW d \in Controllers
  PROVE  LET e == FsaAppend(d, "I_PE_CALC", NoData)
         IN  Mild(d, e) /\ Due(e) /\ e.delayed = d.delayed
  <1> DEFINE e == FsaAppend(d, "I_PE_CALC", NoData)
             m == Msg("I_PE_CALC", NoData, {})
  <1>1. "I_PE_CALC" \in Inputs /\ NoData \in Data /\ NoData.ref = NoRef
    BY InputSet, DataTypes DEF NoData
  <1>2. Mild(d, e)
    BY <1>1, AppendMild
  <1>3. /\ e \in Controllers /\ Alike(d, e) /\ e.delayed = d.delayed
        /\ \/ /\ e.queue = d.queue /\ d.queue # <<>>
              /\ d.queue[Len(d.queue)].input = "I_PE_CALC"
           \/ Appended(d.queue, m, e.queue)
    BY <1>1, AppendFields
  <1>4. m \in Msgs /\ ~Stopping(m) /\ m.input = "I_PE_CALC"
    BY <1>1, MsgPlain
  <1>5. d.queue \in Seq(Msgs) /\ e.queue \in Seq(Msgs)
    BY <1>3 DEF Controllers
  <1> HIDE DEF e, m
  <1>6. ASSUME Appended(d.queue, m, e.queue)
        PROVE  CalcAfter(e.queue, 0) /\ AllCovered(e.state, e.queue)
    BY <1>4, <1>5, <1>6, CalcAppend, KeepsAppend
  <1>7. Due(e)
    BY <1>3, <1>5, <1>6, CalcLast DEF Due
  <1> QED BY <1>2, <1>3, <1>7 DEF e

(* What abort_transition_graph leaves alone *)
Aborts(d, e) ==
  /\ e \in Controllers /\ e.ref = NoRef
  /\ e.state = d.state /\ e.acts = d.acts /\ e.cur = d.cur /\ e.complete = d.complete
  /\ e.connected = d.connected /\ e.busy = d.busy /\ e.running = d.running
  /\ e.stalled = d.stalled

LEMMA ForgetFields ==
  ASSUME NEW d \in Controllers
  PROVE  LET e == ExpectReply(d, NoRef)
         IN  /\ e \in Controllers /\ Alike(d, e) /\ e.ref = NoRef /\ e.queue = d.queue
             /\ e.delayed = d.delayed
  <1>1. NoRef \in Nat /\ (NoRef # NoRef) \in BOOLEAN
    BY DEF NoRef
  <1>2. ExpectReply(d, NoRef) \in Controllers
    BY <1>1, Zenon DEF ExpectReply, Controllers
  <1> QED BY <1>2 DEF ExpectReply, Controllers, Alike

LEMMA AbortFields ==
  ASSUME NEW d \in Controllers, NEW action \in Completions
  PROVE  LET e == AbortTransition(d, action)
         IN  /\ Aborts(d, e) /\ Grows(d.state, d.queue, e.queue)
             /\ d.complete => Due(e)
             /\ ~d.complete => /\ e.queue = d.queue /\ e.delay = d.delay
                               /\ action = "restart" => e.action = "restart"
             /\ d.delay => e.delay
  <1> DEFINE x == ExpectReply(d, NoRef)
             e == AbortTransition(d, action)
  <1>1. /\ x \in Controllers /\ Alike(d, x) /\ x.ref = NoRef /\ x.queue = d.queue
        /\ x.delayed = d.delayed
    BY ForgetFields
  <1>2. e = IF ~d.complete
            THEN [x EXCEPT !.action = IF @ = "restart" THEN @ ELSE action]
            ELSE IF d.delayed THEN [x EXCEPT !.delay = TRUE]
            ELSE FsaAppend(x, "I_PE_CALC", NoData)
    BY DEF AbortTransition
  <1> HIDE DEF x, e
  <1>3. Grows(d.state, d.queue, d.queue)
    BY GrowsSame
  <1>4. ASSUME ~d.complete
        PROVE  /\ Aborts(d, e) /\ e.queue = d.queue /\ e.delay = d.delay
               /\ action = "restart" => e.action = "restart"
    <2> DEFINE y == IF x.action = "restart" THEN x.action ELSE action
    <2>1. y \in Completions /\ (action = "restart" => y = "restart")
      BY <1>1 DEF Controllers
    <2>2. e = [x EXCEPT !.action = y]
      BY <1>1, <1>2, <1>4 DEF Controllers
    <2> HIDE DEF y
    <2>3. e \in Controllers
      BY <1>1, <2>1, <2>2, Zenon DEF Controllers
    <2> QED BY <1>1, <2>1, <2>2, <2>3, Zenon DEF Controllers, Alike, Aborts
  <1>5. ASSUME d.complete, d.delayed
        PROVE  Aborts(d, e) /\ e.queue = d.queue /\ e.delay = TRUE
    <2>1. e = [x EXCEPT !.delay = TRUE]
      BY <1>2, <1>5
    <2>2. e \in Controllers
      BY <1>1, <2>1, Zenon DEF Controllers
    <2> QED BY <1>1, <2>1, <2>2, Zenon DEF Controllers, Alike, Aborts
  <1>6. ASSUME d.complete, ~d.delayed
        PROVE  /\ Aborts(d, e) /\ Due(e) /\ Grows(d.state, d.queue, e.queue)
               /\ e.delay = d.delay
    <2>1. e = FsaAppend(x, "I_PE_CALC", NoData)
      BY <1>2, <1>6
    <2>2. Mild(x, e) /\ Due(e)
      BY <1>1, <2>1, CalcDueNow
    <2> QED BY <1>1, <2>2 DEF Mild, Alike, Aborts
  <1> QED BY <1>3, <1>4, <1>5, <1>6, Zenon DEF Due, e

(* A graph that is complete is aborted. *)
LEMMA AbortCurrent ==
  ASSUME NEW d \in Controllers, NEW action \in Completions, StopsKept(d), d.complete
  PROVE  /\ Due(AbortTransition(d, action)) /\ StopsKept(AbortTransition(d, action))
  <1> DEFINE e == AbortTransition(d, action)
  <1>1. Aborts(d, e) /\ Grows(d.state, d.queue, e.queue) /\ Due(e)
    BY AbortFields
  <1> HIDE DEF e
  <1>2. StopsKept(e)
    BY <1>1, Zenon DEF Aborts, StopsKept, Grows, Keeps, Busy
  <1> QED BY <1>1, <1>2 DEF e

(* A change of the CIB is notified: it does not matter any more whether the *)
(* graph is fresh.                                                         *)
LEMMA AbortRestart ==
  ASSUME NEW d \in Controllers, NEW fresh, NEW anew, Current(d, fresh)
  PROVE  Current(AbortTransition(d, "restart"), anew)
  <1> DEFINE e == AbortTransition(d, "restart")
  <1>1. "restart" \in Completions
    BY DEF Completions
  <1>2. CASE d.complete
    BY <1>1, <1>2, AbortCurrent, DueCurrent DEF Current
  <1>3. CASE ~d.complete
    <2>1. /\ Aborts(d, e) /\ e.queue = d.queue /\ e.delay = d.delay /\ e.action = "restart"
      BY <1>1, <1>3, AbortFields
    <2> HIDE DEF e
    <2>2. InIdle(e, anew) /\ InEngine(e, anew)
      BY <1>3, <2>1 DEF Aborts, Current, InIdle, InEngine, CalcDue
    <2>3. InPolicy(e) /\ InGraph(e) /\ StopsKept(e)
      BY <1>3, <2>1, Zenon DEF Aborts, Current, InPolicy, InGraph, StopsKept, Busy, Running
    <2> QED BY <2>2, <2>3 DEF Current, e
  <1> QED BY <1>2, <1>3

(* controld_fsa_stall: m is the message that is put back. *)
Stalls(d, action, e, m) ==
  /\ e \in Controllers /\ e.stalled
  /\ e.state = d.state /\ e.complete = d.complete /\ e.action = d.action
  /\ e.version = d.version /\ e.delay = d.delay /\ e.connected = d.connected
  /\ e.ref = d.ref
  /\ d.cur.data = NoData => e.queue = d.queue /\ e.acts = d.acts \cup {action}
  /\ d.cur.data # NoData => Appended(d.queue, m, e.queue) /\ e.acts = {}
  /\ m.input = "I_WAIT_FOR_EVENT" /\ m.data = d.cur.data
  /\ m.acts = d.acts \cup {action}

LEMMA StallFields ==
  ASSUME NEW d \in Controllers, NEW action \in Actions
  PROVE  \E m : Stalls(d, action, FsaStall(d, action), m)
  <1> DEFINE e == FsaStall(d, action)
             a == d.acts \cup {action}
             m == Msg("I_WAIT_FOR_EVENT", d.cur.data, a)
             q == Append(d.queue, m)
  <1>1. /\ d.cur.data \in Data /\ a \in SUBSET Actions /\ d.queue \in Seq(Msgs)
        /\ {} \in SUBSET Actions
    BY DEF Controllers, Msgs
  <1>2. e = IF d.cur.data = NoData
            THEN [d EXCEPT !.stalled = TRUE, !.acts = a]
            ELSE [d EXCEPT !.stalled = TRUE, !.acts = {}, !.queue = q]
    BY DEF FsaStall, Controllers
  <1> HIDE DEF e, a
  <1>3. m \in Msgs /\ m.input = "I_WAIT_FOR_EVENT" /\ m.data = d.cur.data /\ m.acts = a
    BY <1>1, MsgTypes, InputSet
  <1> HIDE DEF m
  <1>4. q \in Seq(Msgs) /\ Appended(d.queue, m, q)
    BY <1>1, <1>3, AppendIs
  <1> HIDE DEF q
  <1>5. ASSUME d.cur.data = NoData
        PROVE  /\ e \in Controllers /\ e.stalled
               /\ e.state = d.state /\ e.complete = d.complete /\ e.action = d.action
               /\ e.version = d.version /\ e.delay = d.delay /\ e.connected = d.connected
               /\ e.ref = d.ref /\ e.queue = d.queue /\ e.acts = a
    <2>1. e = [d EXCEPT !.stalled = TRUE, !.acts = a]
      BY <1>2, <1>5
    <2>2. e \in Controllers
      BY <1>1, <2>1, Zenon DEF Controllers
    <2> QED BY <2>1, <2>2 DEF Controllers
  <1>6. ASSUME d.cur.data # NoData
        PROVE  /\ e \in Controllers /\ e.stalled
               /\ e.state = d.state /\ e.complete = d.complete /\ e.action = d.action
               /\ e.version = d.version /\ e.delay = d.delay /\ e.connected = d.connected
               /\ e.ref = d.ref /\ e.queue = q /\ e.acts = {}
    <2>1. e = [d EXCEPT !.stalled = TRUE, !.acts = {}, !.queue = q]
      BY <1>2, <1>6
    <2>2. e \in Controllers
      BY <1>1, <1>4, <2>1, Zenon DEF Controllers
    <2> QED BY <2>1, <2>2 DEF Controllers
  <1>7. Stalls(d, action, e, m)
    BY <1>3, <1>4, <1>5, <1>6, Zenon DEF Stalls, a
  <1> QED BY <1>7 DEF e
================================================================================
