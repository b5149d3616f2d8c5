------------------------------ MODULE CibProofs ------------------------------
(***************************************************************************)
(* Proofs about Cib, for all sets of nodes and all scenarios.              *)
(***************************************************************************)
EXTENDS Cib, FiniteSetTheorems, SequenceTheorems, TLAPS

-----------------------------------------------------------------------------
(* Operations on a CIB *)

OutcomeType == [rc : Results, cib : CibType, dirty : BOOLEAN, config : BOOLEAN]

ModifyData == [config : Nat] \cup [status : Nat] \cup [admin : Nat] \cup [admin : Nat, config : Nat]

(* What is not older than something that is not older is not older. *)
LEMMA OlderTransitive ==
  ASSUME NEW a \in CibType, NEW b \in CibType, NEW c \in CibType, ~Older(b, a), ~Older(c, b)
  PROVE  ~Older(c, a)
  BY SMT DEF Older, CibType

LEMMA OlderIrreflexive ==
  ASSUME NEW a \in CibType
  PROVE  ~Older(a, a)
  BY SMT DEF Older, CibType

(* A modification yields a CIB. *)
LEMMA UpdatedType ==
  ASSUME NEW c \in CibType, NEW d \in ModifyData
  PROVE  Updated(c, d) \in CibType
  BY SMT DEF Updated, CibType, ModifyData, EmptyCib

(* An outcome that is no change to be worried about *)
Fine(m, c, o) ==
  /\ o \in OutcomeType
  /\ \/ ~Older(o.cib, c) \/ Lowers(m, c)
     \/ Backwards(c, o.cib) /\ ~o.config

LEMMA OutcomeHasType ==
  ASSUME NEW rc \in Results, NEW old \in CibType, NEW new \in CibType, NEW replaced \in BOOLEAN
  PROVE  /\ Outcome(rc, old, new, replaced) \in OutcomeType
         /\ Outcome(rc, old, new, replaced).cib = new
         /\ Outcome(rc, old, new, replaced).rc = rc
  BY Zenon DEF Outcome, OutcomeType

(* The outcome of an operation that yields a CIB that is not older, or one *)
(* that check_cib_versions() would notice, is fine.                        *)
LEMMA OutcomeForward ==
  ASSUME NEW m, NEW rc \in Results, NEW old \in CibType, NEW new \in CibType,
         NEW replaced \in BOOLEAN,
         \/ ~Older(new, old) \/ Lowers(m, old)
         \/ Backwards(old, new) /\ new.config = old.config
  PROVE  Fine(m, old, Outcome(rc, old, new, replaced))
  <1>. DEFINE o == Outcome(rc, old, new, replaced)
  <1>1. o \in OutcomeType /\ o.cib = new
    BY Zenon DEF Outcome, OutcomeType
  <1>2. new.config = old.config => ~o.config
    BY Zenon DEF Outcome
  <1>. QED
    BY <1>1, <1>2, Zenon DEF Fine

(* xml_create_patchset() does not lower the version. *)
LEMMA PatchsetForward ==
  ASSUME NEW m, m.update \in BOOLEAN, NEW o \in OutcomeType
  PROVE  CreatePatchset(m, o) \in CibType /\ ~Older(CreatePatchset(m, o), o.cib)
  <1>1. m.update \in BOOLEAN
    OBVIOUS
  <1>2. o.cib \in CibType /\ o.dirty \in BOOLEAN /\ o.config \in BOOLEAN
    BY DEF OutcomeType
  <1>3. CASE m.update \/ ~o.dirty
    <2>1. CreatePatchset(m, o) = o.cib
      BY <1>1, <1>2, <1>3 DEF CreatePatchset
    <2>. QED
      BY <2>1, <1>2, OlderIrreflexive
  <1>4. CASE ~m.update /\ o.dirty /\ o.config
    <2>1. CreatePatchset(m, o) = [o.cib EXCEPT !.epoch = @ + 1, !.updates = 0]
      BY <1>1, <1>2, <1>4 DEF CreatePatchset
    <2>. DEFINE c == CreatePatchset(m, o)
    <2>2. /\ c \in CibType /\ c.admin = o.cib.admin /\ c.epoch = o.cib.epoch + 1
      <3>1. o.cib.epoch \in Nat /\ o.cib.epoch + 1 \in Nat /\ 0 \in Nat
        BY <1>2 DEF CibType
      <3>. QED
        BY <2>1, <3>1, <1>2, Zenon DEF CibType
    <2>. QED
      BY <2>2, <1>2, SMT DEF CibType, Older
  <1>5. CASE ~m.update /\ o.dirty /\ ~o.config
    <2>1. CreatePatchset(m, o) = [o.cib EXCEPT !.updates = @ + 1]
      BY <1>1, <1>2, <1>5 DEF CreatePatchset
    <2>. QED
      BY <2>1, <1>2 DEF CibType, Older
  <1>. QED
    BY <1>1, <1>2, <1>3, <1>4, <1>5

(* Neither does the end of cib__perform_op_rw(), and without a change of   *)
(* the configuration it refuses a CIB with a lower version.                *)
LEMMA FinishForward ==
  ASSUME NEW m, m.update \in BOOLEAN, NEW c \in CibType, NEW o \in OutcomeType
  PROVE  /\ Finish(m, c, o) \in OutcomeType
         /\ ~Older(Finish(m, c, o).cib, o.cib)
         /\ Finish(m, c, o).rc = "ok" => o.config \/ ~Backwards(c, o.cib)
  <1>1. CreatePatchset(m, o) \in CibType /\ ~Older(CreatePatchset(m, o), o.cib)
    BY PatchsetForward
  <1>2. DEFINE rc == IF Backwards(c, o.cib) /\ ~o.config THEN "old data" ELSE "ok"
  <1>3. rc \in Results /\ (rc = "ok" => o.config \/ ~Backwards(c, o.cib))
    BY DEF Results
  <1>4. /\ Finish(m, c, o) \in OutcomeType
        /\ Finish(m, c, o).cib = CreatePatchset(m, o)
        /\ Finish(m, c, o).rc = rc
    <2>. HIDE DEF rc
    <2>1. Finish(m, c, o) = [o EXCEPT !.cib = CreatePatchset(m, o), !.rc = rc]
      BY DEF Finish, rc
    <2>. QED
      BY <2>1, <1>1, <1>3, Zenon DEF OutcomeType
  <1>. QED
    BY <1>1, <1>3, <1>4

(* A modification of values other than versions keeps the versions. *)
LEMMA UpdatedForward ==
  ASSUME NEW c \in CibType, NEW d \in [config : Nat] \cup [status : Nat]
  PROVE  Updated(c, d) \in CibType /\ ~Older(Updated(c, d), c)
  <1>1. Updated(c, d) \in CibType
    BY UpdatedType DEF ModifyData
  <1>2. Updated(c, d).admin = c.admin /\ Updated(c, d).epoch = c.epoch /\ Updated(c, d).updates = c.updates
    BY SMT DEF Updated, CibType
  <1>. QED
    BY <1>1, <1>2, SMT DEF Older, CibType

LEMMA ModifyFine ==
  ASSUME NEW m \in Message, m.op = "modify", NEW c \in CibType
  PROVE  Fine(m, c, ProcessModify(m, c))
  <1>. DEFINE new == Updated(c, m.data)
              o == ProcessModify(m, c)
  <1>1. m.data \in ModifyData
    BY DEF Message, Form, ModifyData
  <1>2. new \in CibType
    BY <1>1, UpdatedType
  <1>3. ASSUME \/ ~Older(new, c) \/ Lowers(m, c)
               \/ Backwards(c, new) /\ new.config = c.config
        PROVE  Fine(m, c, o)
    <2>1. "ok" \in Results
      BY DEF Results
    <2>2. o = Outcome("ok", c, new, FALSE)
      BY DEF ProcessModify
    <2>. HIDE DEF new
    <2>. QED
      BY <1>2, <1>3, <2>1, <2>2, OutcomeForward
  <1>4. CASE m.data \in [config : Nat] \cup [status : Nat]
    BY <1>3, <1>4, UpdatedForward
  <1>5. CASE m.data \in [admin : Nat]
    <2>1. new.admin = m.data.admin /\ new.epoch = c.epoch /\ new.updates = c.updates /\ new.config = c.config
      BY <1>5, SMT DEF Updated, CibType
    <2>2. ~Older(new, c) \/ Backwards(c, new)
      BY <1>2, <2>1, SMT DEF Older, Backwards, CibType
    <2>. QED
      BY <1>3, <2>1, <2>2
  <1>6. CASE m.data \in [admin : Nat, config : Nat]
    <2>1. new.admin = m.data.admin /\ new.epoch = c.epoch /\ new.updates = c.updates
      BY <1>6, SMT DEF Updated, CibType
    <2>2. {"admin", "config"} \subseteq DOMAIN m.data
      BY <1>6
    <2>3. ~Older(new, c) \/ m.data.admin < c.admin
      BY <1>2, <2>1, SMT DEF Older, CibType
    <2>. QED
      BY <1>3, <2>2, <2>3 DEF Lowers
  <1>. QED
    BY <1>1, <1>4, <1>5, <1>6 DEF ModifyData

LEMMA CreateFine ==
  ASSUME NEW m \in Message, m.op = "create", NEW c \in CibType
  PROVE  Fine(m, c, ProcessCreate(m, c)) /\ ~Older(ProcessCreate(m, c).cib, c)
  <1>1. m.data \in [status : Nat]
    BY DEF Message, Form
  <1>2. Updated(c, m.data) \in CibType /\ ~Older(Updated(c, m.data), c)
    BY <1>1, UpdatedForward
  <1>3. "exists" \in Results
    BY DEF Results
  <1>. QED
    <2>1. Fine(m, c, ProcessCreate(m, c))
      BY <1>2, <1>3, OutcomeForward DEF ProcessCreate
    <2>2. ProcessCreate(m, c).cib = Updated(c, m.data)
      BY Zenon DEF ProcessCreate, Outcome
    <2>. QED
      BY <1>2, <2>1, <2>2

LEMMA BumpFine ==
  ASSUME NEW m, NEW c \in CibType
  PROVE  Fine(m, c, ProcessBump(c))
  <1>. DEFINE new == [c EXCEPT !.epoch = @ + 1]
  <1>1. c.epoch + 1 \in Nat
    BY DEF CibType
  <1>2. new \in CibType /\ new.admin = c.admin /\ new.epoch = c.epoch + 1
    BY <1>1, Zenon DEF CibType
  <1>3. ~Older(new, c)
    BY <1>2, SMT DEF Older, CibType
  <1>4. "ok" \in Results
    BY DEF Results
  <1>. QED
    BY <1>2, <1>3, <1>4, OutcomeForward, Zenon DEF ProcessBump

LEMMA EraseFine ==
  ASSUME NEW m, NEW c \in CibType
  PROVE  Fine(m, c, ProcessErase(c))
  <1>. DEFINE new == [c EXCEPT !.config = 0, !.status = 0, !.admin = @ + 1]
              o == Outcome("ok", c, new, TRUE)
  <1>1. c.admin + 1 \in Nat /\ 0 \in Nat
    BY DEF CibType
  <1>2. new \in CibType /\ new.admin = c.admin + 1
    BY <1>1, Zenon DEF CibType
  <1>3. ~Older(new, c)
    BY <1>2, SMT DEF Older, CibType
  <1>4. "ok" \in Results
    BY DEF Results
  <1>5. o \in OutcomeType /\ o.cib = new
    <2>. HIDE DEF new
    <2>. QED
      BY <1>2, <1>4, OutcomeHasType, Zenon
  <1>6. ProcessErase(c) = [o EXCEPT !.config = TRUE]
    BY DEF ProcessErase
  <1>7. ProcessErase(c) \in OutcomeType /\ ProcessErase(c).cib = new
    BY <1>5, <1>6, Zenon DEF OutcomeType
  <1>. QED
    BY <1>3, <1>7 DEF Fine

LEMMA ReplaceFine ==
  ASSUME NEW m \in Message, m.op = "replace", NEW c \in CibType
  PROVE  Fine(m, c, ReplaceCib(m, c))
  <1>1. m.cib \in CibType
    BY DEF Message, Form
  <1>2. "ok" \in Results /\ "old data" \in Results
    BY DEF Results
  <1>3. CASE Older(m.cib, c)
    BY <1>2, <1>3, OutcomeForward, OlderIrreflexive DEF ReplaceCib
  <1>4. CASE ~Older(m.cib, c)
    BY <1>1, <1>2, <1>4, OutcomeForward DEF ReplaceCib
  <1>. QED
    BY <1>3, <1>4

LEMMA UpgradeFine ==
  ASSUME NEW m \in Message, m.op = "upgrade", m.max # 0, NEW c \in CibType
  PROVE  Fine(m, c, ProcessUpgrade(m, c))
  <1>. DEFINE new == [c EXCEPT !.schema = m.max, !.admin = @ + 1, !.epoch = 1, !.updates = 1]
  <1>1. c.admin + 1 \in Nat /\ 1 \in Nat /\ m.max \in {1, EmptyCib.schema}
    BY DEF CibType, Message, Form
  <1>2. new \in CibType /\ new.admin = c.admin + 1
    BY <1>1, Zenon DEF CibType
  <1>3. ~Older(new, c)
    BY <1>2, SMT DEF Older, CibType
  <1>4. "ok" \in Results /\ "unchanged" \in Results
    BY DEF Results
  <1>5. CASE c.schema < m.max
    <2>1. ProcessUpgrade(m, c) = Outcome("ok", c, new, TRUE)
      BY <1>5 DEF ProcessUpgrade
    <2>. HIDE DEF new
    <2>. QED
      BY <1>2, <1>3, <1>4, <2>1, OutcomeForward
  <1>6. CASE ~(c.schema < m.max)
    <2>1. ProcessUpgrade(m, c) = Outcome("unchanged", c, c, TRUE)
      BY <1>6 DEF ProcessUpgrade
    <2>. QED
      BY <1>4, <2>1, OutcomeForward, OlderIrreflexive
  <1>. QED
    BY <1>5, <1>6

(* The requests of a transaction add up to a change that is not one to an  *)
(* older CIB.                                                              *)
LEMMA TransactionForward ==
  ASSUME NEW m, m.update \in BOOLEAN, NEW o \in OutcomeType,
         NEW data \in [config : Nat] \cup [status : Nat] \cup {<< >>}
  PROVE  /\ TransactionRequest(m, o, data) \in OutcomeType
         /\ ~Older(TransactionRequest(m, o, data).cib, o.cib)
  <1>. DEFINE new == Updated(o.cib, data)
              sum == [rc |-> "ok", cib |-> new, dirty |-> o.dirty \/ new # o.cib,
                      config |-> o.config \/ new.config # o.cib.config]
  <1>1. "ok" \in Results /\ "failed" \in Results
    BY DEF Results
  <1>2. o.cib \in CibType
    BY DEF OutcomeType
  <1>3. CASE o.rc # "ok"
    BY <1>2, <1>3, OlderIrreflexive DEF TransactionRequest
  <1>4. CASE o.rc = "ok" /\ data = << >>
    <2>1. TransactionRequest(m, o, data) = [o EXCEPT !.rc = "failed"]
      BY <1>4 DEF TransactionRequest
    <2>2. TransactionRequest(m, o, data) \in OutcomeType /\ TransactionRequest(m, o, data).cib = o.cib
      BY <1>1, <2>1, Zenon DEF OutcomeType
    <2>. QED
      BY <1>2, <2>2, OlderIrreflexive
  <1>5. CASE o.rc = "ok" /\ data # << >>
    <2>1. new \in CibType /\ ~Older(new, o.cib)
      BY <1>2, <1>5, UpdatedForward
    <2>2. TransactionRequest(m, o, data) = Finish(m, o.cib, sum)
      BY <1>5 DEF TransactionRequest
    <2>3. sum \in OutcomeType /\ sum.cib = new
      <3>. HIDE DEF new
      <3>. QED
        BY <1>1, <2>1, Zenon DEF OutcomeType
    <2>. HIDE DEF new, sum
    <2>4. Finish(m, o.cib, sum) \in OutcomeType /\ ~Older(Finish(m, o.cib, sum).cib, new)
      BY <1>2, <2>3, FinishForward
    <2>5. Finish(m, o.cib, sum).cib \in CibType
      BY <2>4 DEF OutcomeType
    <2>. QED
      BY <1>2, <2>1, <2>2, <2>4, <2>5, OlderTransitive
  <1>. QED
    BY <1>3, <1>4, <1>5

LEMMA CommitFine ==
  ASSUME NEW m \in Message, m.op = "commit", NEW c \in CibType
  PROVE  Fine(m, c, CommitTransaction(m, c))
  <1>. DEFINE start == Outcome("ok", c, c, FALSE)
              first == TransactionRequest(m, start, m.data[1])
              last == TransactionRequest(m, first, m.data[2])
  <1>1. m.update \in BOOLEAN /\ m.data[1] \in [config : Nat] /\ m.data[2] \in [status : Nat] \cup {<< >>}
    BY DEF Message, Form
  <1>2. start \in OutcomeType /\ start.cib = c
    <2>1. "ok" \in Results
      BY DEF Results
    <2>. QED
      BY <2>1, OutcomeHasType
  <1>3. CommitTransaction(m, c) = last
    BY DEF CommitTransaction
  <1>. HIDE DEF start
  <1>4. first \in OutcomeType /\ ~Older(first.cib, c)
    BY <1>1, <1>2, TransactionForward
  <1>. HIDE DEF first
  <1>5. last \in OutcomeType /\ ~Older(last.cib, first.cib)
    BY <1>1, <1>4, TransactionForward
  <1>. HIDE DEF last
  <1>6. first.cib \in CibType /\ last.cib \in CibType
    BY <1>4, <1>5 DEF OutcomeType
  <1>. QED
    BY <1>3, <1>4, <1>5, <1>6, OlderTransitive DEF Fine

(* What cib__perform_op_rw() is called for *)
Performed ==
  {m \in Message : m.op \notin {"sync", "ping"}} \cup {[Msg EXCEPT !.op = "primary"]}

LEMMA OperationFine ==
  ASSUME NEW m \in Performed, NEW c \in CibType
  PROVE  Fine(m, c, Operation(m, c)) /\ (InPlace(m) => ~Older(Operation(m, c).cib, c))
  <1>. DEFINE o == Operation(m, c)
  <1>1. CASE m \in Message /\ m.op = "modify"
    <2>1. o = ProcessModify(m, c)
      BY <1>1 DEF Operation
    <2>2. Fine(m, c, o)
      BY <1>1, <2>1, ModifyFine
    <2>3. ASSUME InPlace(m) PROVE ~Older(o.cib, c)
      <3>1. m.data \in [status : Nat]
        BY <1>1, <2>3 DEF InPlace, Message, Form
      <3>2. ProcessModify(m, c).cib = Updated(c, m.data)
        BY Zenon DEF ProcessModify, Outcome
      <3>. QED
        BY <2>1, <3>1, <3>2, UpdatedForward
    <2>. QED
      BY <2>2, <2>3
  <1>2. CASE m \in Message /\ m.op = "create"
    BY <1>2, CreateFine DEF Operation
  <1>3. CASE m \in Message /\ m.op = "bump"
    BY <1>3, BumpFine DEF Operation, InPlace
  <1>4. CASE m \in Message /\ m.op = "erase"
    BY <1>4, EraseFine DEF Operation, InPlace
  <1>5. CASE m \in Message /\ m.op = "replace"
    BY <1>5, ReplaceFine DEF Operation, InPlace
  <1>6. CASE m \in Message /\ m.op = "commit"
    BY <1>6, CommitFine DEF Operation, InPlace
  <1>7. CASE m \in Message /\ m.op = "upgrade" /\ m.max # 0
    <2>1. m.max > 0
      BY <1>7 DEF Message, Form, EmptyCib
    <2>. QED
      BY <1>7, <2>1, UpgradeFine DEF Operation, InPlace
  <1>8. CASE m \in Message /\ m.op = "upgrade" /\ m.max = 0
    <2>. DEFINE rc == IF CanUpgrade(c) THEN "ok" ELSE "unchanged"
    <2>1. o = Outcome(rc, c, c, FALSE)
      BY <1>8 DEF Operation
    <2>2. rc \in Results
      BY DEF Results
    <2>. QED
      BY <1>8, <2>1, <2>2, OutcomeForward, OlderIrreflexive DEF InPlace
  <1>9. CASE m = [Msg EXCEPT !.op = "primary"]
    <2>1. m.op = "primary"
      BY <1>9 DEF Msg
    <2>2. o = Outcome("ok", c, c, FALSE)
      BY <2>1 DEF Operation
    <2>3. "ok" \in Results
      BY DEF Results
    <2>. QED
      BY <2>1, <2>2, <2>3, OutcomeForward, OlderIrreflexive DEF InPlace
  <1>. QED
    <2>1. CASE m \in Message /\ m.op \notin {"sync", "ping"}
      <3>1. m.op \in {"modify", "create", "commit", "replace", "bump", "erase", "upgrade"}
        BY <2>1 DEF Message, Form
      <3>. QED
        BY <2>1, <3>1, <1>1, <1>2, <1>3, <1>4, <1>5, <1>6, <1>7, <1>8
    <2>. QED
      BY <2>1, <1>9 DEF Performed

(* cib__perform_op_rw() accepts no older CIB, unless a request changes the *)
(* configuration and lowers admin_epoch.                                   *)
LEMMA PerformForward ==
  ASSUME NEW m \in Performed, NEW c \in CibType
  PROVE  /\ PerformOp(m, c) \in OutcomeType
         /\ PerformOp(m, c).rc = "ok" \/ InPlace(m)
              => ~Older(PerformOp(m, c).cib, c) \/ Lowers(m, c)
  <1>. DEFINE o == Operation(m, c)
              f == Finish(m, c, o)
  <1>1. m.update \in BOOLEAN
    BY DEF Performed, Message, Form, Msg
  <1>2. o \in OutcomeType /\ o.cib \in CibType /\ Fine(m, c, o) /\ (InPlace(m) => ~Older(o.cib, c))
    BY OperationFine DEF Fine, OutcomeType
  <1>. HIDE DEF o
  <1>3. CASE o.rc = "ok"
    <2>1. PerformOp(m, c) = f
      BY <1>3 DEF PerformOp, o
    <2>2. /\ f \in OutcomeType /\ ~Older(f.cib, o.cib)
          /\ f.rc = "ok" => o.config \/ ~Backwards(c, o.cib)
      BY <1>1, <1>2, FinishForward
    <2>. HIDE DEF f
    <2>3. f.cib \in CibType
      BY <2>2 DEF OutcomeType
    <2>4. ~Older(o.cib, c) => ~Older(f.cib, c)
      BY <1>2, <2>2, <2>3, OlderTransitive
    <2>. QED
      BY <1>2, <2>1, <2>2, <2>4 DEF Fine
  <1>4. CASE o.rc # "ok"
    <2>1. PerformOp(m, c) = o
      BY <1>4 DEF PerformOp, o
    <2>. QED
      BY <1>2, <1>4, <2>1
  <1>. QED
    BY <1>3, <1>4

-----------------------------------------------------------------------------
(* The functions of the CIB manager *)

StateType == [node : [Node -> Manager], calls : Seq(ClientCall)]

(* t is a state in which all nodes have the CIB they have in s. *)
Keeps(s, t) == t \in StateType /\ \A k \in Node : t.node[k].cib = s.node[k].cib

LEMMA KeepsTransitive ==
  ASSUME NEW s, NEW t, NEW u, Keeps(s, t), Keeps(t, u)
  PROVE  Keeps(s, u)
  BY DEF Keeps

LEMMA SourceType ==
  ASSUME NEW m \in Message, NEW n \in Node
  PROVE  [m EXCEPT !.src = n] \in Message
  <1>1. ASSUME NEW ops, NEW data, NEW cibs, m \in Form(ops, data, cibs)
        PROVE  [m EXCEPT !.src = n] \in Form(ops, data, cibs)
    BY <1>1, Zenon DEF Form
  <1>. QED
    BY <1>1, Zenon DEF Message

(* One manager changes. *)
LEMMA OneManager ==
  ASSUME NEW s \in StateType, NEW n \in Node, NEW r \in Manager
  PROVE  /\ [s EXCEPT !.node[n] = r] \in StateType
         /\ [s EXCEPT !.node[n] = r].node[n] = r
         /\ \A k \in Node \ {n} : [s EXCEPT !.node[n] = r].node[k] = s.node[k]
         /\ r.cib = s.node[n].cib => Keeps(s, [s EXCEPT !.node[n] = r])
  <1>. DEFINE t == [s EXCEPT !.node[n] = r]
  <1>1. s.node \in [Node -> Manager] /\ s.calls \in Seq(ClientCall)
    BY DEF StateType
  <1>2. t.node = [s.node EXCEPT ![n] = r] /\ t.calls = s.calls /\ t \in StateType
    BY <1>1, Zenon DEF StateType
  <1>3. t.node[n] = r /\ \A k \in Node \ {n} : t.node[k] = s.node[k]
    BY <1>1, <1>2
  <1>. QED
    BY <1>2, <1>3 DEF Keeps

LEMMA SendKeeps ==
  ASSUME NEW s \in StateType, NEW n \in Node, NEW to, NEW m \in Message
  PROVE  Keeps(s, Send(s, n, to, m))
  <1>. DEFINE msg == [m EXCEPT !.src = n]
              got(k) == [s.node[k] EXCEPT !.inbox = Append(@, msg)]
              all == [k \in Node |-> IF k \in Part(n) \cap to THEN got(k) ELSE s.node[k]]
  <1>1. msg \in Message
    BY SourceType
  <1>2. ASSUME NEW k \in Node PROVE got(k) \in Manager /\ got(k).cib = s.node[k].cib
    <2>1. s.node[k] \in Manager
      BY DEF StateType
    <2>2. Append(s.node[k].inbox, msg) \in Seq(Message)
      <3>1. s.node[k].inbox \in Seq(Message)
        BY <2>1 DEF Manager
      <3>. HIDE DEF msg
      <3>. QED
        BY <1>1, <3>1
    <2>. HIDE DEF msg
    <2>. QED
      BY <2>1, <2>2, Zenon DEF Manager
  <1>3. Send(s, n, to, m) = [s EXCEPT !.node = all]
    BY DEF Send
  <1>. HIDE DEF got
  <1>4. all \in [Node -> Manager] /\ \A k \in Node : all[k].cib = s.node[k].cib
    <2>1. \A k \in Node : s.node[k] \in Manager
      BY DEF StateType
    <2>. QED
      BY <1>2, <2>1
  <1>. HIDE DEF all
  <1>5. [s EXCEPT !.node = all] \in StateType /\ [s EXCEPT !.node = all].node = all
    BY <1>4, Zenon DEF StateType
  <1>. QED
    BY <1>3, <1>4, <1>5 DEF Keeps

LEMMA EndedType ==
  ASSUME NEW c \in ClientCall, NEW rc \in Results
  PROVE  Ended(c, rc) \in ClientCall
  <1>1. EmptyCib \in CibType
    BY DEF EmptyCib, CibType
  <1>2. c.node \in Node
    BY DEF ClientCall
  <1>. QED
    BY <1>1, <1>2, SMT DEF ClientCall, Ended

LEMMA NotifyKeeps ==
  ASSUME NEW s \in StateType, NEW n, NEW id, NEW rc \in Results
  PROVE  Keeps(s, Notify(s, n, id, rc))
  <1>. DEFINE e == Ended(s.calls[id], rc)
              cs == [s.calls EXCEPT ![id] = e]
  <1>0. s.node \in [Node -> Manager] /\ s.calls \in Seq(ClientCall)
    BY DEF StateType
  <1>1. CASE id \in DOMAIN s.calls /\ s.calls[id].node = n /\ s.calls[id].rc = "wait"
    <2>1. Notify(s, n, id, rc) = [s EXCEPT !.calls = cs]
      BY <1>1 DEF Notify
    <2>2. e \in ClientCall
      BY <1>0, <1>1, EndedType
    <2>. HIDE DEF e
    <2>3. cs \in Seq(ClientCall)
      BY <1>0, <1>1, <2>2, ExceptSeq
    <2>. HIDE DEF cs
    <2>4. [s EXCEPT !.calls = cs] \in StateType /\ [s EXCEPT !.calls = cs].node = s.node
      BY <2>3, Zenon DEF StateType
    <2>. QED
      BY <2>1, <2>4 DEF Keeps
  <1>2. CASE ~(id \in DOMAIN s.calls /\ s.calls[id].node = n /\ s.calls[id].rc = "wait")
    BY <1>2 DEF Notify, Keeps
  <1>. QED
    BY <1>1, <1>2

LEMMA MsgType == Msg \in Form({"none"}, {<< >>}, {None})
  BY SMT DEF Msg, Form, Results, EmptyCib

(* The kinds of messages *)
LEMMA FormMessage ==
  /\ Form({"replace"}, {<< >>}, CibType) \subseteq Message
  /\ Form({"bump", "erase", "upgrade", "sync"}, {<< >>}, {None}) \subseteq Message
  /\ Form({"ping"}, {<< >>}, CibType \cup {None}) \subseteq Message
  BY Zenon DEF Message

LEMMA SyncOurCibKeeps ==
  ASSUME NEW s \in StateType, NEW n \in Node, NEW to,
         NEW m, m.src \in Node \cup {None}, m.call \in Nat
  PROVE  Keeps(s, SyncOurCib(s, n, m, to))
  <1>. DEFINE c == s.node[n].cib
              msg == [Msg EXCEPT !.op = "replace", !.update = TRUE, !.cib = c,
                                 !.replyTo = m.src, !.call = m.call]
  <1>1. c \in CibType
    BY DEF StateType, Manager
  <1>2. msg \in Message
    <2>. HIDE DEF c
    <2>1. msg \in Form({"replace"}, {<< >>}, CibType)
      BY <1>1, MsgType, Zenon DEF Form
    <2>. QED
      BY <2>1, FormMessage
  <1>3. SyncOurCib(s, n, m, to) = Send(s, n, to, msg)
    BY DEF SyncOurCib
  <1>. HIDE DEF msg
  <1>. QED
    BY <1>2, <1>3, SendKeeps

LEMMA AnswerUpgradeKeeps ==
  ASSUME NEW s \in StateType, NEW n \in Node, NEW m \in Message
  PROVE  Keeps(s, AnswerUpgrade(s, n, m))
  <1>. DEFINE yes == [Msg EXCEPT !.op = "upgrade", !.max = EmptyCib.schema,
                                 !.delegated = m.src, !.call = m.call]
              no == [Msg EXCEPT !.op = "upgrade", !.rc = "unchanged",
                                !.replyTo = m.src, !.call = m.call]
  <1>1. m.src \in Node \cup {None} /\ m.call \in Nat
    BY DEF Message, Form
  <1>2. yes \in Message /\ no \in Message
    <2>1. "unchanged" \in Results
      BY DEF Results
    <2>2. yes \in Form({"bump", "erase", "upgrade", "sync"}, {<< >>}, {None})
      BY <1>1, MsgType, Zenon DEF Form
    <2>3. no \in Form({"bump", "erase", "upgrade", "sync"}, {<< >>}, {None})
      BY <1>1, <2>1, MsgType, Zenon DEF Form
    <2>. QED
      BY <2>2, <2>3, FormMessage
  <1>3. AnswerUpgrade(s, n, m) \in {Send(s, n, Node, yes), Send(s, n, {m.src}, no)}
    BY DEF AnswerUpgrade
  <1>. HIDE DEF yes, no
  <1>. QED
    BY <1>2, <1>3, SendKeeps

LEMMA PingReplyKeeps ==
  ASSUME NEW s \in StateType, NEW n \in Node, NEW m \in Message
  PROVE  Keeps(s, ProcessPingReply(s, n, m))
  <1>. DEFINE r == s.node[n]
              mine == IF r.digest = None THEN r.cib ELSE r.digest
              new == [r EXCEPT !.digest = mine]
              read == [s EXCEPT !.node[n] = new]
  <1>1. r \in Manager
    BY DEF StateType
  <1>2. mine \in CibType \cup {None}
    BY <1>1 DEF Manager
  <1>3. new \in Manager /\ new.cib = r.cib
    <2>. HIDE DEF mine, r
    <2>. QED
      BY <1>1, <1>2, Zenon DEF Manager
  <1>4. Keeps(s, read)
    <2>. HIDE DEF new
    <2>. QED
      BY <1>3, OneManager
  <1>5. m.src \in Node \cup {None} /\ m.call \in Nat
    BY DEF Message, Form
  <1>6. ProcessPingReply(s, n, m) \in {s, read, SyncOurCib(read, n, m, {m.src})}
    BY DEF ProcessPingReply
  <1>. HIDE DEF read
  <1>7. Keeps(read, SyncOurCib(read, n, m, {m.src}))
    BY <1>4, <1>5, SyncOurCibKeeps DEF Keeps
  <1>8. Keeps(s, s)
    BY DEF Keeps
  <1>. QED
    BY <1>4, <1>6, <1>7, <1>8, KeepsTransitive

LEMMA ProcessPingKeeps ==
  ASSUME NEW s \in StateType, NEW n \in Node, NEW m \in Message
  PROVE  Keeps(s, ProcessPing(s, n, m))
  <1>. DEFINE c == s.node[n].cib
              msg == [Msg EXCEPT !.op = "ping", !.replyTo = m.src, !.seq = m.seq, !.cib = c]
  <1>1. c \in CibType
    BY DEF StateType, Manager
  <1>2. m.src \in Node \cup {None} /\ m.seq \in Nat
    BY DEF Message, Form
  <1>3. msg \in Message
    <2>. HIDE DEF c
    <2>1. msg \in Form({"ping"}, {<< >>}, CibType \cup {None})
      BY <1>1, <1>2, MsgType, Zenon DEF Form
    <2>. QED
      BY <2>1, FormMessage
  <1>4. ProcessPing(s, n, m) = Send(s, n, {m.src}, msg)
    BY DEF ProcessPing
  <1>. HIDE DEF msg
  <1>. QED
    BY <1>3, <1>4, SendKeeps

LEMMA ProcessSyncKeeps ==
  ASSUME NEW s \in StateType, NEW n \in Node, NEW m \in Message
  PROVE  Keeps(s, ProcessSync(s, n, m))
  <1>. DEFINE t == SyncOurCib(s, n, m, Node)
              msg == [Msg EXCEPT !.op = "sync", !.replyTo = m.src, !.call = m.call, !.rc = "ok"]
  <1>1. m.src \in Node \cup {None} /\ m.call \in Nat
    BY DEF Message, Form
  <1>2. Keeps(s, t)
    BY <1>1, SyncOurCibKeeps
  <1>3. msg \in Message
    <2>1. "ok" \in Results
      BY DEF Results
    <2>2. msg \in Form({"bump", "erase", "upgrade", "sync"}, {<< >>}, {None})
      BY <1>1, <2>1, MsgType, Zenon DEF Form
    <2>. QED
      BY <2>2, FormMessage
  <1>4. ProcessSync(s, n, m) = Send(t, n, {m.src}, msg)
    BY DEF ProcessSync
  <1>. HIDE DEF t, msg
  <1>5. Keeps(t, Send(t, n, {m.src}, msg))
    BY <1>2, <1>3, SendKeeps DEF Keeps
  <1>. QED
    BY <1>2, <1>4, <1>5, KeepsTransitive

(* t is a state in which n may have another CIB after it has performed m,  *)
(* which is not older unless m sets a version back.                        *)
Advances(s, t, n, m) ==
  /\ t \in StateType
  /\ \A k \in Node :
       \/ t.node[k].cib = s.node[k].cib
       \/ k = n /\ (~Older(t.node[k].cib, s.node[k].cib) \/ Lowers(m, s.node[k].cib))

LEMMA KeepsAdvances ==
  ASSUME NEW s, NEW t, NEW u, NEW n, NEW m, Keeps(s, t), Advances(t, u, n, m)
  PROVE  Advances(s, u, n, m)
  BY DEF Keeps, Advances

LEMMA AdvancesKeeps ==
  ASSUME NEW s, NEW t, NEW u, NEW n, NEW m, Advances(s, t, n, m), Keeps(t, u)
  PROVE  Advances(s, u, n, m)
  BY DEF Keeps, Advances

LEMMA PerformOpRwAdvances ==
  ASSUME NEW s \in StateType, NEW n \in Node, NEW m \in Performed
  PROVE  /\ Advances(s, PerformOpRw(s, n, m).s, n, m)
         /\ PerformOpRw(s, n, m).rc \in Results
  <1>. DEFINE r == s.node[n]
              p == PerformOp(m, r.cib)
              done == p.rc = "ok" \/ m.op = "commit"
              disk == p.config \/ m.op \in WritesThrough
              active == IF InPlace(m) THEN [r EXCEPT !.cib = p.cib]
                        ELSE IF p.rc = "ok" THEN ActivateCib(r, p.cib, disk)
                        ELSE r
              new == [active EXCEPT !.modified = @ \/ (done /\ p.dirty),
                                    !.timer = @ \/ (done /\ r.dc)]
  <1>1. r \in Manager /\ r.cib \in CibType
    BY DEF StateType, Manager
  <1>2. /\ p \in OutcomeType /\ p.cib \in CibType /\ p.rc \in Results
        /\ p.rc = "ok" \/ InPlace(m) => ~Older(p.cib, r.cib) \/ Lowers(m, r.cib)
    BY <1>1, PerformForward DEF OutcomeType
  <1>3. PerformOpRw(s, n, m) = [rc |-> p.rc, s |-> [s EXCEPT !.node[n] = new]]
    BY DEF PerformOpRw
  <1>. HIDE DEF p, r, done, disk
  <1>4. [r EXCEPT !.cib = p.cib] \in Manager /\ [r EXCEPT !.cib = p.cib].cib = p.cib
    BY <1>1, <1>2, Zenon DEF Manager
  <1>5. ActivateCib(r, p.cib, disk) \in Manager /\ ActivateCib(r, p.cib, disk).cib = p.cib
    BY <1>1, <1>2, Zenon DEF Manager, ActivateCib
  <1>6. /\ active \in Manager
        /\ active.cib = r.cib \/ ~Older(active.cib, r.cib) \/ Lowers(m, r.cib)
    BY <1>1, <1>2, <1>4, <1>5
  <1>. HIDE DEF active
  <1>7. new \in Manager /\ new.cib = active.cib
    BY <1>6, Zenon DEF Manager
  <1>. HIDE DEF new
  <1>8. Advances(s, [s EXCEPT !.node[n] = new], n, m)
    BY <1>6, <1>7, OneManager DEF Advances, r
  <1>. QED
    BY <1>2, <1>3, <1>8

LEMMA PeerRequestAdvances ==
  ASSUME NEW s \in StateType, NEW n \in Node, NEW m \in Message
  PROVE  Advances(s, ProcessPeerRequest(s, n, m), n, m)
  <1>. DEFINE t == ProcessPeerRequest(s, n, m)
              asked == IF m.op = "upgrade" /\ m.max = 0 THEN AnswerUpgrade(s, n, m) ELSE s
              done == PerformOpRw(asked, n, m)
  <1>1. Keeps(s, s)
    BY DEF Keeps
  <1>2. m.rc \in Results /\ m.call \in Nat
    BY DEF Message, Form
  <1>3. ASSUME Keeps(s, t) PROVE Advances(s, t, n, m)
    BY <1>3 DEF Keeps, Advances
  <1>4. CASE m.op = "ping" /\ m.replyTo = n
    BY <1>3, <1>4, PingReplyKeeps DEF ProcessPeerRequest
  <1>5. CASE ~(m.op = "ping" /\ m.replyTo = n) /\ m.rc # "none"
    BY <1>2, <1>3, <1>5, NotifyKeeps DEF ProcessPeerRequest
  <1>6. CASE ~(m.op = "ping" /\ m.replyTo = n) /\ m.rc = "none" /\ m.op \in {"ping", "sync"}
    BY <1>3, <1>6, ProcessPingKeeps, ProcessSyncKeeps DEF ProcessPeerRequest
  <1>7. CASE m.rc = "none" /\ m.op \notin {"ping", "sync"}
    <2>1. Keeps(s, asked)
      BY <1>1, AnswerUpgradeKeeps
    <2>2. m \in Performed
      BY <1>7 DEF Performed
    <2>3. t \in {s, Notify(done.s, n, m.call, done.rc), done.s}
      BY <1>7 DEF ProcessPeerRequest
    <2>. HIDE DEF asked
    <2>4. Advances(asked, done.s, n, m) /\ done.rc \in Results
      BY <2>1, <2>2, PerformOpRwAdvances DEF Keeps
    <2>. HIDE DEF done
    <2>5. Advances(s, done.s, n, m)
      BY <2>1, <2>4, KeepsAdvances
    <2>6. Keeps(done.s, Notify(done.s, n, m.call, done.rc))
      BY <2>4, NotifyKeeps DEF Advances
    <2>7. Advances(s, Notify(done.s, n, m.call, done.rc), n, m)
      BY <2>5, <2>6, AdvancesKeeps
    <2>8. Advances(s, s, n, m)
      BY DEF Advances
    <2>. QED
      BY <2>3, <2>5, <2>7, <2>8
  <1>. QED
    BY <1>4, <1>5, <1>6, <1>7

LEMMA SecondaryKeeps ==
  ASSUME NEW s \in StateType, NEW n \in Node
  PROVE  Keeps(s, ProcessSecondary(s, n))
  <1>. DEFINE r == s.node[n]
              new == [r EXCEPT !.dc = FALSE, !.timer = FALSE]
  <1>1. r \in Manager
    BY DEF StateType
  <1>2. new \in Manager /\ new.cib = r.cib
    <2>. HIDE DEF r
    <2>. QED
      BY <1>1, Zenon DEF Manager
  <1>3. ProcessSecondary(s, n) = [s EXCEPT !.node[n] = new]
    BY DEF ProcessSecondary
  <1>. HIDE DEF new
  <1>. QED
    BY <1>2, <1>3, OneManager

LEMMA PrimaryAdvances ==
  ASSUME NEW s \in StateType, NEW n \in Node
  PROVE  LET m == [Msg EXCEPT !.op = "primary"]
         IN  Advances(s, ProcessPrimary(s, n, m), n, m)
  <1>. DEFINE m == [Msg EXCEPT !.op = "primary"]
              r == s.node[n]
              new == [r EXCEPT !.dc = TRUE]
              t == [s EXCEPT !.node[n] = new]
  <1>1. r \in Manager
    BY DEF StateType
  <1>2. new \in Manager /\ new.cib = r.cib
    <2>. HIDE DEF r
    <2>. QED
      BY <1>1, Zenon DEF Manager
  <1>3. Keeps(s, t)
    <2>. HIDE DEF new
    <2>. QED
      BY <1>2, OneManager
  <1>4. ProcessPrimary(s, n, m) = PerformOpRw(t, n, m).s
    BY DEF ProcessPrimary
  <1>5. m \in Performed
    BY DEF Performed
  <1>. HIDE DEF m, t
  <1>6. Advances(t, PerformOpRw(t, n, m).s, n, m)
    BY <1>3, <1>5, PerformOpRwAdvances DEF Keeps
  <1>7. Advances(s, ProcessPrimary(s, n, m), n, m)
    BY <1>3, <1>4, <1>6, KeepsAdvances
  <1>. QED
    BY <1>7 DEF m

LEMMA ClientRequestKeeps ==
  ASSUME NEW s \in StateType, NEW n \in Node, NEW m \in Message
  PROVE  Keeps(s, ProcessClientRequest(s, n, m))
  <1>. DEFINE fwd == [m EXCEPT !.delegated = n]
              own == [m EXCEPT !.src = n]
              t == SyncOurCib(s, n, own, Node)
  <1>1. fwd \in Message
    <2>1. ASSUME NEW ops, NEW data, NEW cibs, m \in Form(ops, data, cibs)
          PROVE  fwd \in Form(ops, data, cibs)
      BY <2>1, Zenon DEF Form
    <2>. QED
      BY <2>1, Zenon DEF Message
  <1>2. own \in Message /\ own.src \in Node \cup {None} /\ own.call \in Nat
    <2>1. own \in Message
      BY SourceType
    <2>. HIDE DEF own
    <2>. QED
      BY <2>1 DEF Message, Form
  <1>3. m.op \notin {"secondary", "primary"}
    BY DEF Message, Form
  <1>4. ProcessClientRequest(s, n, m)
          \in {Send(s, n, Node, fwd), Send(s, n, {m.host}, fwd), Notify(t, n, m.call, "ok")}
    BY <1>3 DEF ProcessClientRequest
  <1>. HIDE DEF fwd, own
  <1>5. Keeps(s, t)
    BY <1>2, SyncOurCibKeeps
  <1>. HIDE DEF t
  <1>6. "ok" \in Results
    BY DEF Results
  <1>7. Keeps(t, Notify(t, n, m.call, "ok"))
    BY <1>5, <1>6, NotifyKeeps DEF Keeps
  <1>. QED
    BY <1>1, <1>4, <1>5, <1>7, SendKeeps, KeepsTransitive

-----------------------------------------------------------------------------
(* Files *)

LEMMA OnDiskType ==
  ASSUME NEW c \in CibType
  PROVE  OnDisk(c) \in CibType
  <1>1. 0 \in Nat
    OBVIOUS
  <1>. QED
    BY <1>1, Zenon DEF OnDisk, CibType

LEMMA ChildType ==
  ASSUME NEW c \in CibType
  PROVE  Child(c) \in Writer
  BY OnDiskType DEF Child, Writer

LEMMA NoBackupType == NoBackup \in Backup
  BY DEF NoBackup, Backup

LEMMA NoDiskType == NoDisk \in Disk
  <1>1. 0 \in 0..Series - 1
    BY SeriesAssumption
  <1>2. [i \in 0..Series - 1 |-> NoBackup] \in [0..Series - 1 -> Backup]
    BY NoBackupType
  <1>. QED
    BY <1>1, <1>2, Zenon DEF NoDisk, Disk

(* A backup is replaced. *)
LEMMA BackupType ==
  ASSUME NEW d \in Disk, NEW b \in Backup
  PROVE  [d EXCEPT !.backup[d.next] = b] \in Disk
  <1>1. d.backup \in [0..Series - 1 -> Backup]
    BY DEF Disk
  <1>2. [d.backup EXCEPT ![d.next] = b] \in [0..Series - 1 -> Backup]
    BY <1>1
  <1>. QED
    BY <1>2, Zenon DEF Disk

LEMMA TouchType ==
  ASSUME NEW d \in Disk, NEW file, NEW now \in Nat
  PROVE  Touch(d, file, now) \in Disk
  <1>. DEFINE new(b) == IF file # NoFile /\ b.cib = file THEN [b EXCEPT !.ctime = now] ELSE b
              bs == [i \in DOMAIN d.backup |-> new(d.backup[i])]
  <1>1. ASSUME NEW b \in Backup PROVE new(b) \in Backup
    BY Zenon DEF Backup
  <1>2. d.backup \in [0..Series - 1 -> Backup]
    BY DEF Disk
  <1>3. Touch(d, file, now) = [d EXCEPT !.backup = bs]
    BY DEF Touch
  <1>. HIDE DEF new
  <1>4. bs \in [0..Series - 1 -> Backup]
    BY <1>1, <1>2
  <1>. HIDE DEF bs
  <1>. QED
    BY <1>3, <1>4, Zenon DEF Disk

LEMMA WriteType ==
  ASSUME NEW d \in Disk, NEW w \in Writer, NEW now \in Nat, w.step # "exit"
  PROVE  Write(d, w, now).disk \in Disk /\ Write(d, w, now).child \in Writer
  <1>. DEFINE o == Write(d, w, now)
  <1>1. \A step \in {"link", "link sig", "series", "rename", "rename sig", "exit"} :
          To(w, step) \in Writer
    BY Zenon DEF To, Writer
  <1>2. Failed(w) \in Writer
    <2>1. 1 \in {0, 1}
      OBVIOUS
    <2>. QED
      BY <2>1, Zenon DEF Failed, Writer
  <1>3. /\ d.cib \in CibType \cup {NoFile} /\ d.sig \in CibType \cup {NoFile}
        /\ d.backup \in [0..Series - 1 -> Backup] /\ d.next \in 0..Series - 1
        /\ w.snap \in CibType
    BY DEF Disk, Writer
  <1>4. CASE w.step = "unlink"
    <2>1. [d EXCEPT !.backup[d.next] = NoBackup] \in Disk
      BY NoBackupType, BackupType
    <2>. QED
      BY <1>1, <1>2, <1>4, <2>1 DEF Write
  <1>5. CASE w.step = "link"
    <2>. DEFINE b == [NoBackup EXCEPT !.cib = d.cib]
                new == [d EXCEPT !.backup[d.next] = b]
    <2>1. b \in Backup
      BY <1>3, NoBackupType, Zenon DEF Backup
    <2>2. Link(d, now) = Touch(new, d.cib, now)
      BY DEF Link
    <2>. HIDE DEF b
    <2>3. new \in Disk
      BY <2>1, BackupType
    <2>. HIDE DEF new
    <2>. QED
      BY <1>1, <1>5, <2>2, <2>3, TouchType DEF Write
  <1>6. CASE w.step = "link sig"
    <2>. DEFINE b == [d.backup[d.next] EXCEPT !.sig = d.sig]
    <2>1. b \in Backup
      <3>1. d.backup[d.next] \in Backup
        BY <1>3
      <3>. QED
        BY <1>3, <3>1, Zenon DEF Backup
    <2>2. o.disk = [d EXCEPT !.backup[d.next] = b] /\ o.child = To(w, "series")
      BY <1>6 DEF Write
    <2>. HIDE DEF b
    <2>3. [d EXCEPT !.backup[d.next] = b] \in Disk
      BY <2>1, BackupType
    <2>. QED
      BY <1>1, <2>2, <2>3, Zenon
  <1>7. CASE w.step = "series"
    <2>1. NextBackup(d) \in 0..Series - 1
      BY <1>3, SeriesAssumption DEF NextBackup
    <2>2. [d EXCEPT !.next = NextBackup(d)] \in Disk
      BY <2>1, Zenon DEF Disk
    <2>. QED
      BY <1>1, <1>7, <2>2 DEF Write
  <1>8. CASE w.step = "rename"
    <2>1. [d EXCEPT !.cib = w.snap] \in Disk
      BY <1>3, Zenon DEF Disk
    <2>. QED
      BY <1>1, <1>8, <2>1, TouchType DEF Write
  <1>9. CASE w.step = "rename sig"
    <2>1. [d EXCEPT !.sig = w.snap] \in Disk
      BY <1>3, Zenon DEF Disk
    <2>. QED
      BY <1>1, <1>9, <2>1 DEF Write
  <1>. QED
    BY <1>4, <1>5, <1>6, <1>7, <1>8, <1>9 DEF Writer

LEMMA WriteFailsType ==
  ASSUME NEW w \in Writer, NEW v \in WriteFails(w)
  PROVE  v \in Writer
  <1>1. 1 \in {0, 1}
    OBVIOUS
  <1>2. Failed(w) \in Writer
    BY <1>1, Zenon DEF Failed, Writer
  <1>3. [w EXCEPT !.step = "rename sig", !.rc = 1] \in Writer
    BY <1>1, Zenon DEF Writer
  <1>. QED
    BY <1>2, <1>3 DEF WriteFails

LEMMA ReadCibType ==
  ASSUME NEW d \in Disk
  PROVE  ReadCib(d) \subseteq CibType
  <1>1. EmptyCib \in CibType
    BY DEF EmptyCib, CibType
  <1>2. ReadBackupCib(d) \subseteq CibType
    BY <1>1 DEF ReadBackupCib, MostRecent, Verified, Disk, Backup
  <1>. QED
    BY <1>2 DEF ReadCib, Verified, Disk

LEMMA ArchiveType ==
  ASSUME NEW d \in Disk
  PROVE  Archive(d) \in Disk
  <1>1. [d EXCEPT !.cib = NoFile, !.sig = NoFile] \in Disk
    BY Zenon DEF Disk
  <1>. QED
    BY <1>1 DEF Archive

-----------------------------------------------------------------------------
(* Steps *)

RestOK == side \in [Node -> {1, 2}] /\ clock \in Nat /\ budget \in Bounds

LEMMA StateHasType ==
  ASSUME TypeOK
  PROVE  State \in StateType /\ State.node = node /\ State.calls = calls
  BY DEF TypeOK, State, StateType

(* No CIB changes. *)
LEMMA BecomesKeeps ==
  ASSUME TypeOK, NEW t, Keeps(State, t), Becomes(t), RestOK'
  PROVE  TypeOK' /\ NoneOlder
  <1>1. t \in StateType /\ \A k \in Node : t.node[k].cib = node[k].cib
    BY StateHasType DEF Keeps
  <1>2. t.node \in [Node -> Manager] /\ t.calls \in Seq(ClientCall)
    BY <1>1 DEF StateType
  <1>3. node' = t.node /\ calls' = t.calls
    BY DEF Becomes
  <1>4. TypeOK'
    BY <1>2, <1>3 DEF TypeOK, RestOK
  <1>5. \A k \in Node : node[k].cib \in CibType
    BY DEF TypeOK, Manager
  <1>6. NoneOlder
    BY <1>1, <1>3, <1>5, OlderIrreflexive DEF NoneOlder, Up
  <1>. QED
    BY <1>4, <1>6

(* One manager changes, but not its CIB. *)
LEMMA OnlyNodeKeeps ==
  ASSUME TypeOK, NEW n \in Node, NEW r \in Manager, r.cib = node[n].cib,
         OnlyNode(n, r), calls' \in Seq(ClientCall), RestOK'
  PROVE  TypeOK' /\ NoneOlder
  <1>1. node \in [Node -> Manager] /\ node' = [node EXCEPT ![n] = r]
    BY DEF TypeOK, OnlyNode
  <1>2. node' \in [Node -> Manager] /\ \A k \in Node : node'[k].cib = node[k].cib
    BY <1>1
  <1>3. \A k \in Node : node[k].cib \in CibType
    BY <1>1 DEF Manager
  <1>. QED
    BY <1>2, <1>3, OlderIrreflexive DEF TypeOK, RestOK, NoneOlder, Up

LEMMA SpendType ==
  ASSUME budget \in Bounds,
         NEW f \in {"splits", "merges", "hurry", "errors", "kills", "signals", "ticks"}, Spend(f)
  PROVE  budget' \in Bounds
  <1>. DEFINE v == budget[f] - 1
  <1>1. v \in Nat
    BY DEF Bounds, Spend
  <1>2. budget' = [budget EXCEPT ![f] = v]
    BY DEF Spend
  <1>. HIDE DEF v
  <1>. QED
    BY <1>1, <1>2, Zenon DEF Bounds

LEMMA DeliverForward ==
  ASSUME TypeOK, NEW n \in Node, Deliver(n)
  PROVE  TypeOK' /\ NoneOlder
  <1>. DEFINE r == node[n]
              new == [r EXCEPT !.inbox = Tail(@)]
              s == [State EXCEPT !.node[n] = new]
              m == Head(r.inbox)
              t == ProcessPeerRequest(s, n, m)
  <1>1. r \in Manager /\ r.inbox \in Seq(Message) /\ r.inbox # << >>
    BY DEF TypeOK, Manager, Deliver
  <1>2. m \in Message /\ Tail(r.inbox) \in Seq(Message)
    BY <1>1, HeadTailProperties
  <1>3. new \in Manager /\ new.cib = r.cib
    <2>. HIDE DEF r
    <2>. QED
      BY <1>1, <1>2, Zenon DEF Manager
  <1>4. Becomes(t) /\ UNCHANGED <<side, clock, budget>>
    BY DEF Deliver, State
  <1>5. State \in StateType /\ State.node = node
    BY StateHasType
  <1>. HIDE DEF new
  <1>6. Keeps(State, s)
    BY <1>3, <1>5, OneManager
  <1>. HIDE DEF s, m
  <1>7. Advances(s, t, n, m)
    BY <1>2, <1>6, PeerRequestAdvances DEF Keeps
  <1>. HIDE DEF t
  <1>8. Advances(State, t, n, m)
    BY <1>6, <1>7, KeepsAdvances
  <1>9. TypeOK'
    BY <1>4, <1>8 DEF TypeOK, Becomes, Advances, StateType
  <1>10. ASSUME NEW k \in Node PROVE ~Older(node'[k].cib, node[k].cib) \/ SetsBack(k)
    <2>1. node[k].cib \in CibType
      BY DEF TypeOK, Manager
    <2>2. \/ node'[k].cib = node[k].cib
          \/ k = n /\ (~Older(node'[k].cib, node[k].cib) \/ Lowers(m, node[k].cib))
      BY <1>4, <1>5, <1>8 DEF Advances, Becomes
    <2>3. k = n /\ Lowers(m, node[k].cib) => SetsBack(k)
      BY <1>1 DEF SetsBack, m
    <2>. QED
      BY <2>1, <2>2, <2>3, OlderIrreflexive
  <1>. QED
    BY <1>9, <1>10 DEF NoneOlder, Up

LEMMA DigestTimerForward ==
  ASSUME TypeOK, NEW n \in Node, DigestTimer(n)
  PROVE  TypeOK' /\ NoneOlder
  <1>. DEFINE seq == node[n].seq + 1
              r == [node[n] EXCEPT !.timer = FALSE, !.seq = @ + 1, !.digest = None, !.modified = FALSE]
              s == [State EXCEPT !.node[n] = r]
              msg == [Msg EXCEPT !.op = "ping", !.seq = r.seq]
              t == Send(s, n, Node, msg)
  <1>1. node[n] \in Manager /\ seq \in Nat
    BY DEF TypeOK, Manager
  <1>2. r \in Manager /\ r.cib = node[n].cib /\ r.seq \in Nat
    <2>1. r = [node[n] EXCEPT !.timer = FALSE, !.seq = seq, !.digest = None, !.modified = FALSE]
      OBVIOUS
    <2>. HIDE DEF seq, r
    <2>. QED
      BY <1>1, <2>1, Zenon DEF Manager
  <1>3. Becomes(t) /\ UNCHANGED <<side, clock>> /\ (UNCHANGED budget \/ Spend("hurry"))
    BY DEF DigestTimer
  <1>4. RestOK'
    BY <1>3, SpendType DEF TypeOK, RestOK
  <1>. HIDE DEF r
  <1>5. msg \in Message
    <2>1. msg \in Form({"ping"}, {<< >>}, CibType \cup {None})
      BY <1>2, MsgType, Zenon DEF Form
    <2>. QED
      BY <2>1, FormMessage
  <1>6. Keeps(State, s)
    BY <1>2, StateHasType, OneManager
  <1>. HIDE DEF s, msg
  <1>7. Keeps(s, t)
    BY <1>5, <1>6, SendKeeps DEF Keeps
  <1>. HIDE DEF t
  <1>. QED
    BY <1>3, <1>4, <1>6, <1>7, KeepsTransitive, BecomesKeeps

LEMMA WriterForward ==
  ASSUME TypeOK, NEW n \in Node,
         \/ WriteCibAsync(n) \/ WriterStep(n) \/ WriteCibCb(n)
         \/ WriterFails(n) \/ WriterKilled(n) \/ EnableWrites(n)
  PROVE  TypeOK' /\ NoneOlder
  <1>. DEFINE r == node[n]
              w == r.writer
  <1>1. /\ r \in Manager /\ r.cib \in CibType /\ r.disk \in Disk
        /\ w \in Writer \cup {None}
        /\ calls \in Seq(ClientCall) /\ clock \in Nat /\ side \in [Node -> {1, 2}]
        /\ budget \in Bounds
    BY DEF TypeOK, Manager
  <1>2. CASE WriteCibAsync(n)
    <2>. DEFINE c == Child(r.cib)
                new == [r EXCEPT !.trigger = FALSE, !.writer = c]
    <2>1. OnlyNode(n, new) /\ UNCHANGED <<calls, side, clock, budget>>
      BY <1>2 DEF WriteCibAsync
    <2>2. c \in Writer
      BY <1>1, ChildType
    <2>. HIDE DEF c, r
    <2>3. new \in Manager /\ new.cib = r.cib
      BY <1>1, <2>2, Zenon DEF Manager
    <2>. HIDE DEF new
    <2>. QED
      BY <1>1, <2>1, <2>3, OnlyNodeKeeps DEF RestOK, r
  <1>3. CASE WriterStep(n)
    <2>. DEFINE o == Write(r.disk, w, clock)
                new == [r EXCEPT !.disk = o.disk, !.writer = o.child]
    <2>1. OnlyNode(n, new) /\ UNCHANGED <<calls, side, clock, budget>>
      BY <1>3 DEF WriterStep
    <2>2. o.disk \in Disk /\ o.child \in Writer
      BY <1>1, <1>3, WriteType DEF WriterStep, Writing
    <2>. HIDE DEF o, r
    <2>3. new \in Manager /\ new.cib = r.cib
      BY <1>1, <2>2, Zenon DEF Manager
    <2>. HIDE DEF new
    <2>. QED
      BY <1>1, <2>1, <2>3, OnlyNodeKeeps DEF RestOK, r
  <1>4. CASE WriteCibCb(n)
    <2>. DEFINE idle == [r EXCEPT !.writer = None]
                good == [idle EXCEPT !.saved = w.snap,
                          !.unsaved = @ /\ (w.snap.config # idle.cib.config \/ ~idle.enabled)]
                bad == [idle EXCEPT !.enabled = FALSE, !.unsaved = TRUE]
                new == IF w.rc = 0 THEN good ELSE bad
    <2>1. OnlyNode(n, new) /\ UNCHANGED <<calls, side, clock, budget>>
      BY <1>4 DEF WriteCibCb
    <2>2. w.snap \in CibType
      BY <1>1, <1>4 DEF WriteCibCb, Writing, Writer
    <2>. HIDE DEF w, r
    <2>3. idle \in Manager /\ idle.cib = r.cib
      BY <1>1, Zenon DEF Manager
    <2>. HIDE DEF idle
    <2>4. good \in Manager /\ good.cib = r.cib
      BY <2>2, <2>3, Zenon DEF Manager
    <2>5. bad \in Manager /\ bad.cib = r.cib
      BY <2>3, Zenon DEF Manager
    <2>. HIDE DEF good, bad
    <2>6. new \in Manager /\ new.cib = r.cib
      BY <2>4, <2>5
    <2>. HIDE DEF new
    <2>. QED
      BY <1>1, <2>1, <2>6, OnlyNodeKeeps DEF RestOK, r
  <1>5. CASE WriterFails(n)
    <2>1. PICK v \in WriteFails(w) : OnlyNode(n, [r EXCEPT !.writer = v])
      BY <1>5 DEF WriterFails
    <2>. DEFINE new == [r EXCEPT !.writer = v]
    <2>2. v \in Writer
      BY <1>1, <1>5, WriteFailsType DEF WriterFails, Writing
    <2>3. Spend("errors") /\ UNCHANGED <<calls, side, clock>>
      BY <1>5 DEF WriterFails
    <2>4. RestOK'
      BY <1>1, <2>3, SpendType DEF RestOK
    <2>. HIDE DEF r
    <2>5. new \in Manager /\ new.cib = r.cib
      BY <1>1, <2>2, Zenon DEF Manager
    <2>. HIDE DEF new
    <2>6. OnlyNode(n, new)
      BY <2>1 DEF new
    <2>. QED
      BY <1>1, <2>3, <2>4, <2>5, <2>6, OnlyNodeKeeps DEF r
  <1>6. CASE WriterKilled(n)
    <2>. DEFINE new == [r EXCEPT !.writer = None, !.unsaved = TRUE]
    <2>1. OnlyNode(n, new) /\ Spend("kills") /\ UNCHANGED <<calls, side, clock>>
      BY <1>6 DEF WriterKilled
    <2>2. RestOK'
      BY <1>1, <2>1, SpendType DEF RestOK
    <2>. HIDE DEF r
    <2>3. new \in Manager /\ new.cib = r.cib
      BY <1>1, Zenon DEF Manager
    <2>. HIDE DEF new
    <2>. QED
      BY <1>1, <2>1, <2>2, <2>3, OnlyNodeKeeps DEF r
  <1>7. CASE EnableWrites(n)
    <2>. DEFINE new == [r EXCEPT !.enabled = TRUE]
    <2>1. OnlyNode(n, new) /\ Spend("signals") /\ UNCHANGED <<calls, side, clock>>
      BY <1>7 DEF EnableWrites
    <2>2. RestOK'
      BY <1>1, <2>1, SpendType DEF RestOK
    <2>. HIDE DEF r
    <2>3. new \in Manager /\ new.cib = r.cib
      BY <1>1, Zenon DEF Manager
    <2>. HIDE DEF new
    <2>. QED
      BY <1>1, <2>1, <2>2, <2>3, OnlyNodeKeeps DEF r
  <1>. QED
    BY <1>2, <1>3, <1>4, <1>5, <1>6, <1>7

(* Requests of clients *)
LEMMA CallFieldType ==
  ASSUME NEW m \in Message, NEW id \in Nat
  PROVE  [m EXCEPT !.call = id] \in Message
  <1>1. ASSUME NEW ops, NEW data, NEW cibs, m \in Form(ops, data, cibs)
        PROVE  [m EXCEPT !.call = id] \in Form(ops, data, cibs)
    BY <1>1, Zenon DEF Form
  <1>. QED
    BY <1>1, Zenon DEF Message

LEMMA AskKeeps ==
  ASSUME TypeOK, NEW n \in Node, NEW id \in NewIds, NEW c \in ClientCall, NEW m \in Message
  PROVE  Keeps(State, Ask(n, id, c, m))
  <1>. DEFINE cs == IF id \in DOMAIN calls THEN [calls EXCEPT ![id] = c] ELSE Append(calls, c)
              s == [State EXCEPT !.calls = cs]
              msg == [m EXCEPT !.call = id]
  <1>1. calls \in Seq(ClientCall) /\ id \in Nat
    BY DEF TypeOK, NewIds
  <1>2. cs \in Seq(ClientCall)
    BY <1>1, ExceptSeq
  <1>3. State \in StateType /\ State.calls = calls
    BY StateHasType
  <1>4. Ask(n, id, c, m) = ProcessClientRequest(s, n, msg)
    BY <1>3 DEF Ask
  <1>. HIDE DEF cs
  <1>5. s \in StateType /\ s.node = State.node
    BY <1>2, <1>3, Zenon DEF StateType
  <1>6. Keeps(State, s)
    BY <1>5 DEF Keeps
  <1>7. msg \in Message
    BY <1>1, CallFieldType
  <1>. HIDE DEF s, msg
  <1>8. Keeps(s, ProcessClientRequest(s, n, msg))
    BY <1>6, <1>7, ClientRequestKeeps DEF Keeps
  <1>. QED
    BY <1>4, <1>6, <1>8, KeepsTransitive

LEMMA RequestType ==
  ASSUME TypeOK, NEW n \in Node, NEW kind \in Kinds
  PROVE  RequestOf(n, kind) \in Message
  <1>. DEFINE v == Len(budget.ops)
              m == [Msg EXCEPT !.op = "modify"]
              req == RequestOf(n, kind)
              Modify == [config : Nat] \cup [status : Nat] \cup [admin : Nat]
                          \cup [admin : Nat, config : Nat]
  <1>1. v \in Nat /\ 0 \in Nat /\ 1 \in Nat
    BY DEF TypeOK, Bounds
  <1>2. m \in Form({"modify"}, {<< >>}, {None})
    BY MsgType, Zenon DEF Form
  <1>3. /\ Form({"modify"}, Modify, {None}) \subseteq Message
        /\ Form({"create"}, [status : Nat], {None}) \subseteq Message
        /\ Form({"commit"}, [config : Nat] \X ([status : Nat] \cup {<< >>}), {None}) \subseteq Message
    BY Zenon DEF Message
  <1>4. CASE kind \in {"config", "status", "obsolete", "revert"}
    <2>1. PICK d \in Modify : req = [m EXCEPT !.data = d]
      <3>1. /\ [config |-> v] \in Modify /\ [status |-> v] \in Modify
            /\ [admin |-> 1] \in Modify /\ [admin |-> 0, config |-> v] \in Modify
        BY <1>1
      <3>. QED
        BY <1>4, <3>1 DEF RequestOf
    <2>. HIDE DEF m, Modify
    <2>2. req \in Form({"modify"}, Modify, {None})
      BY <1>2, <2>1, Zenon DEF Form
    <2>. QED
      BY <1>3, <2>2
  <1>5. CASE kind = "create"
    <2>. DEFINE d == [status |-> v]
    <2>1. req = [m EXCEPT !.op = "create", !.data = d]
      BY <1>5 DEF RequestOf
    <2>2. d \in [status : Nat]
      BY <1>1
    <2>. HIDE DEF m, d
    <2>3. req \in Form({"create"}, [status : Nat], {None})
      BY <1>2, <2>1, <2>2, Zenon DEF Form
    <2>. QED
      BY <1>3, <2>3
  <1>6. CASE kind \in {"commit", "bad commit"}
    <2>1. PICK d \in [config : Nat] \X ([status : Nat] \cup {<< >>}) :
            req = [m EXCEPT !.op = "commit", !.data = d]
      BY <1>1, <1>6 DEF RequestOf
    <2>. HIDE DEF m
    <2>2. req \in Form({"commit"}, [config : Nat] \X ([status : Nat] \cup {<< >>}), {None})
      BY <1>2, <2>1, Zenon DEF Form
    <2>. QED
      BY <1>3, <2>2
  <1>7. CASE kind = "replace"
    <2>. DEFINE c == [node[n].cib EXCEPT !.config = v]
    <2>1. req = [m EXCEPT !.op = "replace", !.cib = c]
      BY <1>7 DEF RequestOf
    <2>2. c \in CibType
      <3>1. node[n].cib \in CibType
        BY DEF TypeOK, Manager
      <3>. HIDE DEF v
      <3>. QED
        BY <1>1, <3>1, Zenon DEF CibType
    <2>. HIDE DEF m, c
    <2>3. req \in Form({"replace"}, {<< >>}, CibType)
      BY <1>2, <2>1, <2>2, Zenon DEF Form
    <2>. QED
      BY <2>3, FormMessage
  <1>8. CASE kind \in {"bump", "erase", "upgrade"}
    <2>1. req = [m EXCEPT !.op = kind]
      BY <1>8 DEF RequestOf
    <2>. HIDE DEF m
    <2>2. req \in Form({"bump", "erase", "upgrade", "sync"}, {<< >>}, {None})
      BY <1>2, <1>8, <2>1, Zenon DEF Form
    <2>. QED
      BY <2>2, FormMessage
  <1>. QED
    BY <1>4, <1>5, <1>6, <1>7, <1>8 DEF Kinds

LEMMA CallType ==
  ASSUME NEW n \in Node, NEW op \in Kinds \cup {"sync"}, NEW seen \in CibType, NEW calm \in BOOLEAN
  PROVE  Call(n, op, seen, calm) \in ClientCall
  <1>1. "wait" \in Results
    BY DEF Results
  <1>. QED
    BY <1>1, Zenon DEF Call, ClientCall

LEMMA RequestForward ==
  ASSUME TypeOK, NEW n \in Node, Request(n)
  PROVE  TypeOK' /\ NoneOlder
  <1>. DEFINE kind == Head(budget.ops)
              calm == kind = "upgrade" => \E d \in Part(n) : node[d].dc
              c == Call(n, kind, EmptyCib, calm)
              m == RequestOf(n, kind)
  <1>1. budget \in Bounds /\ budget.ops \in Seq(Kinds) /\ budget.ops # << >>
    BY DEF TypeOK, Bounds, Request
  <1>2. kind \in Kinds /\ Tail(budget.ops) \in Seq(Kinds)
    BY <1>1, HeadTailProperties
  <1>3. PICK id \in NewIds : Becomes(Ask(n, id, c, m))
    BY DEF Request
  <1>4. budget' \in Bounds
    BY <1>1, <1>2, Zenon DEF Request, Bounds
  <1>5. RestOK'
    BY <1>4 DEF Request, RestOK, TypeOK
  <1>6. m \in Message
    BY <1>2, RequestType
  <1>7. c \in ClientCall
    <2>1. EmptyCib \in CibType
      BY DEF EmptyCib, CibType
    <2>2. calm \in BOOLEAN
      OBVIOUS
    <2>. HIDE DEF kind, calm
    <2>. QED
      BY <1>2, <2>1, <2>2, CallType
  <1>. HIDE DEF c, m
  <1>8. Keeps(State, Ask(n, id, c, m))
    BY <1>6, <1>7, AskKeeps
  <1>. QED
    BY <1>3, <1>5, <1>8, BecomesKeeps

(* Calls that a change of the membership affects *)
LEMMA DisturbedType ==
  ASSUME NEW cs \in Seq(ClientCall)
  PROVE  Disturbed(cs) \in Seq(ClientCall) /\ DOMAIN Disturbed(cs) = DOMAIN cs
  <1>. DEFINE new(c) == [c EXCEPT !.calm = @ /\ c.rc # "wait"]
  <1>1. ASSUME NEW c \in ClientCall PROVE new(c) \in ClientCall
    BY Zenon DEF ClientCall
  <1>2. Disturbed(cs) = [i \in DOMAIN cs |-> new(cs[i])]
    BY DEF Disturbed
  <1>. HIDE DEF new
  <1>. QED
    BY <1>1, <1>2

(* A manager is told to join, or that the join is over. *)
LEMMA JoinFieldType ==
  ASSUME NEW r \in Manager, NEW b \in BOOLEAN
  PROVE  [r EXCEPT !.join = b] \in Manager /\ [r EXCEPT !.join = b].cib = r.cib
  BY Zenon DEF Manager

(* Managers are told to join, and calls are disturbed. *)
LEMMA DisturbedKeeps ==
  ASSUME TypeOK, NEW s, s.node \in [Node -> Manager], s.calls = Disturbed(calls),
         s = [node |-> s.node, calls |-> s.calls],
         \A k \in Node : s.node[k].cib = node[k].cib
  PROVE  Keeps(State, s)
  <1>1. s.calls \in Seq(ClientCall)
    BY DisturbedType DEF TypeOK
  <1>2. s \in StateType
    BY <1>1, Zenon DEF StateType
  <1>. QED
    BY <1>2, StateHasType DEF Keeps

LEMMA TakeOverForward ==
  ASSUME TypeOK, NEW n \in Node, TakeOver(n)
  PROVE  TypeOK' /\ NoneOlder
  <1>. DEFINE m == [Msg EXCEPT !.op = "primary"]
              r == [node[n] EXCEPT !.join = TRUE]
              ns == [node EXCEPT ![n] = r]
              cs == Disturbed(calls)
              s == [node |-> ns, calls |-> cs]
              t == ProcessPrimary(s, n, m)
  <1>1. node \in [Node -> Manager] /\ node[n] \in Manager
    BY DEF TypeOK
  <1>2. r \in Manager /\ r.cib = node[n].cib
    BY <1>1, JoinFieldType, Zenon
  <1>3. Becomes(t) /\ UNCHANGED <<side, clock, budget>>
    <2>1. Becomes(ProcessClientRequest(s, n, m)) /\ UNCHANGED <<side, clock, budget>>
      BY DEF TakeOver
    <2>2. m.op = "primary"
      BY DEF Msg
    <2>. HIDE DEF s, m
    <2>. QED
      BY <2>1, <2>2 DEF ProcessClientRequest
  <1>. HIDE DEF r
  <1>4. ns \in [Node -> Manager] /\ \A k \in Node : ns[k].cib = node[k].cib
    BY <1>1, <1>2
  <1>. HIDE DEF ns
  <1>5. Keeps(State, s)
    <2>1. s.node = ns /\ s.calls = Disturbed(calls) /\ s = [node |-> s.node, calls |-> s.calls]
      OBVIOUS
    <2>. HIDE DEF s
    <2>. QED
      BY <1>4, <2>1, DisturbedKeeps
  <1>. HIDE DEF s
  <1>6. Advances(s, t, n, m)
    BY <1>5, PrimaryAdvances DEF Keeps
  <1>7. m.op # "modify"
    BY DEF Msg
  <1>. HIDE DEF m, t
  <1>8. Advances(State, t, n, m)
    BY <1>5, <1>6, KeepsAdvances
  <1>9. TypeOK'
    BY <1>3, <1>8 DEF TypeOK, Becomes, Advances, StateType
  <1>10. ASSUME NEW k \in Node PROVE ~Older(node'[k].cib, node[k].cib)
    <2>1. node[k].cib \in CibType
      BY DEF TypeOK, Manager
    <2>2. node'[k].cib = node[k].cib \/ ~Older(node'[k].cib, node[k].cib)
      BY <1>3, <1>7, <1>8, StateHasType DEF Advances, Becomes, Lowers
    <2>. QED
      BY <2>1, <2>2, OlderIrreflexive
  <1>. QED
    BY <1>9, <1>10 DEF NoneOlder, Up

LEMMA StepDownForward ==
  ASSUME TypeOK, NEW n \in Node, StepDown(n)
  PROVE  TypeOK' /\ NoneOlder
  <1>. DEFINE m == [Msg EXCEPT !.op = "secondary"]
              joins(k) == [node[k] EXCEPT !.join = k # n /\ (@ \/ k \in Dcs(n))]
              ns == [k \in Node |-> joins(k)]
              cs == Disturbed(calls)
              s == [node |-> ns, calls |-> cs]
              t == ProcessSecondary(s, n)
  <1>1. \A k \in Node : node[k] \in Manager
    BY DEF TypeOK
  <1>2. ASSUME NEW k \in Node PROVE joins(k) \in Manager /\ joins(k).cib = node[k].cib
    <2>1. node[k] \in Manager
      BY <1>1
    <2>. QED
      BY <2>1, Zenon DEF Manager
  <1>3. Becomes(t) /\ UNCHANGED <<side, clock, budget>>
    <2>2. Becomes(ProcessClientRequest(s, n, m)) /\ UNCHANGED <<side, clock, budget>>
      BY DEF StepDown
    <2>3. m.op = "secondary"
      BY DEF Msg
    <2>. HIDE DEF s, m
    <2>. QED
      BY <2>2, <2>3 DEF ProcessClientRequest
  <1>. HIDE DEF joins
  <1>4. ns \in [Node -> Manager] /\ \A k \in Node : ns[k].cib = node[k].cib
    BY <1>2
  <1>. HIDE DEF ns
  <1>6. Keeps(State, s)
    <2>1. s.node = ns /\ s.calls = Disturbed(calls) /\ s = [node |-> s.node, calls |-> s.calls]
      OBVIOUS
    <2>. HIDE DEF s
    <2>. QED
      BY <1>4, <2>1, DisturbedKeeps
  <1>. HIDE DEF s
  <1>7. Keeps(s, t)
    BY <1>6, SecondaryKeeps DEF Keeps
  <1>8. RestOK'
    BY <1>3 DEF RestOK, TypeOK
  <1>. HIDE DEF t
  <1>. QED
    BY <1>3, <1>6, <1>7, <1>8, KeepsTransitive, BecomesKeeps

LEMMA JoinSyncForward ==
  ASSUME TypeOK, NEW n \in Node, JoinSync(n)
  PROVE  TypeOK' /\ NoneOlder
  <1>. DEFINE best == {m \in Part(n) : \A k \in Part(n) : ~Older(node[m].cib, node[k].cib)}
              c(m) == Call(n, "sync", node[m].cib, TRUE)
              msg(m) == [Msg EXCEPT !.op = "sync", !.host = m]
  <1>1. PICK m \in IF n \in best THEN {n} ELSE best : \E id \in NewIds :
          Becomes([Ask(n, id, c(m), msg(m)) EXCEPT !.node[n].join = FALSE])
    BY DEF JoinSync
  <1>2. PICK id \in NewIds :
          Becomes([Ask(n, id, c(m), msg(m)) EXCEPT !.node[n].join = FALSE])
    BY <1>1
  <1>. DEFINE s == Ask(n, id, c(m), msg(m))
              r == [s.node[n] EXCEPT !.join = FALSE]
              t == [s EXCEPT !.node[n] = r]
  <1>3. m \in Node
    BY <1>1 DEF Part, Up
  <1>4. c(m) \in ClientCall
    <2>1. node[m].cib \in CibType
      BY <1>3 DEF TypeOK, Manager
    <2>. QED
      BY <2>1, CallType
  <1>5. msg(m) \in Message
    <2>1. msg(m) \in Form({"bump", "erase", "upgrade", "sync"}, {<< >>}, {None})
      BY <1>3, MsgType, Zenon DEF Form
    <2>. QED
      BY <2>1, FormMessage
  <1>6. UNCHANGED <<side, clock, budget>> /\ Becomes(t)
    BY <1>2 DEF JoinSync
  <1>. HIDE DEF c, msg
  <1>7. Keeps(State, s)
    BY <1>4, <1>5, AskKeeps
  <1>. HIDE DEF s
  <1>8. r \in Manager /\ r.cib = s.node[n].cib
    <2>1. s.node[n] \in Manager
      BY <1>7 DEF Keeps, StateType
    <2>. QED
      BY <2>1, JoinFieldType, Zenon
  <1>. HIDE DEF r
  <1>9. Keeps(s, t)
    BY <1>7, <1>8, OneManager DEF Keeps
  <1>10. RestOK'
    BY <1>6 DEF RestOK, TypeOK
  <1>. HIDE DEF t
  <1>. QED
    BY <1>6, <1>7, <1>9, <1>10, KeepsTransitive, BecomesKeeps

LEMMA TimeoutForward ==
  ASSUME TypeOK, NEW id \in DOMAIN calls, Timeout(id)
  PROVE  TypeOK' /\ NoneOlder
  <1>. DEFINE n == calls[id].node
              b == node[n].join \/ (calls[id].op = "sync" /\ node[n].dc)
              r == [node[n] EXCEPT !.join = b]
              e == Ended(calls[id], "timeout")
  <1>1. calls \in Seq(ClientCall) /\ id \in 1..Len(calls) /\ calls[id] \in ClientCall
    BY DEF TypeOK
  <1>2. n \in Node /\ node[n] \in Manager
    BY <1>1 DEF ClientCall, TypeOK
  <1>3. b \in BOOLEAN
    BY <1>2 DEF Manager
  <1>4. e \in ClientCall
    <2>1. "timeout" \in Results
      BY DEF Results
    <2>. QED
      BY <1>1, <2>1, EndedType
  <1>5. OnlyNode(n, r) /\ calls' = [calls EXCEPT ![id] = e] /\ UNCHANGED <<side, clock, budget>>
    BY DEF Timeout
  <1>. HIDE DEF b, e
  <1>6. calls' \in Seq(ClientCall)
    BY <1>1, <1>4, <1>5, ExceptSeq
  <1>7. r \in Manager /\ r.cib = node[n].cib
    BY <1>2, <1>3, JoinFieldType, Zenon
  <1>8. RestOK'
    BY <1>5 DEF RestOK, TypeOK
  <1>. HIDE DEF r, n
  <1>. QED
    BY <1>2, <1>5, <1>6, <1>7, <1>8, OnlyNodeKeeps

(* A membership with new nodes *)
LEMMA JoinsType ==
  ASSUME TypeOK, NEW nodes
  PROVE  /\ Joins(nodes) \in [Node -> Manager]
         /\ \A k \in Node : Joins(nodes)[k].cib = node[k].cib /\ Joins(nodes)[k].up = node[k].up
  <1>. DEFINE new(k) == [node[k] EXCEPT !.join = @ \/ (k \in nodes /\ node[k].dc)]
  <1>1. ASSUME NEW k \in Node
        PROVE  new(k) \in Manager /\ new(k).cib = node[k].cib /\ new(k).up = node[k].up
    <2>1. node[k] \in Manager
      BY DEF TypeOK
    <2>. QED
      BY <2>1, Zenon DEF Manager
  <1>2. Joins(nodes) = [k \in Node |-> new(k)]
    BY DEF Joins
  <1>. HIDE DEF new
  <1>. QED
    BY <1>1, <1>2

LEMMA CrashForward ==
  ASSUME TypeOK, NEW n \in Node, Crash(n)
  PROVE  TypeOK' /\ NoneOlder
  <1>. DEFINE r == [node[n] EXCEPT !.up = FALSE, !.writer = None, !.dc = FALSE]
              d == Disturbed(calls)
              new(i) == IF calls[i].node = n /\ calls[i].rc = "wait" THEN Ended(calls[i], "gone") ELSE d[i]
  <1>1. node \in [Node -> Manager] /\ node[n] \in Manager /\ calls \in Seq(ClientCall) /\ budget \in Bounds
    BY DEF TypeOK
  <1>2. r \in Manager /\ r.up = FALSE
    BY <1>1, Zenon DEF Manager
  <1>3. /\ node' = [node EXCEPT ![n] = r] /\ calls' = [i \in DOMAIN calls |-> new(i)]
        /\ budget' = [budget EXCEPT !.crashes = @ \ {n}] /\ UNCHANGED <<side, clock>>
    BY DEF Crash
  <1>. HIDE DEF r
  <1>4. node' \in [Node -> Manager] /\ ~node'[n].up /\ \A k \in Node \ {n} : node'[k] = node[k]
    BY <1>1, <1>2, <1>3
  <1>5. ASSUME NEW i \in DOMAIN calls PROVE new(i) \in ClientCall
    <2>1. "gone" \in Results
      BY DEF Results
    <2>2. calls[i] \in ClientCall
      BY <1>1
    <2>3. d[i] \in ClientCall
      BY <1>1, DisturbedType
    <2>. HIDE DEF d
    <2>. QED
      BY <2>1, <2>2, <2>3, EndedType
  <1>. HIDE DEF new
  <1>6. calls' \in Seq(ClientCall)
    BY <1>1, <1>3, <1>5
  <1>7. budget' \in Bounds
    <2>1. budget.crashes \ {n} \in SUBSET Node
      BY <1>1 DEF Bounds
    <2>. QED
      BY <1>1, <1>3, <2>1, Zenon DEF Bounds
  <1>8. TypeOK'
    BY <1>3, <1>4, <1>6, <1>7 DEF TypeOK
  <1>9. \A k \in Node : node[k].cib \in CibType
    BY <1>1 DEF Manager
  <1>10. NoneOlder
    BY <1>4, <1>9, OlderIrreflexive DEF NoneOlder, Up
  <1>. QED
    BY <1>8, <1>10

LEMMA FreshType ==
  ASSUME NEW c \in CibType, NEW d \in Disk
  PROVE  Fresh(c, d) \in Manager
  <1>1. << >> \in Seq(Message)
    OBVIOUS
  <1>2. 0 \in Nat
    OBVIOUS
  <1>. QED
    BY <1>1, <1>2, Zenon DEF Fresh, Manager

LEMMA StartForward ==
  ASSUME TypeOK, NEW n \in Node, Start(n)
  PROVE  TypeOK' /\ NoneOlder
  <1>. DEFINE d == node[n].disk
              ns == Joins(Part(n))
  <1>1. PICK c \in ReadCib(d) : node' = [ns EXCEPT ![n] = Fresh(c, Archive(d))]
    BY DEF Start
  <1>. DEFINE r == Fresh(c, Archive(d))
  <1>2. d \in Disk
    BY DEF TypeOK, Manager
  <1>3. r \in Manager
    BY <1>1, <1>2, ReadCibType, ArchiveType, FreshType
  <1>4. ns \in [Node -> Manager] /\ \A k \in Node : ns[k].cib = node[k].cib
    BY JoinsType
  <1>5. node' = [ns EXCEPT ![n] = r]
    BY <1>1
  <1>. HIDE DEF r, ns
  <1>6. node' \in [Node -> Manager] /\ \A k \in Node \ {n} : node'[k].cib = node[k].cib
    BY <1>3, <1>4, <1>5
  <1>7. calls' \in Seq(ClientCall)
    BY DisturbedType DEF TypeOK, Start
  <1>8. budget' \in Bounds
    <2>1. budget \in Bounds /\ budget.starts \ {n} \in SUBSET Node
      BY DEF TypeOK, Bounds
    <2>. QED
      BY <2>1, Zenon DEF Bounds, Start
  <1>9. TypeOK'
    BY <1>6, <1>7, <1>8 DEF TypeOK, Start
  <1>10. \A k \in Node : node[k].cib \in CibType
    BY DEF TypeOK, Manager
  <1>11. NoneOlder
    BY <1>6, <1>10, OlderIrreflexive DEF NoneOlder, Up, Start
  <1>. QED
    BY <1>9, <1>11

LEMMA SplitForward ==
  ASSUME TypeOK, Split
  PROVE  TypeOK' /\ NoneOlder
  <1>1. PICK n \in Up : \E k \in 0..Len(node[n].inbox) :
          LET kept == {i \in DOMAIN node[n].inbox :
                         i <= k \/ side'[node[n].inbox[i].src] = side'[n]}
          IN  \E f \in [1..Cardinality(kept) -> kept] :
                OnlyNode(n, [node[n] EXCEPT !.inbox = [i \in DOMAIN f |-> @[f[i]]]])
    BY DEF Split
  <1>2. PICK k \in 0..Len(node[n].inbox) :
          LET kept == {i \in DOMAIN node[n].inbox :
                         i <= k \/ side'[node[n].inbox[i].src] = side'[n]}
          IN  \E f \in [1..Cardinality(kept) -> kept] :
                OnlyNode(n, [node[n] EXCEPT !.inbox = [i \in DOMAIN f |-> @[f[i]]]])
    BY <1>1
  <1>. DEFINE box == node[n].inbox
              kept == {i \in DOMAIN box : i <= k \/ side'[box[i].src] = side'[n]}
  <1>3. PICK f \in [1..Cardinality(kept) -> kept] :
          OnlyNode(n, [node[n] EXCEPT !.inbox = [i \in DOMAIN f |-> box[f[i]]]])
    BY <1>2
  <1>. DEFINE new == [i \in DOMAIN f |-> box[f[i]]]
              r == [node[n] EXCEPT !.inbox = new]
  <1>4. n \in Node /\ node[n] \in Manager /\ box \in Seq(Message)
    BY <1>1 DEF Up, TypeOK, Manager
  <1>5. Cardinality(kept) \in Nat /\ kept \subseteq DOMAIN box
    <2>1. IsFiniteSet(1..Len(box))
      BY <1>4, FS_Interval
    <2>2. kept \subseteq 1..Len(box)
      BY <1>4
    <2>3. kept \in SUBSET DOMAIN box
      OBVIOUS
    <2>. HIDE DEF kept, box
    <2>4. IsFiniteSet(kept)
      BY <2>1, <2>2, FS_Subset, Zenon
    <2>5. Cardinality(kept) \in Nat
      BY <2>4, FS_CardinalityType, Zenon
    <2>. QED
      BY <2>3, <2>5
  <1>. HIDE DEF kept, box
  <1>6. new \in Seq(Message)
    BY <1>3, <1>4, <1>5
  <1>7. OnlyNode(n, r)
    BY <1>3 DEF box
  <1>. HIDE DEF new
  <1>8. r \in Manager /\ r.cib = node[n].cib
    BY <1>4, <1>6, Zenon DEF Manager
  <1>. HIDE DEF r
  <1>9. calls' \in Seq(ClientCall)
    BY DisturbedType DEF Split, TypeOK
  <1>10. RestOK'
    <2>1. budget' \in Bounds
      BY SpendType DEF Split, TypeOK
    <2>. QED
      BY <2>1 DEF Split, TypeOK, RestOK
  <1>. QED
    BY <1>4, <1>7, <1>8, <1>9, <1>10, OnlyNodeKeeps

LEMMA MergeForward ==
  ASSUME TypeOK, Merge
  PROVE  TypeOK' /\ NoneOlder
  <1>. DEFINE ns == Joins(Up)
  <1>1. node' = ns /\ calls' = Disturbed(calls) /\ Spend("merges") /\ UNCHANGED clock
        /\ side' = [n \in Node |-> 1]
    BY DEF Merge
  <1>2. ns \in [Node -> Manager] /\ \A k \in Node : ns[k].cib = node[k].cib
    BY JoinsType
  <1>3. budget' \in Bounds
    BY <1>1, SpendType DEF TypeOK
  <1>4. calls' \in Seq(ClientCall)
    BY <1>1, DisturbedType DEF TypeOK
  <1>5. TypeOK'
    BY <1>1, <1>2, <1>3, <1>4 DEF TypeOK
  <1>6. \A k \in Node : node[k].cib \in CibType
    BY DEF TypeOK, Manager
  <1>7. NoneOlder
    BY <1>1, <1>2, <1>6, OlderIrreflexive DEF NoneOlder, Up
  <1>. QED
    BY <1>5, <1>7

LEMMA TickForward ==
  ASSUME TypeOK, Tick
  PROVE  TypeOK' /\ NoneOlder
  <1>1. budget' \in Bounds
    BY SpendType DEF Tick, TypeOK
  <1>2. \A k \in Node : node[k].cib \in CibType
    BY DEF TypeOK, Manager
  <1>. QED
    BY <1>1, <1>2, OlderIrreflexive DEF Tick, TypeOK, NoneOlder, Up

LEMMA InitType ==
  ASSUME Init
  PROVE  TypeOK
  <1>1. budget \in Bounds
    BY ScenariosAssumption DEF Init
  <1>2. ASSUME NEW n \in Node PROVE Boot(budget, n) \in Manager
    <2>. DEFINE c == budget.cibs[n]
                saved == OnDisk(c)
                d == [NoDisk EXCEPT !.cib = saved, !.sig = saved]
                r == Fresh(c, d)
                up == n \in budget.booted
                dc == n \in budget.dcs
                w == budget.writes
    <2>1. c \in CibType /\ w \in BOOLEAN
      BY <1>1 DEF Bounds
    <2>2. saved \in CibType
      BY <2>1, OnDiskType
    <2>3. Boot(budget, n) = [r EXCEPT !.up = up, !.dc = dc, !.trigger = FALSE,
                                      !.enabled = w, !.unsaved = ~w, !.saved = saved]
      BY DEF Boot
    <2>. HIDE DEF saved, c
    <2>4. d \in Disk
      BY <2>2, NoDiskType, Zenon DEF Disk
    <2>. HIDE DEF d
    <2>5. r \in Manager
      BY <2>1, <2>4, FreshType
    <2>6. up \in BOOLEAN /\ dc \in BOOLEAN /\ (~w) \in BOOLEAN
      OBVIOUS
    <2>. HIDE DEF r, up, dc, w
    <2>. QED
      BY <2>1, <2>2, <2>3, <2>5, <2>6, Zenon DEF Manager
  <1>3. node \in [Node -> Manager]
    BY <1>2 DEF Init
  <1>4. calls \in Seq(ClientCall)
    BY DEF Init
  <1>. QED
    BY <1>1, <1>3, <1>4 DEF Init, TypeOK

(* No step changes a type, or makes a CIB older. *)
LEMMA NextForward ==
  ASSUME TypeOK, [Next]_vars
  PROVE  TypeOK' /\ [NoneOlder]_vars
  <1>1. CASE UNCHANGED vars
    BY <1>1 DEF vars, TypeOK
  <1>2. CASE Next
    <2>1. ASSUME NEW n \in Node, Daemon(n) PROVE TypeOK' /\ NoneOlder
      BY <2>1, DeliverForward, DigestTimerForward, WriterForward DEF Daemon
    <2>2. ASSUME NEW n \in Node, Environment(n) PROVE TypeOK' /\ NoneOlder
      BY <2>2, WriterForward, RequestForward, TakeOverForward, StepDownForward, JoinSyncForward,
         CrashForward, StartForward DEF Environment
    <2>. QED
      BY <1>2, <2>1, <2>2, TimeoutForward, SplitForward, MergeForward, TickForward DEF Next
  <1>. QED
    BY <1>1, <1>2

(* The managers, their messages, clients and files have the types they     *)
(* should have: no operation yields a CIB, and none of pcmk__cluster_send_ *)
(* message()'s callers a message, that a peer could not process.           *)
THEOREM TypeCorrect == Spec => []TypeOK
  <1>1. Init => TypeOK
    BY InitType
  <1>2. TypeOK /\ [Next]_vars => TypeOK'
    BY NextForward
  <1>. QED
    BY <1>1, <1>2, PTL DEF Spec

(* Whatever the nodes, the scenario, and the order of requests, messages,  *)
(* crashes, splits and merges: the CIB of a daemon that runs is only       *)
(* replaced by an older one when a client changes the configuration and    *)
(* lowers admin_epoch in one request (check_cib_versions, replace_cib).    *)
THEOREM CibsMoveForward == Spec => Forward
  <1>1. TypeOK /\ [Next]_vars => [NoneOlder]_vars
    BY NextForward
  <1>. QED
    BY <1>1, TypeCorrect, PTL DEF Spec, Forward
=============================================================================
