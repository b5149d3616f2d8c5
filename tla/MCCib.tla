-------------------------------- MODULE MCCib --------------------------------
(***************************************************************************)
(* Small instances of Cib.  Unless a scenario says so, n1 is the DC of two *)
(* nodes, and writes are disabled, as after a failed one.                  *)
(***************************************************************************)
EXTENDS Cib

CONSTANTS n1, n2, n3

Duo == {n1, n2}
Trio == {n1, n2, n3}

Base == [EmptyCib EXCEPT !.epoch = 1]
Edited(v) == [Base EXCEPT !.epoch = 2, !.config = v]
Was(a, b) == [n \in Node |-> IF n = n1 THEN a ELSE b]

Calm ==
  [booted |-> Duo, dcs |-> {n1}, cibs |-> Was(Base, Base), writes |-> FALSE, ops |-> << >>,
   apart |-> {}, cut |-> {n2}, crashes |-> {}, starts |-> {}, splits |-> 0, merges |-> 0,
   hurry |-> 0, errors |-> 0, kills |-> 0, signals |-> 0, ticks |-> 0]

(* Any two requests of clients, on any node *)
MCOperations ==
  {[Calm EXCEPT !.hurry = 1, !.ops = << a, b >>] : a, b \in Kinds \ {"revert"}} \cup
  {[Calm EXCEPT !.hurry = 1, !.ops = << a, b >>,
                !.cibs = Was([Base EXCEPT !.schema = 1], [Base EXCEPT !.schema = 1])] :
     a, b \in {"config", "erase", "upgrade"}}

(* Partitions with the same or different CIBs meet, a node starts, or the  *)
(* nodes lose each other.                                                  *)
Apart == [Calm EXCEPT !.apart = {n2}, !.dcs = Duo, !.merges = 1]

MCMembership ==
  {[Apart EXCEPT !.cibs = Was(Edited(8), Edited(9)), !.ops = << "config" >>],
   [Apart EXCEPT !.cibs = Was(Base, Edited(9)), !.ops = << "config" >>],
   [Apart EXCEPT !.cibs = Was(Base, Edited(9)), !.ops = << "status", "config" >>],
   [Calm EXCEPT !.dcs = {}, !.cibs = Was(Base, Edited(9)), !.hurry = 1, !.ops = << "config" >>],
   [Calm EXCEPT !.splits = 1, !.ops = << "config", "upgrade" >>],
   [Calm EXCEPT !.splits = 1, !.merges = 1],
   [Calm EXCEPT !.crashes = {n1}, !.ops = << "config", "upgrade" >>],
   [Calm EXCEPT !.booted = {n1}, !.starts = {n2}, !.ops = << "config" >>]}

(* One node writes, with crashes, kills and failures. *)
Solo == [Calm EXCEPT !.booted = {n1}, !.writes = TRUE, !.ops = << "config", "config" >>]

MCDisk ==
  {[Solo EXCEPT !.crashes = {n1}, !.starts = {n1}, !.ticks = 1],
   [Solo EXCEPT !.crashes = {n1}, !.starts = {n1}, !.kills = 1],
   [Solo EXCEPT !.crashes = {n1}, !.starts = {n1}, !.errors = 1],
   [Solo EXCEPT !.kills = 1, !.signals = 1, !.ops = << "config", "config", "config" >>],
   [Solo EXCEPT !.ops = << "replace", "erase" >>, !.crashes = {n1}, !.starts = {n1}]}

(* Three nodes without a DC, two of which have the best CIB *)
MCTrio == {[Calm EXCEPT !.booted = Trio, !.dcs = {}, !.cibs = Was(Base, Edited(9)), !.ops = << "config" >>]}

(* The configuration is changed and admin_epoch set back. *)
MCRevert == {[Calm EXCEPT !.ops = << "obsolete", "revert", a >>] : a \in {"config", "status"}}

MCScenarios == MCOperations \cup MCMembership \cup MCDisk \cup MCTrio \cup MCRevert
=============================================================================
