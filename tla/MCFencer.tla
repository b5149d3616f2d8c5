------------------------------- MODULE MCFencer -------------------------------
(***************************************************************************)
(* Instances of Fencer for TLC: the fencers a and b and a target t, one or *)
(* two operations and three devices.                                       *)
(***************************************************************************)
EXTENDS Fencer

CONSTANTS a, b, t, o1, o2, d1, d2, d3

Base ==
  [target |-> t, levels |-> <<>>, has |-> [n \in Node |-> {}],
   verified |-> [n \in Node |-> {}], stayoff |-> {}, watchdog |-> FALSE,
   up |-> {a, b}, at |-> [o \in {o1} |-> a], manual |-> {},
   client |-> [o \in Op |-> IF o = o1 THEN 1 ELSE 2], deaths |-> 0, early |-> 0]

Has(da, db, dt) == [n \in Node |-> IF n = a THEN da ELSE IF n = b THEN db ELSE dt]

(* Both have the device, and a has monitored it. *)
Simple == [Base EXCEPT !.has = Has({d1}, {d1}, {}), !.verified = Has({d1}, {}, {})]

(* Only the target can fence itself. *)
Self == [Base EXCEPT !.up = {a, t}, !.has = Has({}, {}, {d1}), !.early = 1]

(* Two levels, the first with two devices that different nodes have. *)
TwoLevels ==
  [Base EXCEPT !.levels = <<<<d1, d2>>, <<d3>>>>, !.stayoff = {d2},
     !.has = Has({d1, d3}, {d1, d2}, {}), !.verified = Has({d3}, {d1, d2}, {})]

(* One level of two devices. *)
OneLevel ==
  [Base EXCEPT !.levels = <<<<d1, d2>>>>,
     !.has = Has({d1}, {d1, d2}, {}), !.verified = Has({}, {d1}, {})]

(* Clients of both fencers ask for the target. *)
BothAsk == [Simple EXCEPT !.at = [o \in {o1, o2} |-> IF o = o1 THEN a ELSE b]]

OneDevice == [BothAsk EXCEPT !.has = Has({}, {d1}, {}), !.verified = Has({}, {}, {})]

MCConfigs ==
  {[Simple EXCEPT !.deaths = 1, !.early = 1], [Simple EXCEPT !.watchdog = TRUE, !.early = 1],
   [Base EXCEPT !.watchdog = TRUE], Self, OneLevel, TwoLevels,
   [OneDevice EXCEPT !.deaths = 1], [BothAsk EXCEPT !.manual = {o2}, !.early = 1]}

MCSimple == {Simple}
===============================================================================
