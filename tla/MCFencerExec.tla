----------------------------- MODULE MCFencerExec -----------------------------
(***************************************************************************)
(* Instances of FencerExec for TLC: two devices and three requests.        *)
(***************************************************************************)
EXTENDS FencerExec

CONSTANTS d1, d2, r1, r2, r3

Plain == [check |-> "static", explicit |-> FALSE, can |-> TRUE, on |-> TRUE,
          unfence |-> FALSE, delay |-> FALSE, limit |-> 1]
Delayed == [Plain EXCEPT !.delay = TRUE, !.limit = 0]
Unlimited == [Plain EXCEPT !.limit = -1]
Listing == [Plain EXCEPT !.check = "list"]
Status == [Plain EXCEPT !.check = "status"]
Unfencing == [Plain EXCEPT !.unfence = TRUE]

Fence(client) == [kind |-> "fence", action |-> "reboot", device |-> NoDev, client |-> client]
FenceWith(d, client) == [Fence(client) EXCEPT !.device = d]
Unfence(client) == [Fence(client) EXCEPT !.action = "on"]
Ask == [Fence(3) EXCEPT !.kind = "query"]
Monitor(d) == [kind |-> "monitor", action |-> "monitor", device |-> d, client |-> 4]

(* d1 is registered by a client and the CIB, d2 by the CIB alone. *)
Case(q1, q2, q3, v1, v2, changes) ==
  [req |-> [r \in Req |-> IF r = r1 THEN q1 ELSE IF r = r2 THEN q2 ELSE q3],
   versions |-> [d \in Device |-> IF d = d1 THEN v1 ELSE v2],
   order |-> <<d1, d2>>, api |-> {d1}, cib |-> {d1, d2}, changes |-> changes]

MCConfigs ==
  {Case(Fence(1), Fence(2), Monitor(d1), <<Plain>>, <<Unlimited>>, 2),
   Case(Fence(1), FenceWith(d1, 2), Monitor(d1), <<Delayed>>, <<Plain>>, 1),
   Case(Fence(1), Fence(2), Ask, <<Listing>>, <<Plain, Unlimited>>, 1),
   Case(Unfence(1), Unfence(2), Ask, <<Unfencing>>, <<Unfencing, Plain>>, 2),
   Case(Fence(1), Ask, Monitor(d1), <<Listing>>, <<Status>>, 1)}
===============================================================================
