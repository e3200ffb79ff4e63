------------------------------ MODULE BearerLife ------------------------------
(***************************************************************************)
(* What the traffic manager and the controllers agree on about a dedicated    *)
(* bearer: it is requested when idle, carries traffic while active, and is    *)
(* released once, after its application has stopped and before it is          *)
(* requested again.  TrafficManager implements this contract and              *)
(* RingController, whose requests and releases it calls, relies on it.        *)
(***************************************************************************)
CONSTANT Bearer

VARIABLE st     \* [Bearer -> {"idle","active","stopped"}]

Init == st = [b \in Bearer |-> "idle"]

Become(b, from, to) == st[b] = from /\ st' = [st EXCEPT ![b] = to]

Request(b) == Become(b, "idle", "active")
Stop(b)    == Become(b, "active", "stopped")
Release(b) == Become(b, "stopped", "idle")

Next == \E b \in Bearer : Request(b) \/ Stop(b) \/ Release(b)

(* A bearer whose application has stopped is released. *)
Spec == Init /\ [][Next]_st /\ \A b \in Bearer : WF_st(Release(b))
==============================================================================
