------------------------------ MODULE RingPaths ------------------------------
(***************************************************************************)
(* Routing over the OpenFlow backhaul ring.  RingNetwork::CreateTopology    *)
(* joins switch i to switch (i + 1) % N by one LinkInfo created in the      *)
(* clockwise order, so link i is the one that leaves switch i clockwise and *)
(* its FWD direction is the clockwise one.                                  *)
(*                                                                          *)
(* The code walks a path hop by hop with GetNextSwIdx.  PathLinks and       *)
(* PathSwitches are the sets such a walk visits; RingWalk models the loop   *)
(* itself and relates the two.                                              *)
(***************************************************************************)
EXTENDS Integers

CONSTANT N              \* Number of ring switches (m_numNodes).

ASSUME NAssumption == N \in Nat /\ N >= 3

Switch == 0 .. (N - 1)
Link   == Switch
Dir    == {"FWD", "BWD"}

Path     == {"CLOCK", "COUNT", "LOCAL"}
RingPath == {"CLOCK", "COUNT"}

(***************************************************************************)
(* Hops from switch a to switch b in the clockwise direction.               *)
(***************************************************************************)
ClockwiseDistance(a, b) == IF b - a < 0 THEN b - a + N ELSE b - a

(* Mutant: no wrap-around counterclockwise. *)
GetNextSwIdxStuck(sw, path) ==
    IF path = "CLOCK" THEN (IF sw = N - 1 THEN 0 ELSE sw + 1)
                      ELSE (IF sw = 0 THEN 0 ELSE sw - 1)

(***************************************************************************)
(* (srcIdx + 1) % N clockwise, one less and back to N - 1 otherwise.        *)
(***************************************************************************)
GetNextSwIdx(sw, path) ==
    IF path = "CLOCK" THEN (IF sw = N - 1 THEN 0 ELSE sw + 1)
                      ELSE (IF sw = 0 THEN N - 1 ELSE sw - 1)

(* Mutant: the counterclockwise hops are not the complement. *)
GetNumHopsOneWay(src, dst, path) ==
    IF path = "LOCAL" THEN 0 ELSE ClockwiseDistance(src, dst)

GetNumHops(src, dst, path) ==
    CASE path = "LOCAL" -> 0
      [] path = "CLOCK" -> ClockwiseDistance(src, dst)
      [] path = "COUNT" -> ClockwiseDistance(dst, src)

(* Mutant: the half of the ring is rounded up. *)
GetShortPathRoundedUp(src, dst) ==
    IF src = dst THEN "LOCAL"
    ELSE IF ClockwiseDistance(src, dst) <= (N + 2) \div 2 THEN "CLOCK" ELSE "COUNT"

GetShortPath(src, dst) ==
    IF src = dst THEN "LOCAL"
    ELSE IF ClockwiseDistance(src, dst) <= N \div 2 THEN "CLOCK" ELSE "COUNT"

InvertPath(path) ==
    CASE path = "CLOCK" -> "COUNT"
      [] path = "COUNT" -> "CLOCK"
      [] path = "LOCAL" -> "LOCAL"

(* Mutant: the link is looked up by the lower of the two switch indexes. *)
HopLinkByLower(sw, path) ==
    IF sw < GetNextSwIdx(sw, path) THEN sw ELSE GetNextSwIdx(sw, path)

(***************************************************************************)
(* The LinkInfo and the direction that GetLinkInfo returns for the hop from *)
(* sw to the next switch of path.                                           *)
(***************************************************************************)
HopLink(sw, path) == IF path = "CLOCK" THEN sw ELSE GetNextSwIdx(sw, path)
LinkDir(path)     == IF path = "CLOCK" THEN "FWD" ELSE "BWD"

PathLinks(src, dst, path) ==
    CASE path = "CLOCK" ->
           {l \in Link : ClockwiseDistance(src, l) < ClockwiseDistance(src, dst)}
      [] path = "COUNT" ->
           {l \in Link : ClockwiseDistance(dst, l) < ClockwiseDistance(dst, src)}
      [] path = "LOCAL" -> {}

PathSwitches(src, dst, path) ==
    CASE path = "CLOCK" ->
           {s \in Switch : ClockwiseDistance(src, s) <= ClockwiseDistance(src, dst)}
      [] path = "COUNT" ->
           {s \in Switch : ClockwiseDistance(dst, s) <= ClockwiseDistance(dst, src)}
      [] path = "LOCAL" -> {src}
==============================================================================
