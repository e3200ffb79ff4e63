------------------------------ MODULE RingWalk -------------------------------
(***************************************************************************)
(* The while loop by which RingController follows a routing path from srcIdx *)
(* to dstIdx: BitRateRequest, BitRateReserve, BitRateRelease and GetLinkSet  *)
(* visit the links of the path, SwitchCpuRequest, SwitchTableRequest and     *)
(* RulesRemove its switches, the last one after the loop.  The variables are *)
(* the loop's own; inserting a link twice is the NS_ABORT of GetLinkSet.     *)
(***************************************************************************)
EXTENDS RingPaths

VARIABLES src, dst, path,   \* the arguments
          curr,             \* the switch index the loop advances
          links,            \* links visited so far (GetLinkSet's result)
          switches,         \* switches visited so far
          hops,             \* iterations so far
          aborted           \* NS_ABORT: "Error saving link info."

vars == <<src, dst, path, curr, links, switches, hops, aborted>>

(***************************************************************************)
(* A path is LOCAL exactly when its ends are the same switch: it comes from  *)
(* GetShortPath and InvertPath leaves LOCAL alone.                           *)
(***************************************************************************)
Init ==
    /\ src \in Switch /\ dst \in Switch
    /\ path \in {p \in Path : (p = "LOCAL") <=> (src = dst)}
    /\ curr = src
    /\ links = {} /\ switches = {}
    /\ hops = 0
    /\ aborted = FALSE

Hop ==
    /\ curr # dst
    /\ ~aborted
    /\ links'    = links \cup {HopLink(curr, path)}
    /\ aborted'  = (HopLink(curr, path) \in links)
    /\ switches' = switches \cup {curr}
    /\ curr'     = GetNextSwIdx(curr, path)
    /\ hops'     = hops + 1
    /\ UNCHANGED <<src, dst, path>>

Last ==
    /\ curr = dst
    /\ curr \notin switches
    /\ switches' = switches \cup {curr}
    /\ UNCHANGED <<src, dst, path, curr, links, hops, aborted>>

Next == Hop \/ Last

(***************************************************************************)
(* The loop is sequential code: it keeps running while its guard holds.      *)
(***************************************************************************)
Spec == Init /\ [][Next]_vars /\ WF_vars(Next)

Finished == curr = dst /\ dst \in switches
------------------------------------------------------------------------------
TypeOK ==
    /\ src \in Switch /\ dst \in Switch /\ curr \in Switch
    /\ path \in Path /\ ((path = "LOCAL") <=> (src = dst))
    /\ links \in SUBSET Link /\ switches \in SUBSET Switch
    /\ hops \in Nat
    /\ aborted \in BOOLEAN

(***************************************************************************)
(* The walk from one switch to another never meets a link twice, so the      *)
(* NS_ABORT_MSG_IF of GetLinkSet cannot fire and BitRateReserve never        *)
(* charges the same link twice for the same interface.                       *)
(***************************************************************************)
NoLinkTwice == ~aborted

(***************************************************************************)
(* When the loop ends it has visited exactly the links PathLinks names and   *)
(* the switches PathSwitches names, in as many hops as GetNumHops says.      *)
(***************************************************************************)
WalkIsPath ==
    Finished => /\ links = PathLinks(src, dst, path)
                /\ switches = PathSwitches(src, dst, path)
                /\ hops = GetNumHops(src, dst, path)

(***************************************************************************)
(* GetShortPath picks a path with the lowest number of hops: SPO is          *)
(* documented as "Shortest path only (path with lowest number of hops)".     *)
(***************************************************************************)
ShortPathIsShortest ==
    (Finished /\ path = GetShortPath(src, dst)) =>
        hops <= GetNumHops(src, dst, InvertPath(path))

(***************************************************************************)
(* Inductive strengthening: after a number of hops the loop stands that far  *)
(* from src, has visited the links between, and every switch but the one it  *)
(* stands on (until the visit after the loop).                               *)
(***************************************************************************)
Walked ==
    CASE path = "LOCAL" -> curr = src /\ hops = 0 /\ links = {}
      [] path = "CLOCK" ->
           /\ hops = ClockwiseDistance(src, curr)
           /\ hops <= ClockwiseDistance(src, dst)
           /\ links = {l \in Link : ClockwiseDistance(src, l) < hops}
      [] path = "COUNT" ->
           /\ hops = ClockwiseDistance(curr, src)
           /\ hops <= ClockwiseDistance(dst, src)
           /\ links = {l \in Link : ClockwiseDistance(curr, l) < hops}

SwitchesWalked ==
    LET before == CASE path = "LOCAL" -> {}
                    [] path = "CLOCK" ->
                         {s \in Switch : ClockwiseDistance(src, s) < hops}
                    [] path = "COUNT" ->
                         {s \in Switch : ClockwiseDistance(s, src) < hops}
    IN \/ switches = before
       \/ curr = dst /\ switches = before \cup {dst}

WalkInv == TypeOK /\ NoLinkTwice /\ Walked /\ SwitchesWalked

(***************************************************************************)
(* Every walk reaches its destination.                                       *)
(***************************************************************************)
Terminates == <>Finished
==============================================================================
