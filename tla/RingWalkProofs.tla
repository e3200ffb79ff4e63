--------------------------- MODULE RingWalkProofs ----------------------------
(***************************************************************************)
(* Proofs about RingWalk for every ring size: the loop visits each link of   *)
(* a path once, ends on the sets PathLinks and PathSwitches name, and        *)
(* GetShortPath returns a path with the fewest hops.                         *)
(***************************************************************************)
EXTENDS RingWalk, TLAPS

(***************************************************************************)
(* Distances are hop counts of the ring, and tell switches apart.            *)
(***************************************************************************)
LEMMA DistanceType ==
    ASSUME NEW a \in Switch, NEW b \in Switch
    PROVE  /\ ClockwiseDistance(a, b) \in 0 .. (N - 1)
           /\ ClockwiseDistance(a, b) \in Int
  BY NAssumption, SMT DEF Switch, ClockwiseDistance

(***************************************************************************)
(* One hop keeps the loop inside the ring and moves it by one.               *)
(***************************************************************************)
LEMMA HopMoves ==
    ASSUME NEW a \in Switch, NEW b \in Switch, NEW c \in Switch, c # b
    PROVE  /\ GetNextSwIdx(c, "CLOCK") \in Switch
           /\ GetNextSwIdx(c, "COUNT") \in Switch
           /\ ClockwiseDistance(a, c) <= ClockwiseDistance(a, b) =>
                ClockwiseDistance(a, GetNextSwIdx(c, "CLOCK"))
                    = ClockwiseDistance(a, c) + 1
           /\ ClockwiseDistance(c, a) <= ClockwiseDistance(b, a) =>
                ClockwiseDistance(GetNextSwIdx(c, "COUNT"), a)
                    = ClockwiseDistance(c, a) + 1
  BY NAssumption, SMT DEF Switch, GetNextSwIdx, ClockwiseDistance

(***************************************************************************)
(* A walk starts in the inductive invariant.                                 *)
(***************************************************************************)
LEMMA WalkInit == Init => WalkInv
  <1> SUFFICES ASSUME Init PROVE WalkInv
    OBVIOUS
  <1>1. TypeOK /\ NoLinkTwice
    BY DEF Init, TypeOK, NoLinkTwice
  <1>2. ClockwiseDistance(src, src) = 0
    BY NAssumption DEF Init, Switch, ClockwiseDistance
  <1>3. \A s \in Switch : /\ ~(ClockwiseDistance(src, s) < 0)
                          /\ ~(ClockwiseDistance(s, src) < 0)
    BY NAssumption DEF Init, Switch, ClockwiseDistance
  <1>4. ClockwiseDistance(src, dst) >= 0 /\ ClockwiseDistance(dst, src) >= 0
    BY NAssumption DEF Init, Switch, ClockwiseDistance
  <1>5. Walked
    BY <1>2, <1>3, <1>4 DEF Init, Walked, Path, Link
  <1>6. SwitchesWalked
    BY <1>3 DEF Init, SwitchesWalked, Path
  <1> QED
    BY <1>1, <1>5, <1>6 DEF WalkInv

(***************************************************************************)
(* Every iteration of the loop preserves the inductive invariant.            *)
(***************************************************************************)
LEMMA WalkStep == WalkInv /\ [Next]_vars => WalkInv'
  <1> SUFFICES ASSUME WalkInv, [Next]_vars PROVE WalkInv'
    OBVIOUS
  <1>0. TypeOK /\ NoLinkTwice /\ Walked /\ SwitchesWalked
    BY DEF WalkInv
  <1>1. CASE Hop
    <2> USE <1>1
    <2>1. path = "CLOCK" \/ path = "COUNT"
      <3>1. path # "LOCAL"
        BY <1>0 DEF Hop, Walked, TypeOK, Path
      <3> QED
        BY <1>0, <3>1 DEF TypeOK, Path
    <2>2. CASE path = "CLOCK"
      <3>1. /\ hops = ClockwiseDistance(src, curr)
            /\ hops <= ClockwiseDistance(src, dst)
            /\ links = {l \in Link : ClockwiseDistance(src, l) < hops}
        BY <1>0, <2>2 DEF Walked
      <3>2. /\ curr' \in Switch
            /\ hops' = ClockwiseDistance(src, curr')
            /\ hops' = hops + 1
        BY <1>0, <2>2, <3>1, HopMoves DEF Hop, TypeOK
      <3>3. ClockwiseDistance(src, curr) # ClockwiseDistance(src, dst)
        BY <1>0, NAssumption DEF Hop, TypeOK, Switch, ClockwiseDistance
      <3>4. hops' <= ClockwiseDistance(src, dst)
        <4>1. ClockwiseDistance(src, dst) \in Int /\ hops \in Int
          BY <1>0, DistanceType DEF TypeOK
        <4> QED
          BY <3>1, <3>2, <3>3, <4>1
      <3>5. \A s \in Switch : (ClockwiseDistance(src, s) < hops + 1) <=>
                (ClockwiseDistance(src, s) < hops \/ s = curr)
        BY <1>0, <3>1, NAssumption DEF TypeOK, Switch, ClockwiseDistance
      <3>6. links' = {l \in Link : ClockwiseDistance(src, l) < hops'}
        BY <1>0, <2>2, <3>1, <3>2, <3>5 DEF Hop, HopLink, Link, TypeOK
      <3>7. ~aborted'
        BY <1>0, <2>2, <3>1, NAssumption
           DEF Hop, HopLink, Link, TypeOK, Switch, ClockwiseDistance
      <3>8. switches = {s \in Switch : ClockwiseDistance(src, s) < hops}
        BY <1>0, <2>2 DEF Hop, SwitchesWalked
      <3>9. switches' = {s \in Switch : ClockwiseDistance(src, s) < hops'}
        BY <1>0, <3>2, <3>5, <3>8 DEF Hop, TypeOK
      <3>10. TypeOK' /\ NoLinkTwice'
        BY <1>0, <3>2, <3>6, <3>7, <3>9 DEF Hop, TypeOK, NoLinkTwice
      <3>11. Walked'
        BY <2>2, <3>2, <3>4, <3>6 DEF Hop, Walked
      <3>12. SwitchesWalked'
        BY <2>2, <3>9 DEF Hop, SwitchesWalked
      <3> QED
        BY <3>10, <3>11, <3>12 DEF WalkInv
    <2>3. CASE path = "COUNT"
      <3>1. /\ hops = ClockwiseDistance(curr, src)
            /\ hops <= ClockwiseDistance(dst, src)
            /\ links = {l \in Link : ClockwiseDistance(curr, l) < hops}
        BY <1>0, <2>3 DEF Walked
      <3>2. /\ curr' \in Switch
            /\ hops' = ClockwiseDistance(curr', src)
            /\ hops' = hops + 1
        BY <1>0, <2>3, <3>1, HopMoves DEF Hop, TypeOK
      <3>3. ClockwiseDistance(curr, src) # ClockwiseDistance(dst, src)
        BY <1>0, NAssumption DEF Hop, TypeOK, Switch, ClockwiseDistance
      <3>4. hops' <= ClockwiseDistance(dst, src)
        <4>1. ClockwiseDistance(dst, src) \in Int /\ hops \in Int
          BY <1>0, DistanceType DEF TypeOK
        <4> QED
          BY <3>1, <3>2, <3>3, <4>1
      <3>5. \A l \in Switch : (ClockwiseDistance(curr', l) < hops + 1) <=>
                (ClockwiseDistance(curr, l) < hops \/ l = curr')
        BY <1>0, <2>3, <3>1, <3>4, <3>2, NAssumption
           DEF Hop, TypeOK, Switch, ClockwiseDistance, GetNextSwIdx
      <3>6. links' = {l \in Link : ClockwiseDistance(curr', l) < hops'}
        BY <1>0, <2>3, <3>1, <3>2, <3>5 DEF Hop, HopLink, Link, TypeOK
      <3>7. ~aborted'
        BY <1>0, <2>3, <3>1, <3>2, <3>4, NAssumption
           DEF Hop, HopLink, Link, TypeOK, Switch, ClockwiseDistance, GetNextSwIdx
      <3>8. switches = {s \in Switch : ClockwiseDistance(s, src) < hops}
        BY <1>0, <2>3 DEF Hop, SwitchesWalked
      <3>9a. \A s \in Switch : (ClockwiseDistance(s, src) < hops + 1) <=>
                (ClockwiseDistance(s, src) < hops \/ s = curr)
        BY <1>0, <3>1, NAssumption DEF TypeOK, Switch, ClockwiseDistance
      <3>9. switches' = {s \in Switch : ClockwiseDistance(s, src) < hops'}
        BY <1>0, <3>2, <3>9a, <3>8 DEF Hop, TypeOK
      <3>10. TypeOK' /\ NoLinkTwice'
        BY <1>0, <3>2, <3>6, <3>7, <3>9 DEF Hop, TypeOK, NoLinkTwice
      <3>11. Walked'
        BY <2>3, <3>2, <3>4, <3>6 DEF Hop, Walked
      <3>12. SwitchesWalked'
        BY <2>3, <3>9 DEF Hop, SwitchesWalked
      <3> QED
        BY <3>10, <3>11, <3>12 DEF WalkInv
    <2> QED
      BY <2>1, <2>2, <2>3
  <1>2. CASE Last
    <2>1. TypeOK' /\ NoLinkTwice' /\ Walked'
      BY <1>0, <1>2 DEF Last, TypeOK, NoLinkTwice, Walked
    <2>2. SwitchesWalked'
      BY <1>0, <1>2 DEF Last, SwitchesWalked
    <2> QED
      BY <2>1, <2>2 DEF WalkInv
  <1>3. CASE UNCHANGED vars
    BY <1>0, <1>3 DEF vars, WalkInv, TypeOK, NoLinkTwice, Walked, SwitchesWalked
  <1> QED
    BY <1>1, <1>2, <1>3 DEF Next

(***************************************************************************)
(* What the inductive invariant says of a finished walk.                     *)
(***************************************************************************)
LEMMA WalkInvEnds == WalkInv => WalkIsPath
  <1> SUFFICES ASSUME WalkInv, Finished PROVE
               /\ links = PathLinks(src, dst, path)
               /\ switches = PathSwitches(src, dst, path)
               /\ hops = GetNumHops(src, dst, path)
    BY DEF WalkIsPath
  <1>0. TypeOK /\ Walked /\ SwitchesWalked
    BY DEF WalkInv
  <1>1. CASE path = "LOCAL"
    BY <1>0, <1>1 DEF Finished, TypeOK, Walked, SwitchesWalked,
                      PathLinks, PathSwitches, GetNumHops
  <1>2. CASE path = "CLOCK"
    <2>1. /\ hops = ClockwiseDistance(src, dst)
          /\ links = {l \in Link : ClockwiseDistance(src, l) < hops}
      BY <1>0, <1>2 DEF Finished, Walked
    <2>2. switches = {s \in Switch : ClockwiseDistance(src, s) < hops} \cup {dst}
      BY <1>0, <1>2 DEF Finished, SwitchesWalked
    <2>3. \A s \in Switch : (ClockwiseDistance(src, s) <= hops) <=>
              (ClockwiseDistance(src, s) < hops \/ s = dst)
      BY <1>0, <2>1, NAssumption DEF TypeOK, Switch, ClockwiseDistance
    <2>4. switches = {s \in Switch : ClockwiseDistance(src, s) <= hops}
      BY <1>0, <2>2, <2>3 DEF TypeOK
    <2> QED
      BY <1>2, <2>1, <2>4 DEF PathLinks, PathSwitches, GetNumHops
  <1>3. CASE path = "COUNT"
    <2>1. /\ hops = ClockwiseDistance(dst, src)
          /\ links = {l \in Link : ClockwiseDistance(dst, l) < hops}
      BY <1>0, <1>3 DEF Finished, Walked
    <2>2. switches = {s \in Switch : ClockwiseDistance(s, src) < hops} \cup {dst}
      BY <1>0, <1>3 DEF Finished, SwitchesWalked
    <2>3. \A s \in Switch : (ClockwiseDistance(dst, s) <= hops) <=>
              (ClockwiseDistance(s, src) < hops \/ s = dst)
      BY <1>0, <2>1, NAssumption DEF TypeOK, Switch, ClockwiseDistance
    <2>4. switches = {s \in Switch : ClockwiseDistance(dst, s) <= hops}
      BY <1>0, <2>2, <2>3 DEF TypeOK
    <2> QED
      BY <1>3, <2>1, <2>4 DEF PathLinks, PathSwitches, GetNumHops
  <1> QED
    BY <1>0, <1>1, <1>2, <1>3 DEF TypeOK, Path

(***************************************************************************)
(* GetShortPath never has more hops than the path the other way around.      *)
(***************************************************************************)
LEMMA ShortPathHops ==
    ASSUME NEW a \in Switch, NEW b \in Switch
    PROVE  GetNumHops(a, b, GetShortPath(a, b))
               <= GetNumHops(a, b, InvertPath(GetShortPath(a, b)))
  <1>1. CASE a = b
    BY <1>1 DEF GetNumHops, GetShortPath, InvertPath
  <1>2. CASE a # b
    <2>1. ClockwiseDistance(a, b) + ClockwiseDistance(b, a) = N
      BY <1>2, NAssumption DEF Switch, ClockwiseDistance
    <2>2. \A k \in Int : (k <= N \div 2) <=> (2 * k <= N)
      BY NAssumption
    <2>3. ClockwiseDistance(a, b) \in Int /\ ClockwiseDistance(b, a) \in Int
      BY DistanceType
    <2>4. CASE ClockwiseDistance(a, b) <= N \div 2
      BY <1>2, <2>1, <2>2, <2>3, <2>4, NAssumption
         DEF GetNumHops, GetShortPath, InvertPath
    <2>5. CASE ~(ClockwiseDistance(a, b) <= N \div 2)
      BY <1>2, <2>1, <2>2, <2>3, <2>5, NAssumption
         DEF GetNumHops, GetShortPath, InvertPath
    <2> QED
      BY <2>4, <2>5
  <1> QED
    BY <1>1, <1>2

(***************************************************************************)
(* The inductive invariant holds throughout the walk.                        *)
(***************************************************************************)
LEMMA WalkInvariant == Spec => []WalkInv
  BY WalkInit, WalkStep, PTL DEF Spec

(***************************************************************************)
(* For every ring, GetLinkSet's NS_ABORT_MSG_IF never fires.                 *)
(***************************************************************************)
THEOREM NoLinkTwiceHolds == Spec => []NoLinkTwice
  <1>1. WalkInv => NoLinkTwice
    BY DEF WalkInv
  <1> QED
    BY <1>1, WalkInvariant, PTL

(***************************************************************************)
(* For every ring, a finished walk of the code's loops has visited exactly   *)
(* PathLinks and PathSwitches in GetNumHops hops.                            *)
(***************************************************************************)
THEOREM WalkIsPathHolds == Spec => []WalkIsPath
  BY WalkInvEnds, WalkInvariant, PTL

(***************************************************************************)
(* For every ring, the path GetShortPath picks has the lowest number of hops *)
(* of the two.                                                               *)
(***************************************************************************)
THEOREM ShortPathIsShortestHolds == Spec => []ShortPathIsShortest
  <1>1. WalkInv => ShortPathIsShortest
    <2> SUFFICES ASSUME WalkInv, Finished, path = GetShortPath(src, dst)
                 PROVE  hops <= GetNumHops(src, dst, InvertPath(path))
      BY DEF ShortPathIsShortest
    <2>1. hops = GetNumHops(src, dst, path)
      BY WalkInvEnds DEF WalkIsPath
    <2> QED
      BY <2>1, ShortPathHops DEF WalkInv, TypeOK
  <1> QED
    BY <1>1, WalkInvariant, PTL
==============================================================================
