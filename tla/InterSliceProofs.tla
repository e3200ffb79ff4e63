--------------------------- MODULE InterSliceProofs ---------------------------
(***************************************************************************)
(* For any link, quotas, priorities, steps and throughputs: the adjustment of  *)
(* the extra bit rates respects the priorities and relieves a congested link,  *)
(* no assertion fails, and the meters follow.                                 *)
(*                                                                           *)
(* The invariant has one part per loop of SlicingExtraAdjust: what holds each *)
(* time that the loop's condition is evaluated.                              *)
(***************************************************************************)
EXTENDS InterSlice, TLAPS

Sharers == {s \in Slice : Shares(s)}

Sum(P, f) ==
    (IF "HTC" \in P THEN f["HTC"] ELSE 0) + (IF "MTC" \in P THEN f["MTC"] ELSE 0)
        + (IF "TMP" \in P THEN f["TMP"] ELSE 0)

Threshold == MaxShare - GuardStep

At(i)   == sharing[i]
Prio(i) == Priority[sharing[i]]
Pos     == 1 .. Last

(* LinkInfo's counters. *)
Counters ==
    /\ \A s \in Slice : res[s] <= QuoBitRate(s)
    /\ ext["ALL"] = Total(ext)
    /\ \A s \in Slice : ~Shares(s) => ext[s] = 0

(* A meter stays where it is until the slices have their new extra bit rates, *)
(* and the other slices keep theirs.                                         *)
MetersOK ==
    /\ adj.pc # "idle" => mode = "DYNA"
    /\ \A m \in SliceAll :
          (Installed(m) /\ (adj.pc = "idle" \/ m \notin Sharers)) =>
              Distance(met[m], Target(m, UnrBitRate(res, ext))) < MeterStep

Overloaded(i, e) == IdlBitRate(At(i), e) < ExtraStep \div 2

GrowOK ==
    adj.pc = "grow" =>
        /\ adj.it <= Last
        /\ adj.idl <= Threshold - Sum(Sharers, adj.use)
        /\ \A i \in 1 .. adj.it : ext[At(i)] = adj.was[At(i)]
        /\ \A i \in Pos : (i > adj.it /\ Overloaded(i, adj.was)) =>
              \/ ext[At(i)] > adj.was[At(i)]
              \/ /\ adj.idl < ExtraStep
                 /\ \A j \in Pos : j < i => ext[At(j)] <= adj.was[At(j)]

TrimOK ==
    adj.pc = "trim" =>
        /\ adj.it >= 1 /\ adj.sp = 1 /\ ~adj.removed
        /\ adj.idl <= Threshold - Sum(Sharers, adj.use)
        /\ \A i \in Pos : i < adj.it => ~HasUnusedExtra(At(i))

(* The slices of a priority begin at sp; those before the loop's slice have    *)
(* that priority or a lower one.                                             *)
PlaceOK ==
    /\ adj.it >= 1 /\ adj.sp <= adj.it /\ (Last > 0 => adj.sp <= Last)
    /\ \A i \in Pos : i < adj.sp => Prio(i) < Prio(adj.sp)
    /\ \A i \in Pos : (i >= adj.sp /\ i < adj.it) => Prio(i) = Prio(adj.sp)
    /\ adj.removed => adj.it <= Last /\ Prio(adj.it) = Prio(adj.sp)

(* What lower priorities have left, and higher ones have lost.                *)
OrderOK ==
    /\ \A i \in Pos : (i < adj.it /\ (~adj.removed \/ Prio(i) < Prio(adj.sp)))
                          => ext[At(i)] < ExtraStep
    /\ \A j \in Pos : (adj.it <= Last /\ Prio(j) > Prio(adj.it)) => Lost(At(j)) = 0

(* By how much j may be ahead of i, which has a step to lose: the slices       *)
(* before the loop's slice had their turn of this pass.                      *)
Ahead(it, i, j) ==
    IF j < it /\ it <= i THEN ExtraStep ELSE IF i < it /\ it <= j THEN -ExtraStep ELSE 0

TurnsOK ==
    \A i, j \in Pos :
        (Prio(i) = Prio(j) /\ ext[At(i)] >= ExtraStep) =>
            Lost(At(j)) <= Lost(At(i)) + Ahead(adj.it, i, j)

CutOK ==
    adj.pc = "cut" =>
        /\ PlaceOK /\ OrderOK /\ TurnsOK
        /\ adj.idl <= Threshold - Sum(Sharers, StillUsed)
        /\ \A i \in Pos : ~HasUnusedExtra(At(i))

(* What the loops have achieved. *)
ResultOK == adj.pc = "meters" => HigherPriorityFirst /\ CutInOrder /\ CongestionRelieved

Inv ==
    /\ TypeOK /\ fault = "none" /\ Counters /\ MetersOK /\ ExtraBounded
    /\ GrowOK /\ TrimOK /\ CutOK /\ ResultOK
------------------------------------------------------------------------------
(* Facts about the constants. *)

LEMMA PercentOf ==
    ASSUME NEW q \in 0 .. 100
    PROVE  (LinkBitRate * q) \div 100 \in Nat
<1>1. LinkBitRate \in Nat
  BY ConstAssumption
<1>2. LinkBitRate * q \in Nat
  BY <1>1
<1>3. \A n \in Nat : n \div 100 \in Nat
  OBVIOUS
<1> QED
  BY <1>2, <1>3

LEMMA QuotaNat == \A s \in Slice : QuoBitRate(s) \in Nat
BY PercentOf, ConstAssumption DEF QuoBitRate

LEMMA SpareNat == SpareBitRate \in Nat
<1> DEFINE q == 100 - (Quota["HTC"] + Quota["MTC"] + Quota["TMP"])
<1>1. q \in 0 .. 100
  <2>1. Quota["HTC"] \in 0 .. 100 /\ Quota["MTC"] \in 0 .. 100 /\ Quota["TMP"] \in 0 .. 100
    BY ConstAssumption DEF Slice
  <2>2. Quota["HTC"] + Quota["MTC"] + Quota["TMP"] <= 100
    BY ConstAssumption
  <2>3. \A a, b, c \in 0 .. 100 : a + b + c <= 100 => 100 - (a + b + c) \in 0 .. 100
    OBVIOUS
  <2> QED
    BY <2>1, <2>2, <2>3
<1>2. (LinkBitRate * q) \div 100 \in Nat
  BY <1>1, PercentOf
<1> QED
  BY <1>2 DEF SpareBitRate

LEMMA Steps ==
    /\ ExtraStep \in Nat /\ ExtraStep > 0 /\ ExtraStep \div 2 \in Nat
    /\ ExtraStep \div 2 <= ExtraStep
    /\ GuardStep \in Nat /\ MeterStep \in Nat /\ Kilo \in Nat /\ Kilo > 0 /\ Kilo <= MeterStep
BY ConstAssumption

LEMMA SharingOK ==
    ASSUME setting \in Setting
    PROVE  /\ Last \in Nat
           /\ \A i \in Pos : At(i) \in Slice /\ At(i) \in Sharers /\ Prio(i) \in Int
           /\ \A s \in Sharers : \E i \in Pos : s = At(i)
           /\ \A i, j \in Pos : i < j => At(i) # At(j) /\ Prio(i) <= Prio(j)
<1>1. sharing \in Seq(Slice) /\ Priority \in [Slice -> Int]
  BY ConstAssumption DEF sharing
<1>2. Last \in Nat /\ \A i \in 1 .. Last : sharing[i] \in Slice
  BY <1>1 DEF Last
<1>3. \A i, j \in 1 .. Last :
          i < j => sharing[i] # sharing[j] /\ Priority[sharing[i]] <= Priority[sharing[j]]
  BY ConstAssumption DEF sharing, Last
<1> QED
  BY <1>1, <1>2, <1>3 DEF Pos, At, Prio, Sharers, Shares, Last

LEMMA SettingKept ==
    ASSUME UNCHANGED setting
    PROVE  /\ Last' = Last /\ Pos' = Pos /\ Sharers' = Sharers /\ mode' = mode
           /\ \A i : At(i)' = At(i) /\ Prio(i)' = Prio(i)
           /\ \A s : Shares(s)' <=> Shares(s)
           /\ \A s : MeterOf(s)' = MeterOf(s) /\ (Installed(s)' <=> Installed(s))
BY DEF Last, Pos, Sharers, mode, At, Prio, Shares, sharing, MeterOf, Installed

(* Sums over the slices that share. *)

LEMMA TotalIsSum == \A f : Total(Shared(f)) = Sum(Sharers, f)
BY DEF Total, Shared, Sum, Sharers, Slice

LEMMA SumInt ==
    ASSUME NEW P, NEW f \in [Slice -> Int]
    PROVE  Sum(P, f) \in Int
BY DEF Sum, Slice

LEMMA SumNat ==
    ASSUME NEW P, NEW f \in [Slice -> Nat]
    PROVE  Sum(P, f) \in Nat /\ \A s \in Slice : s \in P => f[s] <= Sum(P, f)
BY DEF Sum, Slice

LEMMA SumLess ==
    ASSUME NEW P, NEW f \in [Slice -> Int], NEW g \in [Slice -> Int],
           \A s \in Slice : g[s] <= f[s]
    PROVE  Sum(P, g) <= Sum(P, f)
BY DEF Sum, Slice

LEMMA SumChange ==
    ASSUME NEW P, NEW f \in [Slice -> Int], NEW g \in [Slice -> Int],
           NEW s \in Slice, NEW d \in Int, s \in P, g[s] = f[s] + d,
           \A t \in Slice : t # s => g[t] = f[t]
    PROVE  Sum(P, g) = Sum(P, f) + d
<1>1. CASE s = "HTC"
  BY <1>1 DEF Sum, Slice
<1>2. CASE s = "MTC"
  BY <1>2 DEF Sum, Slice
<1>3. CASE s = "TMP"
  BY <1>3 DEF Sum, Slice
<1> QED
  BY <1>1, <1>2, <1>3 DEF Slice

LEMMA ThresholdInt == MaxShare \in Nat /\ Threshold \in Int
<1> DEFINE quo == [s \in Slice |-> QuoBitRate(s)]
<1>1. quo \in [Slice -> Nat]
  BY QuotaNat
<1>2. Sum(Sharers, quo) \in Nat
  BY <1>1, SumNat
<1> QED
  BY <1>2, TotalIsSum, SpareNat, Steps DEF MaxShare, Threshold

(***************************************************************************)
(* LinkInfo accepts an update that leaves the slice a natural number, and     *)
(* keeps ALL the total.                                                      *)
(***************************************************************************)
LEMMA ExtChange ==
    ASSUME ext \in [SliceAll -> Nat], ext["ALL"] = Total(ext),
           NEW s \in Slice, NEW d \in Int, ext[s] + d >= 0, UpdateExtBitRate(s, d)
    PROVE  /\ ExtraOK(s, d) /\ ext' \in [SliceAll -> Nat] /\ ext'["ALL"] = Total(ext')
           /\ ext'[s] = ext[s] + d /\ \A t \in Slice : t # s => ext'[t] = ext[t]
<1>1. ext["HTC"] \in Nat /\ ext["MTC"] \in Nat /\ ext["TMP"] \in Nat /\ ext["ALL"] \in Nat
  BY DEF SliceAll, Slice
<1>2. ext[s] <= ext["ALL"]
  BY <1>1 DEF Total, Slice
<1>3. s # "ALL" /\ s \in SliceAll /\ "ALL" \in SliceAll
  BY DEF Slice, SliceAll
<1>4. ext'[s] = ext[s] + d /\ ext'["ALL"] = ext["ALL"] + d
  BY <1>3 DEF UpdateExtBitRate
<1>5. \A t \in Slice : t # s => ext'[t] = ext[t]
  BY DEF UpdateExtBitRate, SliceAll, Slice
<1>6. ext[s] + d \in Nat /\ ext["ALL"] + d \in Nat
  BY <1>1, <1>2 DEF Slice
<1>7. ext' \in [SliceAll -> Nat]
  BY <1>3, <1>6 DEF UpdateExtBitRate
<1>8. Total(ext') = Total(ext) + d
  BY <1>1, <1>4, <1>5 DEF Total, Slice
<1> QED
  BY <1>4, <1>5, <1>6, <1>7, <1>8 DEF ExtraOK

LEMMA IdlNat ==
    ASSUME NEW e \in [SliceAll -> Nat], NEW s \in Slice, adj.use[s] \in Nat
    PROVE  /\ IdlBitRate(s, e) \in Nat
           /\ IdlBitRate(s, e) >= QuoBitRate(s) + e[s] - adj.use[s]
           /\ IdlBitRate(s, e) > 0 => IdlBitRate(s, e) = QuoBitRate(s) + e[s] - adj.use[s]
           /\ QuoBitRate(s) \in Nat /\ e[s] \in Nat
<1>1. QuoBitRate(s) \in Nat /\ e[s] \in Nat
  BY QuotaNat DEF SliceAll
<1> QED
  BY <1>1 DEF IdlBitRate

(* Meters. *)

LEMMA KbpsClose ==
    ASSUME NEW t \in Nat
    PROVE  Kbps(t) \in Nat /\ Kbps(t) <= t /\ t < Kbps(t) + Kilo
<1> DEFINE q == t \div Kilo
<1>1. q \in Nat /\ q * Kilo <= t /\ t < q * Kilo + Kilo
  BY Steps
<1>2. q * Kilo \in Nat
  BY <1>1, Steps
<1> QED
  BY <1>1, <1>2 DEF Kbps

LEMMA TargetNat ==
    ASSUME NEW r \in [Slice -> Nat], NEW e \in [SliceAll -> Nat], NEW m \in SliceAll,
           \A s \in Slice : r[s] <= QuoBitRate(s)
    PROVE  Target(m, UnrBitRate(r, e)) \in Nat
<1> DEFINE unr == UnrBitRate(r, e)
<1>1. unr \in [Slice -> Nat]
  <2>1. ASSUME NEW s \in Slice
        PROVE  QuoBitRate(s) + e[s] - r[s] \in Nat
    BY QuotaNat DEF SliceAll
  <2> QED
    BY <2>1 DEF UnrBitRate
<1>2. Sum(Sharers, unr) \in Nat
  BY <1>1, SumNat
<1> HIDE DEF unr
<1> QED
  BY <1>1, <1>2, TotalIsSum, SpareNat DEF Target, SliceAll, unr

LEMMA MeterClose ==
    ASSUME NEW r, NEW e, NEW m, met[m] \in Nat, Target(m, UnrBitRate(r, e)) \in Nat
    PROVE  /\ MeterRate(m, r, e) \in Nat
           /\ Distance(MeterRate(m, r, e), Target(m, UnrBitRate(r, e))) < MeterStep
<1> DEFINE t == Target(m, UnrBitRate(r, e))
<1>1. Kbps(t) \in Nat /\ Kbps(t) <= t /\ t < Kbps(t) + Kilo
  BY KbpsClose
<1>2. MeterRate(m, r, e) = IF Distance(met[m], t) >= MeterStep THEN Kbps(t) ELSE met[m]
  BY DEF MeterRate
<1> HIDE DEF t
<1>3. t \in Nat
  BY DEF t
<1>4. MeterRate(m, r, e) \in Nat /\ Distance(MeterRate(m, r, e), t) < MeterStep
  BY <1>1, <1>2, <1>3, Steps DEF Distance
<1> QED
  BY <1>4 DEF t

(***************************************************************************)
(* SlicingMeterAdjust leaves no meter of the slices behind, and no assertion   *)
(* of it fails while no slice has reserved more than its quota.               *)
(***************************************************************************)
LEMMA MetersFollow ==
    ASSUME met \in [SliceAll -> Nat],
           NEW r \in [Slice -> Nat], NEW e \in [SliceAll -> Nat], NEW S \in SUBSET Slice,
           \A s \in Slice : r[s] <= QuoBitRate(s),
           SlicingMeterAdjust(S, r, e)
    PROVE  /\ met' \in [SliceAll -> Nat] /\ fault' = "none"
           /\ \A m \in SliceAll : (mode # "NONE" /\ \E s \in S : m = MeterOf(s)) =>
                  Distance(met'[m], Target(m, UnrBitRate(r, e))) < MeterStep
           /\ \A m \in SliceAll : (\A s \in S : m # MeterOf(s)) => met'[m] = met[m]
<1> DEFINE M == IF mode = "NONE" THEN {} ELSE {MeterOf(s) : s \in S}
<1>1. /\ met' = [m \in SliceAll |-> IF m \in M THEN MeterRate(m, r, e) ELSE met[m]]
      /\ fault' = IF \E m \in M : MeterRate(m, r, e) < 0
                  THEN "Error when setting meter bit rate." ELSE "none"
  BY DEF SlicingMeterAdjust
<1>2. ASSUME NEW m \in SliceAll
      PROVE  /\ MeterRate(m, r, e) \in Nat
             /\ Distance(MeterRate(m, r, e), Target(m, UnrBitRate(r, e))) < MeterStep
  BY TargetNat, MeterClose
<1>3. M \subseteq SliceAll
  BY DEF MeterOf, SliceAll
<1>4. fault' = "none"
  <2>1. \A m \in M : ~(MeterRate(m, r, e) < 0)
    BY <1>2, <1>3
  <2> HIDE DEF M
  <2> QED
    BY <1>1, <2>1
<1>5. met' \in [SliceAll -> Nat]
  <2> HIDE DEF M
  <2> QED
    BY <1>1, <1>2
<1>6. ASSUME NEW m \in SliceAll
      PROVE  /\ m \in M => met'[m] = MeterRate(m, r, e)
             /\ m \notin M => met'[m] = met[m]
  <2> HIDE DEF M
  <2> QED
    BY <1>1
<1> QED
  BY <1>2, <1>4, <1>5, <1>6

LEMMA OneTarget ==
    ASSUME NEW m \in Slice, NEW r, NEW e
    PROVE  Target(m, UnrBitRate(r, e)) = QuoBitRate(m) + e[m] - r[m]
BY DEF Target, UnrBitRate, Slice

(* Between the meters' adjustments only slices that share may change. *)
LEMMA MetersWait ==
    ASSUME Inv, UNCHANGED <<setting, res, met>>, mode = "DYNA", adj'.pc # "idle",
           \A s \in Slice : s \notin Sharers => ext'[s] = ext[s]
    PROVE  MetersOK'
<1>1. mode' = "DYNA" /\ Sharers' = Sharers /\ \A m : Installed(m)' <=> Installed(m)
  BY SettingKept
<1>2. ASSUME NEW m \in SliceAll, Installed(m), m \notin Sharers
      PROVE  Distance(met'[m], Target(m, UnrBitRate(res, ext'))) < MeterStep
  <2>1. m \in Slice
    BY <1>2 DEF Installed, SliceAll
  <2>2. Target(m, UnrBitRate(res, ext')) = Target(m, UnrBitRate(res, ext))
    BY <1>2, <2>1, OneTarget
  <2>3. Distance(met[m], Target(m, UnrBitRate(res, ext))) < MeterStep
    BY <1>2 DEF Inv, MetersOK
  <2> QED
    BY <2>2, <2>3
<1> QED
  <2>1. \A m \in SliceAll : Target(m, UnrBitRate(res, ext))' = Target(m, UnrBitRate(res, ext'))
    BY SettingKept DEF Target, UnrBitRate, Total, Shared
  <2> QED
    BY <1>1, <1>2, <2>1 DEF MetersOK
------------------------------------------------------------------------------
AdjType ==
    [pc : {"idle", "grow", "trim", "cut", "meters"}, use : [Slice -> Nat], idl : Int,
     it : 0 .. Last + 1, sp : 1 .. Last + 1, removed : BOOLEAN, was : [SliceAll -> Nat]]

(* Everything that the loops rely on, for the proofs of their steps. *)
LEMMA Basics ==
    ASSUME Inv
    PROVE  /\ setting \in Setting /\ res \in [Slice -> Nat] /\ ext \in [SliceAll -> Nat]
           /\ met \in [SliceAll -> Nat] /\ adj \in AdjType /\ Last \in Nat
           /\ ext["ALL"] = Total(ext) /\ \A s \in Slice : res[s] <= QuoBitRate(s)
           /\ \A s \in Slice : s \notin Sharers => ext[s] = 0
           /\ \A i \in Pos : At(i) \in Slice /\ At(i) \in Sharers /\ Prio(i) \in Int
           /\ \A i, j \in Pos : i < j => At(i) # At(j) /\ Prio(i) <= Prio(j)
           /\ \A s \in Slice : ext[s] \in Nat
BY SharingOK DEF Inv, TypeOK, Counters, AdjType, Sharers, SliceAll

LEMMA IdleAdj ==
    ASSUME setting \in Setting
    PROVE  NoAdjust \in AdjType
BY SharingOK DEF NoAdjust, NoExtra, AdjType

LEMMA InitInv == Init => Inv
<1> SUFFICES ASSUME Init PROVE Inv
  OBVIOUS
<1>1. /\ setting \in Setting /\ adj = NoAdjust /\ adj.pc = "idle"
      /\ res = [s \in Slice |-> 0] /\ ext = [m \in SliceAll |-> 0]
  BY DEF Init, NoAdjust, NoExtra
<1>2. \A s \in Slice : res[s] = 0 /\ ext[s] = 0 /\ res[s] <= QuoBitRate(s)
  BY <1>1, QuotaNat DEF SliceAll
<1>3. \A m \in SliceAll : Target(m, UnrBitRate(res, ext)) \in Nat
  BY <1>1, <1>2, TargetNat
<1>4. \A m \in SliceAll : Installed(m) => met[m] = Kbps(Target(m, UnrBitRate(res, ext)))
  BY DEF Init
<1>5. TypeOK
  <2>1. met \in [SliceAll -> Nat]
    BY <1>3, KbpsClose DEF Init
  <2>2. adj \in AdjType
    BY <1>1, IdleAdj
  <2>3. res \in [Slice -> Nat] /\ ext \in [SliceAll -> Nat]
    BY <1>1
  <2>4. fault \in Fault
    BY DEF Init, Fault
  <2> QED
    BY <1>1, <2>1, <2>2, <2>3, <2>4 DEF TypeOK, AdjType
<1>6. Counters
  BY <1>1, <1>2 DEF Counters, Total, SliceAll, Slice
<1>7. MetersOK
  <2>1. ASSUME NEW t \in Nat
        PROVE  Distance(Kbps(t), t) < MeterStep
    BY KbpsClose, Steps DEF Distance
  <2> QED
    BY <1>1, <1>3, <1>4, <2>1 DEF MetersOK
<1>8. ExtraBounded
  BY <1>2 DEF ExtraBounded
<1> QED
  BY <1>1, <1>5, <1>6, <1>7, <1>8
     DEF Inv, Init, GrowOK, TrimOK, CutOK, ResultOK

LEMMA TimeoutInv ==
    ASSUME NEW use \in UseProfiles[setting], Inv, SlicingDynamicTimeout(use)
    PROVE  Inv'
<1> DEFINE idl == MaxShare - GuardStep - Total(Shared(use))
<1> USE Basics
<1>1. UNCHANGED <<setting, res, ext, met, fault>> /\ mode = "DYNA"
  BY DEF SlicingDynamicTimeout
<1>2. use \in [Slice -> Nat]
  BY ConstAssumption
<1>3. Sum(Sharers, use) \in Nat /\ Threshold \in Int /\ idl = Threshold - Sum(Sharers, use)
  BY <1>2, SumNat, ThresholdInt, TotalIsSum DEF Threshold
<1>4. adj' = [pc |-> IF idl > 0 THEN "grow" ELSE "trim", use |-> use, idl |-> idl,
              it |-> IF idl > 0 THEN Last ELSE 1, sp |-> 1, removed |-> FALSE, was |-> ext]
  BY DEF SlicingDynamicTimeout, NoAdjust
<1> HIDE DEF idl
<1>5. /\ adj'.pc = IF idl > 0 THEN "grow" ELSE "trim"
      /\ adj'.it = IF idl > 0 THEN Last ELSE 1
      /\ adj'.use = use /\ adj'.idl = idl /\ adj'.sp = 1 /\ adj'.removed = FALSE
      /\ adj'.was = ext
  BY <1>4
<1>6. TypeOK'
  <2>1. adj' \in AdjType
    BY <1>2, <1>3, <1>4 DEF AdjType
  <2> QED
    BY <1>1, <2>1, SettingKept DEF Inv, TypeOK, AdjType
<1>7. Counters'
  BY <1>1, SettingKept DEF Inv, Counters, Total, QuoBitRate
<1>8. MetersOK'
  BY <1>1, <1>5, MetersWait
<1>9. ExtraBounded'
  BY <1>1, SettingKept DEF Inv, ExtraBounded, MaxBitRate, QuoBitRate, MaxShare, Total, Shared
<1>10. Threshold' = Threshold
  BY <1>1, SettingKept DEF Threshold, MaxShare, Total, Shared, QuoBitRate, SpareBitRate
<1>11. GrowOK'
  BY <1>1, <1>3, <1>5, <1>10, SettingKept DEF GrowOK, Pos
<1>12. TrimOK' /\ CutOK' /\ ResultOK'
  BY <1>1, <1>3, <1>5, <1>10, SettingKept DEF TrimOK, CutOK, ResultOK, Pos
<1> QED
  BY <1>1, <1>6, <1>7, <1>8, <1>9, <1>11, <1>12 DEF Inv

LEMMA ThresholdKept ==
    ASSUME UNCHANGED setting
    PROVE  Threshold' = Threshold /\ MaxShare' = MaxShare
BY SettingKept DEF Threshold, MaxShare, Total, Shared, QuoBitRate, SpareBitRate

(***************************************************************************)
(* What every step of a loop keeps, when it changes the extra bit rate of one  *)
(* slice that shares, or of none.                                            *)
(***************************************************************************)
LEMMA ExtStep ==
    ASSUME Inv, NEW s \in Slice, s \in Sharers, NEW d \in Int, ext[s] + d >= 0,
           UpdateExtBitRate(s, d), UNCHANGED <<setting, res, met>>, mode = "DYNA",
           adj' \in AdjType, adj'.pc # "idle", ExtraOK(s, d) => fault' = "none",
           d > 0 => MaxBitRate(s) + d < Threshold + ExtraStep \div 2
    PROVE  /\ TypeOK' /\ fault' = "none" /\ Counters' /\ MetersOK' /\ ExtraBounded'
           /\ ext'[s] = ext[s] + d /\ \A t \in Slice : t # s => ext'[t] = ext[t]
<1> USE Basics
<1>1. /\ ExtraOK(s, d) /\ ext' \in [SliceAll -> Nat] /\ ext'["ALL"] = Total(ext')
      /\ ext'[s] = ext[s] + d /\ \A t \in Slice : t # s => ext'[t] = ext[t]
  BY ExtChange
<1>2. fault' = "none"
  BY <1>1
<1>3. TypeOK'
  BY <1>1, <1>2, SettingKept DEF TypeOK, AdjType, Fault
<1>4. Counters'
  <2>1. \A t \in Slice : t \notin Sharers => ext'[t] = 0
    BY <1>1
  <2>2. \A t \in Slice : ~Shares(t) => t \notin Sharers
    BY DEF Sharers
  <2> QED
    BY <1>1, <2>1, <2>2, SettingKept DEF Counters, Total, QuoBitRate
<1>5. MetersOK'
  BY <1>1, MetersWait
<1>6. ExtraBounded'
  <2> SUFFICES ASSUME NEW t \in Slice, ext'[t] > 0
               PROVE  QuoBitRate(t) + ext'[t] < Threshold + ExtraStep \div 2
    BY ThresholdKept DEF ExtraBounded, MaxBitRate, QuoBitRate, Threshold
  <2>1. QuoBitRate(t) \in Nat /\ ext[t] \in Nat /\ ext'[t] \in Nat /\ ext[s] \in Nat
    BY <1>1, QuotaNat DEF SliceAll
  <2>2. Threshold \in Int
    BY ThresholdInt
  <2>3. ext[t] > 0 => QuoBitRate(t) + ext[t] < Threshold + ExtraStep \div 2
    BY DEF Inv, ExtraBounded, MaxBitRate, Threshold
  <2>4. CASE t # s
    BY <1>1, <2>3, <2>4
  <2>5. CASE t = s /\ d > 0
    BY <1>1, <2>1, <2>2, <2>5, Steps DEF MaxBitRate
  <2>6. CASE t = s /\ d <= 0
    BY <1>1, <2>1, <2>2, <2>3, <2>6, Steps
  <2> QED
    BY <2>4, <2>5, <2>6
<1> QED
  BY <1>1, <1>2, <1>3, <1>4, <1>5, <1>6

LEMMA SameExtStep ==
    ASSUME Inv, UNCHANGED <<setting, res, ext, met, fault>>, mode = "DYNA",
           adj' \in AdjType, adj'.pc # "idle"
    PROVE  TypeOK' /\ fault' = "none" /\ Counters' /\ MetersOK' /\ ExtraBounded'
<1>1. TypeOK'
  BY SettingKept DEF Inv, TypeOK, AdjType
<1>2. Counters' /\ ExtraBounded'
  BY SettingKept, ThresholdKept DEF Inv, Counters, ExtraBounded, MaxBitRate, Total, QuoBitRate
<1>3. MetersOK'
  BY MetersWait
<1> QED
  BY <1>1, <1>2, <1>3 DEF Inv

LEMMA IdlKept ==
    ASSUME adj'.use = adj.use, NEW s, NEW e
    PROVE  IdlBitRate(s, e)' = IdlBitRate(s, e)
BY DEF IdlBitRate, QuoBitRate

(***************************************************************************)
(* The loop that grants steps: an overloaded slice below Threshold with its    *)
(* usage and a step that is idle stays below it with the step.                *)
(***************************************************************************)
LEMMA GrowSliceInv ==
    ASSUME Inv, GrowSlice, UNCHANGED setting
    PROVE  Inv'
<1> USE Basics
<1> DEFINE s == At(adj.it)
           overloaded  == IdlBitRate(s, ext) < ExtraStep \div 2 /\ adj.idl >= ExtraStep
           underloaded == IdlBitRate(s, ext) >= 2 * ExtraStep /\ ext[s] >= ExtraStep
           d == IF overloaded THEN ExtraStep ELSE IF underloaded THEN -ExtraStep ELSE 0
<1>1. /\ adj.pc = "grow" /\ adj.it >= 1 /\ UpdateExtBitRate(s, d)
      /\ adj' = [adj EXCEPT !.it = adj.it - 1,
                            !.idl = IF overloaded THEN adj.idl - ExtraStep ELSE adj.idl]
      /\ fault' = IF ExtraOK(s, d) THEN "none" ELSE "Error when updating extra bit rate."
      /\ UNCHANGED <<setting, res, met>>
  BY DEF GrowSlice, GrowthOrder, EnoughIdle, Current, At
<1>2. /\ adj.it \in Pos /\ mode = "DYNA" /\ adj.idl \in Int /\ adj.it \in Int
      /\ adj.idl <= Threshold - Sum(Sharers, adj.use)
      /\ adj.use \in [Slice -> Nat] /\ adj.was \in [SliceAll -> Nat]
      /\ \A i \in Pos : i <= adj.it => ext[At(i)] = adj.was[At(i)]
  <2>1. /\ adj.idl \in Int /\ adj.it \in 0 .. Last + 1
        /\ adj.use \in [Slice -> Nat] /\ adj.was \in [SliceAll -> Nat]
    BY DEF AdjType
  <2>2. /\ adj.it <= Last /\ adj.idl <= Threshold - Sum(Sharers, adj.use)
        /\ \A i \in 1 .. adj.it : ext[At(i)] = adj.was[At(i)]
    BY <1>1 DEF Inv, GrowOK
  <2>3. mode = "DYNA"
    BY <1>1 DEF Inv, MetersOK
  <2>4. \A i \in Pos : i <= adj.it => i \in 1 .. adj.it
    BY <2>1 DEF Pos
  <2>5. adj.it \in Pos /\ adj.it \in Int
    <3>1. Last \in Nat /\ adj.it >= 1 /\ adj.it <= Last
      BY <1>1, <2>2
    <3>2. \A n \in Nat : \A k \in 0 .. n + 1 : (k >= 1 /\ k <= n) => k \in 1 .. n /\ k \in Int
      OBVIOUS
    <3> QED
      BY <2>1, <3>1, <3>2 DEF Pos
  <2> QED
    BY <2>1, <2>2, <2>3, <2>4, <2>5
<1>3. s \in Slice /\ s \in Sharers /\ ext[s] \in Nat
  BY <1>2
<1>4. /\ IdlBitRate(s, ext) \in Nat /\ QuoBitRate(s) \in Nat
      /\ IdlBitRate(s, ext) >= QuoBitRate(s) + ext[s] - adj.use[s]
      /\ adj.use[s] \in Nat /\ adj.use[s] <= Sum(Sharers, adj.use) /\ Sum(Sharers, adj.use) \in Nat
  <2>1. adj.use[s] \in Nat
    BY <1>2, <1>3
  <2> QED
    BY <1>2, <1>3, <2>1, IdlNat, SumNat
<1>5. adj' \in AdjType /\ adj'.pc = "grow" /\ adj'.it = adj.it - 1
      /\ adj'.idl = (IF overloaded THEN adj.idl - ExtraStep ELSE adj.idl)
      /\ adj'.use = adj.use /\ adj'.was = adj.was
  <2>1. adj.it - 1 \in 0 .. Last + 1 /\ ExtraStep \in Int
    BY <1>2, Steps DEF Pos
  <2>2. (IF overloaded THEN adj.idl - ExtraStep ELSE adj.idl) \in Int
    BY <1>2, <2>1
  <2> HIDE DEF overloaded
  <2> QED
    BY <1>1, <2>1, <2>2 DEF AdjType
<1> HIDE DEF s
<1>6. d \in Int /\ ext[s] + d >= 0
  BY <1>3, Steps
<1>7. d > 0 => MaxBitRate(s) + d < Threshold + ExtraStep \div 2
  <2> SUFFICES ASSUME overloaded
               PROVE  QuoBitRate(s) + ext[s] + ExtraStep < Threshold + ExtraStep \div 2
    BY Steps, <1>3, <1>4 DEF MaxBitRate
  <2> QED
    BY <1>2, <1>3, <1>4, Steps, ThresholdInt
<1>8. /\ TypeOK' /\ fault' = "none" /\ Counters' /\ MetersOK' /\ ExtraBounded'
      /\ ext'[s] = ext[s] + d /\ \A t \in Slice : t # s => ext'[t] = ext[t]
  <2> HIDE DEF d
  <2> QED
    BY <1>1, <1>2, <1>3, <1>5, <1>6, <1>7, ExtStep
<1>9. \A i \in Pos : i # adj.it => At(i) \in Slice /\ ext'[At(i)] = ext[At(i)]
  <2>1. \A i \in Pos : i # adj.it => At(i) \in Slice /\ At(i) # s
    <3>1. \A i \in Pos : i \in Int
      BY DEF Pos
    <3> QED
      BY <1>2, <3>1 DEF s
  <2> HIDE DEF d
  <2> QED
    BY <1>8, <2>1
<1>10. GrowOK'
  <2>1. adj'.it <= Last /\ adj'.idl <= Threshold - Sum(Sharers, adj.use)
    BY <1>2, <1>4, <1>5, Steps, ThresholdInt DEF Pos
  <2>2. \A i \in 1 .. adj'.it : ext'[At(i)] = adj.was[At(i)]
    <3>1. \A i \in 1 .. adj'.it : i \in Pos /\ i # adj.it /\ i <= adj.it
      BY <1>2, <1>5 DEF Pos
    <3> QED
      BY <1>2, <1>9, <3>1
  <2>3. ASSUME NEW i \in Pos, i > adj'.it, Overloaded(i, adj.was)
        PROVE  \/ ext'[At(i)] > adj.was[At(i)]
               \/ /\ adj'.idl < ExtraStep
                  /\ \A j \in Pos : j < i => ext'[At(j)] <= adj.was[At(j)]
    <3>1. CASE i = adj.it
      <4>1. ext[s] = adj.was[s]
        BY <1>2 DEF s
      <4>2. IdlBitRate(s, ext) < ExtraStep \div 2
        BY <2>3, <3>1, <4>1 DEF Overloaded, IdlBitRate, s
      <4>3. CASE adj.idl >= ExtraStep
        BY <1>3, <1>8, <3>1, <4>1, <4>2, <4>3, Steps DEF s
      <4>4. CASE adj.idl < ExtraStep
        <5>1. adj'.idl < ExtraStep
          BY <1>5, <4>4, Steps, <1>2
        <5>2. \A j \in Pos : j < i => j # adj.it /\ ext[At(j)] = adj.was[At(j)]
          <6>1. \A j \in Pos : j \in Int
            BY DEF Pos
          <6> QED
            BY <1>2, <3>1, <6>1
        <5>3. \A j \in Pos : At(j) \in Slice /\ ext[At(j)] \in Nat
          OBVIOUS
        <5> QED
          BY <1>9, <5>1, <5>2, <5>3
      <4> QED
        BY <1>2, <4>3, <4>4, Steps
    <3>2. CASE i # adj.it
      <4>1. i > adj.it
        <5>1. i \in Int /\ adj.it \in Int /\ i > adj.it - 1
          BY <1>2, <1>5, <2>3 DEF Pos
        <5> QED
          BY <3>2, <5>1
      <4>2. \/ ext[At(i)] > adj.was[At(i)]
            \/ /\ adj.idl < ExtraStep
               /\ \A j \in Pos : j < i => ext[At(j)] <= adj.was[At(j)]
        BY <1>1, <2>3, <4>1 DEF Inv, GrowOK
      <4>3. CASE adj.idl < ExtraStep /\ \A j \in Pos : j < i => ext[At(j)] <= adj.was[At(j)]
        <5>1. adj'.idl = adj.idl /\ ext'[s] <= ext[s]
          BY <1>2, <1>3, <1>5, <1>8, <4>3, Steps
        <5>2. \A j \in Pos : ext'[At(j)] <= ext[At(j)]
          BY <1>9, <5>1 DEF s
        <5>3. \A j \in Pos : ext[At(j)] \in Nat /\ ext'[At(j)] \in Nat /\ adj.was[At(j)] \in Nat
          BY <1>2, <1>8 DEF TypeOK, SliceAll
        <5> QED
          BY <4>3, <5>1, <5>2, <5>3
      <4>4. CASE ext[At(i)] > adj.was[At(i)]
        BY <1>9, <3>2, <4>4
      <4> QED
        BY <4>2, <4>3, <4>4
    <3> QED
      BY <3>1, <3>2
  <2>4. Last' = Last /\ Pos' = Pos /\ Sharers' = Sharers /\ Threshold' = Threshold
        /\ \A i : At(i)' = At(i)
    BY <1>1, SettingKept, ThresholdKept
  <2>5. \A i : Overloaded(i, adj.was)' <=> Overloaded(i, adj.was)
    BY <1>1, <1>5, SettingKept DEF Overloaded, IdlBitRate, QuoBitRate
  <2> QED
    BY <1>5, <2>1, <2>2, <2>3, <2>4, <2>5 DEF GrowOK
<1>11. TrimOK' /\ CutOK' /\ ResultOK'
  BY <1>5 DEF TrimOK, CutOK, ResultOK
<1> QED
  BY <1>8, <1>10, <1>11 DEF Inv

(***************************************************************************)
(* The lower of two priorities has been granted nothing that an overloaded    *)
(* slice of the higher one lacks.                                            *)
(***************************************************************************)
LEMMA GrowDoneInv ==
    ASSUME Inv, GrowDone, UNCHANGED setting
    PROVE  Inv'
<1> USE Basics
<1>1. /\ adj.pc = "grow" /\ adj.it < 1 /\ adj' = [adj EXCEPT !.pc = "meters"]
      /\ UNCHANGED <<setting, res, ext, met, fault>>
  BY DEF GrowDone
<1>2. /\ adj' \in AdjType /\ adj'.pc = "meters" /\ adj'.it = 0 /\ adj.it = 0
      /\ adj'.use = adj.use /\ adj'.was = adj.was /\ mode = "DYNA"
  BY <1>1 DEF AdjType, Inv, MetersOK
<1>3. TypeOK' /\ fault' = "none" /\ Counters' /\ MetersOK' /\ ExtraBounded'
  BY <1>1, <1>2, SameExtStep
<1>4. ASSUME NEW p \in Pair, Priority[p[1]] < Priority[p[2]],
             ext[p[1]] > adj.was[p[1]], IdlBitRate(p[2], adj.was) < ExtraStep \div 2
      PROVE  ext[p[2]] > adj.was[p[2]]
  <2>1. p[1] \in Sharers /\ p[2] \in Sharers
    BY DEF Pair, Sharers
  <2>2. PICK j \in Pos, i \in Pos : p[1] = At(j) /\ p[2] = At(i)
    BY <2>1, SharingOK
  <2>3. j < i
    <3>1. j \in Int /\ i \in Int /\ Prio(j) < Prio(i)
      BY <1>4, <2>2 DEF Pos, Prio, At
    <3> QED
      BY <3>1
  <2>4. i > adj.it /\ Overloaded(i, adj.was)
    BY <1>2, <1>4, <2>2 DEF Overloaded, Pos
  <2>5. adj.was[At(j)] \in Nat /\ ext[At(j)] \in Nat
    BY DEF AdjType, SliceAll
  <2> QED
    BY <1>1, <1>4, <2>2, <2>3, <2>4, <2>5 DEF Inv, GrowOK
<1>5. HigherPriorityFirst'
  <2>1. Pair' = Pair
    BY <1>1, SettingKept DEF Pair
  <2>2. \A s, e : IdlBitRate(s, e)' = IdlBitRate(s, e)
    BY <1>2, IdlKept
  <2>3. \A p \in Pair : IdlBitRate(p[2], adj.was)' = IdlBitRate(p[2], adj.was)
    BY <1>2 DEF IdlBitRate, QuoBitRate
  <2> QED
    BY <1>1, <1>2, <1>4, <2>1, <2>3 DEF HigherPriorityFirst
<1>6. CutInOrder' /\ CongestionRelieved'
  BY <1>2 DEF CutInOrder, CongestionRelieved
<1>7. GrowOK' /\ TrimOK' /\ CutOK'
  BY <1>2 DEF GrowOK, TrimOK, CutOK
<1> QED
  BY <1>3, <1>5, <1>6, <1>7 DEF Inv, ResultOK

(* What adj holds in the two loops that begin at the first slice. *)
LEMMA TrimFields ==
    ASSUME Inv, adj.pc = "trim"
    PROVE  /\ adj.it \in Int /\ adj.it >= 1 /\ adj.it <= Last + 1
           /\ adj.use \in [Slice -> Nat] /\ adj.idl \in Int /\ adj.sp = 1 /\ ~adj.removed
           /\ adj.idl <= Threshold - Sum(Sharers, adj.use) /\ mode = "DYNA"
           /\ \A i \in Pos : i < adj.it => ~HasUnusedExtra(At(i))
<1>1. adj \in AdjType /\ Last \in Nat
  BY Basics
<1>2. /\ adj.it \in 0 .. Last + 1 /\ adj.use \in [Slice -> Nat] /\ adj.idl \in Int
  BY <1>1 DEF AdjType
<1>3. mode = "DYNA"
  BY DEF Inv, MetersOK
<1>4. /\ adj.it >= 1 /\ adj.sp = 1 /\ ~adj.removed
      /\ adj.idl <= Threshold - Sum(Sharers, adj.use)
      /\ \A i \in Pos : i < adj.it => ~HasUnusedExtra(At(i))
  BY DEF Inv, TrimOK
<1> QED
  BY <1>1, <1>2, <1>3, <1>4

LEMMA TrimSliceInv ==
    ASSUME Inv, TrimSlice, UNCHANGED setting
    PROVE  Inv'
<1> USE Basics
<1> DEFINE s == At(adj.it)
<1>1. adj.pc = "trim" /\ adj.it <= Last /\ UNCHANGED <<setting, res, met>>
  BY DEF TrimSlice
<1>2. \/ /\ HasUnusedExtra(s) /\ UpdateExtBitRate(s, -ExtraStep) /\ adj' = adj
         /\ ExtraOK(s, -ExtraStep) => fault' = "none"
      \/ /\ ~HasUnusedExtra(s) /\ adj' = [adj EXCEPT !.it = adj.it + 1]
         /\ UNCHANGED <<ext, fault>>
  BY DEF TrimSlice, Current, At
<1>3. adj.it \in Pos /\ s \in Slice /\ s \in Sharers /\ ext[s] \in Nat
  <2>1. adj.it \in Pos
    BY <1>1, TrimFields DEF Pos
  <2> QED
    BY <2>1
<1>4. \A i \in Pos : i \in Int /\ (i < adj.it => At(i) # s)
  BY <1>3 DEF Pos
<1> HIDE DEF s
<1>5. CASE /\ HasUnusedExtra(s) /\ UpdateExtBitRate(s, -ExtraStep) /\ adj' = adj
           /\ ExtraOK(s, -ExtraStep) => fault' = "none"
  <2>1. ext[s] + (-ExtraStep) >= 0 /\ -ExtraStep \in Int /\ ~(-ExtraStep > 0)
    BY <1>3, <1>5, Steps DEF HasUnusedExtra
  <2>2. adj' \in AdjType /\ adj'.pc = "trim" /\ mode = "DYNA"
    BY <1>1, <1>5, TrimFields
  <2>3. /\ TypeOK' /\ fault' = "none" /\ Counters' /\ MetersOK' /\ ExtraBounded'
        /\ \A t \in Slice : t # s => ext'[t] = ext[t]
    BY <1>1, <1>3, <1>5, <2>1, <2>2, ExtStep
  <2>4. TrimOK'
    <3>1. \A i \in Pos : i < adj.it => ~HasUnusedExtra(At(i))'
      <4> SUFFICES ASSUME NEW i \in Pos, i < adj.it PROVE ~HasUnusedExtra(At(i))'
        OBVIOUS
      <4>1. ext'[At(i)] = ext[At(i)] /\ At(i)' = At(i)
        BY <1>1, <1>4, <2>3, SettingKept
      <4>2. ~HasUnusedExtra(At(i))
        BY <1>1, TrimFields
      <4> QED
        BY <1>5, <4>1, <4>2 DEF HasUnusedExtra, IdlBitRate, QuoBitRate
    <3> QED
      BY <1>1, <1>5, <3>1, TrimFields, SettingKept, ThresholdKept DEF TrimOK
  <2>5. GrowOK' /\ CutOK' /\ ResultOK'
    BY <2>2 DEF GrowOK, CutOK, ResultOK
  <2> QED
    BY <2>3, <2>4, <2>5 DEF Inv
<1>6. CASE /\ ~HasUnusedExtra(s) /\ adj' = [adj EXCEPT !.it = adj.it + 1]
           /\ UNCHANGED <<ext, fault>>
  <2>1. adj' \in AdjType
    <3>1. adj.it + 1 \in 0 .. Last + 1
      BY <1>1, TrimFields
    <3> QED
      BY <1>6, <3>1 DEF AdjType
  <2>2. /\ adj'.pc = "trim" /\ adj'.it = adj.it + 1 /\ adj'.use = adj.use /\ adj'.idl = adj.idl
        /\ adj'.sp = adj.sp /\ adj'.removed = adj.removed
    BY <1>1, <1>6 DEF AdjType
  <2>3. TypeOK' /\ fault' = "none" /\ Counters' /\ MetersOK' /\ ExtraBounded'
    BY <1>1, <1>6, <2>1, <2>2, SameExtStep, TrimFields
  <2>4. TrimOK'
    <3>1. \A i \in Pos : i < adj.it + 1 => ~HasUnusedExtra(At(i))'
      <4> SUFFICES ASSUME NEW i \in Pos, i < adj.it + 1 PROVE ~HasUnusedExtra(At(i))'
        OBVIOUS
      <4>1. ~HasUnusedExtra(At(i))
        <5>1. i = adj.it \/ i < adj.it
          BY <1>1, <1>4, TrimFields
        <5> QED
          BY <1>1, <1>6, <5>1, TrimFields DEF s
      <4>2. At(i)' = At(i)
        BY <1>1, SettingKept
      <4> QED
        BY <1>6, <2>2, <4>1, <4>2 DEF HasUnusedExtra, IdlBitRate, QuoBitRate
    <3>2. adj'.it >= 1
      BY <1>1, <2>2, TrimFields
    <3> QED
      BY <1>1, <2>2, <3>1, <3>2, TrimFields, SettingKept, ThresholdKept DEF TrimOK
  <2>5. GrowOK' /\ CutOK' /\ ResultOK'
    BY <2>2 DEF GrowOK, CutOK, ResultOK
  <2> QED
    BY <2>3, <2>4, <2>5 DEF Inv
<1> QED
  BY <1>2, <1>5, <1>6

LEMMA StillUsedNat ==
    ASSUME ext \in [SliceAll -> Nat], adj.use \in [Slice -> Nat]
    PROVE  /\ StillUsed \in [Slice -> Nat]
           /\ \A s \in Slice : StillUsed[s] <= adj.use[s]
<1>1. \A s \in Slice : QuoBitRate(s) \in Nat /\ ext[s] \in Nat
  BY QuotaNat DEF SliceAll
<1> QED
  BY <1>1 DEF StillUsed, MaxBitRate

LEMMA TrimDoneInv ==
    ASSUME Inv, TrimDone, UNCHANGED setting
    PROVE  Inv'
<1> USE Basics
<1>1. /\ adj.pc = "trim" /\ adj.it > Last
      /\ adj' = [adj EXCEPT !.pc = "cut", !.it = 1, !.was = ext]
      /\ UNCHANGED <<setting, res, ext, met, fault>>
  BY DEF TrimDone
<1>2. adj' \in AdjType
  <2>1. 1 \in 0 .. Last + 1 /\ Last \in Nat /\ adj \in AdjType /\ ext \in [SliceAll -> Nat]
    OBVIOUS
  <2> QED
    BY ONLY <1>1, <2>1 DEF AdjType
<1>3. /\ adj'.pc = "cut" /\ adj'.it = 1 /\ adj'.sp = 1 /\ ~adj'.removed
      /\ adj'.was = ext /\ adj'.use = adj.use /\ adj'.idl = adj.idl
  BY <1>1, TrimFields DEF AdjType
<1>4. TypeOK' /\ fault' = "none" /\ Counters' /\ MetersOK' /\ ExtraBounded'
  BY <1>1, <1>2, <1>3, SameExtStep, TrimFields
<1>5. /\ Last' = Last /\ Pos' = Pos /\ Sharers' = Sharers /\ Threshold' = Threshold
      /\ \A i : At(i)' = At(i) /\ Prio(i)' = Prio(i)
  BY <1>1, SettingKept, ThresholdKept
<1>6. \A i \in Pos : i \in Int /\ i >= 1
  BY DEF Pos
<1>7. PlaceOK'
  BY <1>3, <1>5, <1>6 DEF PlaceOK
<1>8. \A s \in Slice : Lost(s)' = 0
  BY <1>1, <1>3 DEF Lost
<1>9. OrderOK'
  BY <1>3, <1>5, <1>6, <1>8 DEF OrderOK
<1>10. TurnsOK'
  <2>1. \A i, j \in Pos : Ahead(adj'.it, i, j) = 0
    BY <1>3, <1>6 DEF Ahead
  <2> QED
    BY <1>3, <1>5, <1>8, <2>1 DEF TurnsOK, Ahead
<1>11. (adj.idl <= Threshold - Sum(Sharers, StillUsed))'
  <2>1. StillUsed' = StillUsed
    BY <1>1, <1>3 DEF StillUsed, MaxBitRate, QuoBitRate
  <2>2. /\ Sum(Sharers, StillUsed) <= Sum(Sharers, adj.use)
        /\ Sum(Sharers, StillUsed) \in Int /\ Sum(Sharers, adj.use) \in Int
    <3>1. adj.use \in [Slice -> Nat] /\ StillUsed \in [Slice -> Nat]
      BY <1>1, TrimFields, StillUsedNat
    <3>2. adj.use \in [Slice -> Int] /\ StillUsed \in [Slice -> Int]
      BY <3>1
    <3> QED
      BY <1>1, <3>2, SumLess, SumInt, StillUsedNat, TrimFields
  <2>3. adj.idl <= Threshold - Sum(Sharers, adj.use) /\ adj.idl \in Int /\ Threshold \in Int
    BY <1>1, TrimFields, ThresholdInt
  <2>4. adj.idl <= Threshold - Sum(Sharers, StillUsed)
    BY <2>2, <2>3
  <2> QED
    BY <1>3, <1>5, <2>1, <2>4
<1>12. \A i \in Pos : ~HasUnusedExtra(At(i))'
  <2> SUFFICES ASSUME NEW i \in Pos PROVE ~HasUnusedExtra(At(i))'
    OBVIOUS
  <2>1. ~HasUnusedExtra(At(i))
    <3>1. i < adj.it
      BY <1>1, TrimFields DEF Pos
    <3> QED
      BY <1>1, <3>1, TrimFields
  <2> QED
    BY <1>1, <1>3, <1>5, <2>1 DEF HasUnusedExtra, IdlBitRate, QuoBitRate
<1>13. CutOK'
  BY <1>5, <1>7, <1>9, <1>10, <1>11, <1>12 DEF CutOK
<1>14. GrowOK' /\ TrimOK' /\ ResultOK'
  BY <1>3 DEF GrowOK, TrimOK, ResultOK
<1> QED
  BY <1>4, <1>13, <1>14 DEF Inv

(* What adj holds in the loop that cuts. *)
LEMMA CutFields ==
    ASSUME Inv, adj.pc = "cut"
    PROVE  /\ adj.it \in Int /\ adj.it >= 1 /\ adj.it <= Last + 1 /\ adj.sp \in Int /\ adj.sp >= 1
           /\ adj.use \in [Slice -> Nat] /\ adj.idl \in Int /\ adj.removed \in BOOLEAN
           /\ adj.was \in [SliceAll -> Nat] /\ mode = "DYNA"
           /\ adj.idl <= Threshold - Sum(Sharers, StillUsed)
           /\ PlaceOK /\ OrderOK /\ TurnsOK
           /\ \A i \in Pos : ~HasUnusedExtra(At(i))
<1>1. adj \in AdjType /\ Last \in Nat
  BY Basics
<1>2. /\ adj.it \in 0 .. Last + 1 /\ adj.sp \in 1 .. Last + 1 /\ adj.use \in [Slice -> Nat]
      /\ adj.idl \in Int /\ adj.removed \in BOOLEAN /\ adj.was \in [SliceAll -> Nat]
  BY <1>1 DEF AdjType
<1>3. mode = "DYNA"
  BY DEF Inv, MetersOK
<1>4. /\ PlaceOK /\ OrderOK /\ TurnsOK
      /\ adj.idl <= Threshold - Sum(Sharers, StillUsed)
      /\ \A i \in Pos : ~HasUnusedExtra(At(i))
  BY DEF Inv, CutOK
<1>5. adj.it >= 1
  BY <1>4 DEF PlaceOK
<1> QED
  BY <1>1, <1>2, <1>3, <1>4, <1>5

(***************************************************************************)
(* CutSlice takes a step from slice At(k), where k is the loop's position, or  *)
(* nothing, and goes to next or back to sp.                                  *)
(***************************************************************************)
LEMMA CutSliceSteps ==
    ASSUME Inv, CutSlice, UNCHANGED setting,
           NEW k, k = adj.it, NEW s, s = At(k), NEW cuts \in BOOLEAN, cuts <=> ext[s] >= ExtraStep,
           NEW d, d = IF cuts THEN -ExtraStep ELSE 0,
           NEW sp, sp = IF Prio(k) > Prio(adj.sp) THEN k ELSE adj.sp,
           NEW flag \in BOOLEAN, flag <=> adj.removed \/ cuts
    PROVE  /\ k \in Pos /\ s \in Slice /\ s \in Sharers /\ adj.pc = "cut"
           /\ UpdateExtBitRate(s, d)
           /\ UNCHANGED <<setting, res, met>>
           /\ adj'.pc = "cut" /\ adj'.use = adj.use /\ adj'.was = adj.was /\ adj'.sp = sp
           /\ adj'.idl = IF cuts THEN adj.idl + Recovered(s) ELSE adj.idl
           /\ \/ /\ ~flag \/ (k < Last /\ Prio(k + 1) = Prio(k))
                 /\ adj'.it = k + 1 /\ (adj'.removed <=> flag)
              \/ /\ flag /\ (k = Last \/ Prio(k + 1) # Prio(k))
                 /\ adj'.it = sp /\ ~adj'.removed
           /\ adj' \in AdjType
           /\ sp \in Pos /\ sp <= k /\ Prio(sp) = Prio(k)
           /\ \A i \in Pos : i < sp => Prio(i) < Prio(k)
           /\ \A i \in Pos : (i >= sp /\ i <= k) => Prio(i) = Prio(k)
           /\ ExtraOK(s, d) => fault' = "none"
<1>1. adj.pc = "cut" /\ adj.it <= Last
  BY DEF CutSlice
<1>2. /\ k \in Pos /\ k \in Int /\ Last \in Nat /\ adj.sp \in Pos /\ adj.sp \in Int /\ adj.sp <= k
      /\ adj.removed => Prio(k) = Prio(adj.sp)
      /\ \A i \in Pos : i < adj.sp => Prio(i) < Prio(adj.sp)
      /\ \A i \in Pos : (i >= adj.sp /\ i < k) => Prio(i) = Prio(adj.sp)
  <2>1. adj.it >= 1 /\ adj.it \in Int /\ adj.sp \in Int /\ adj.sp >= 1 /\ PlaceOK /\ Last \in Nat
    BY <1>1, CutFields, Basics
  <2>2. adj.sp <= Last
    BY <1>1, <2>1 DEF PlaceOK
  <2> QED
    BY <1>1, <2>1, <2>2 DEF PlaceOK, Pos
<1>3. /\ s \in Slice /\ s \in Sharers /\ ext[s] \in Nat
      /\ \A i \in Pos : i \in Int /\ Prio(i) \in Int
      /\ \A i, j \in Pos : i < j => Prio(i) <= Prio(j)
  BY <1>2, Basics DEF Pos
<1>4. /\ sp \in Pos /\ sp <= k /\ Prio(sp) = Prio(k) /\ sp \in Int
      /\ \A i \in Pos : i < sp => Prio(i) < Prio(k)
      /\ \A i \in Pos : (i >= sp /\ i <= k) => Prio(i) = Prio(k)
  <2>1. CASE Prio(k) > Prio(adj.sp)
    <3>1. \A i \in Pos : i < k => Prio(i) < Prio(k)
      BY <1>2, <1>3, <2>1
    <3> QED
      BY <1>2, <1>3, <2>1, <3>1
  <2>2. CASE ~(Prio(k) > Prio(adj.sp))
    <3>1. Prio(adj.sp) = Prio(k)
      BY <1>2, <1>3, <2>2
    <3> QED
      BY <1>2, <1>3, <2>2, <3>1
  <2> QED
    BY <2>1, <2>2
<1>5. cuts \in BOOLEAN /\ flag \in BOOLEAN /\ adj.removed \in BOOLEAN /\ adj.idl \in Int
  BY <1>1, CutFields
<1>6. ASSUME cuts
      PROVE  IdlBitRate(s, ext) < ExtraStep /\ Recovered(s) \in Int
  <2>1. ~HasUnusedExtra(s)
    BY <1>1, <1>2, CutFields
  <2>2. IdlBitRate(s, ext) \in Nat
    BY <1>1, <1>3, CutFields, IdlNat, Basics
  <2>3. ext[s] >= ExtraStep
    BY <1>6
  <2>4. IdlBitRate(s, ext) < ExtraStep
    BY <2>1, <2>2, <2>3, Steps DEF HasUnusedExtra
  <2> QED
    BY <2>2, <2>4, Steps DEF Recovered
<1>7. flag = (adj.removed \/ cuts) /\ cuts = (ext[s] >= ExtraStep)
  BY <1>5
<1>8. LET next == NextSlice(sp, flag)
      IN /\ UpdateExtBitRate(s, d)
         /\ adj' = [adj EXCEPT !.sp = sp, !.it = next.it, !.removed = next.removed,
                               !.idl = IF cuts THEN adj.idl + Recovered(s) ELSE adj.idl]
         /\ UNCHANGED <<setting, res, met>>
  BY <1>7 DEF CutSlice, Current, At, Prio
<1>9. \/ /\ ~flag \/ (k < Last /\ Prio(k + 1) = Prio(k))
         /\ NextSlice(sp, flag) = [it |-> k + 1, removed |-> flag]
      \/ /\ flag /\ (k = Last \/ Prio(k + 1) # Prio(k))
         /\ NextSlice(sp, flag) = [it |-> sp, removed |-> FALSE]
  BY <1>1, <1>2, <1>5 DEF NextSlice, Current, Prio
<1>10. PICK n, f : /\ NextSlice(sp, flag) = [it |-> n, removed |-> f]
                  /\ \/ /\ ~flag \/ (k < Last /\ Prio(k + 1) = Prio(k))
                        /\ n = k + 1 /\ f = flag
                     \/ /\ flag /\ (k = Last \/ Prio(k + 1) # Prio(k))
                        /\ n = sp /\ f = FALSE
  BY <1>9
<1>11. n \in 0 .. Last + 1 /\ f \in BOOLEAN /\ sp \in 1 .. Last + 1
  <2>1. f \in BOOLEAN
    BY <1>5, <1>10
  <2>2. k \in 1 .. Last /\ sp \in 1 .. Last /\ Last \in Nat
    BY <1>2, <1>4 DEF Pos
  <2>3. n = k + 1 \/ n = sp
    BY <1>10
  <2> QED
    BY ONLY <2>1, <2>2, <2>3
<1>12. PICK idl \in Int : idl = IF cuts THEN adj.idl + Recovered(s) ELSE adj.idl
  BY <1>5, <1>6
<1>13. adj' = [adj EXCEPT !.sp = sp, !.it = n, !.removed = f, !.idl = idl]
  <2>1. NextSlice(sp, flag).it = n /\ NextSlice(sp, flag).removed = f
    BY <1>10
  <2> QED
    BY <1>8, <1>12, <2>1
<1>14. /\ adj' \in AdjType /\ adj'.pc = adj.pc /\ adj'.use = adj.use /\ adj'.was = adj.was
       /\ adj'.sp = sp /\ adj'.it = n /\ adj'.removed = f /\ adj'.idl = idl
  <2>1. adj \in AdjType
    BY Basics
  <2> QED
    BY ONLY <1>11, <1>13, <2>1, idl \in Int DEF AdjType
<1>15. ExtraOK(s, d) => fault' = "none"
  <2>1. ~(Prio(k) > Prio(adj.sp) /\ adj.removed)
    BY <1>2, <1>3
  <2>2. ~(cuts /\ IdlBitRate(s, ext) >= ExtraStep)
    <3>1. cuts => IdlBitRate(s, ext) \in Nat
      BY <1>1, <1>3, CutFields, IdlNat, Basics
    <3> QED
      BY <1>6, <3>1, Steps
  <2>3. fault' = IF Prio(k) > Prio(adj.sp) /\ adj.removed THEN "Inconsistent removed flag."
                 ELSE IF cuts /\ IdlBitRate(s, ext) >= ExtraStep
                 THEN "Inconsistent bit rate."
                 ELSE IF cuts /\ ~ExtraOK(s, -ExtraStep)
                 THEN "Error when updating extra bit rate." ELSE "none"
    BY <1>7 DEF CutSlice, Current, At, Prio
  <2> QED
    BY <2>1, <2>2, <2>3
<1> QED
  BY <1>1, <1>2, <1>3, <1>4, <1>8, <1>10, <1>12, <1>14, <1>15

(***************************************************************************)
(* A slice that loses a step may use less by just what Recovered says.        *)
(***************************************************************************)
LEMMA StillUsedCut ==
    ASSUME Inv, adj.pc = "cut", NEW s \in Slice, s \in Sharers, NEW d \in {0, -ExtraStep},
           d # 0 => ext[s] >= ExtraStep /\ IdlBitRate(s, ext) < ExtraStep,
           ext' \in [SliceAll -> Nat], ext'[s] = ext[s] + d,
           \A t \in Slice : t # s => ext'[t] = ext[t],
           adj'.use = adj.use, Sharers' = Sharers
    PROVE  Sum(Sharers, StillUsed)' =
               IF d = 0 THEN Sum(Sharers, StillUsed) ELSE Sum(Sharers, StillUsed) - Recovered(s)
<1>1. /\ adj.use \in [Slice -> Nat] /\ ext \in [SliceAll -> Nat]
  BY CutFields, Basics
<1>2. StillUsed \in [Slice -> Nat]
  BY <1>1, StillUsedNat
<1>3. StillUsed' \in [Slice -> Nat]
  <2>1. \A t \in Slice : ext'[t] \in Nat /\ QuoBitRate(t) \in Nat
    BY QuotaNat DEF SliceAll
  <2> QED
    BY <1>1, <2>1 DEF StillUsed, MaxBitRate, QuoBitRate
<1>4. \A t \in Slice : t # s => StillUsed'[t] = StillUsed[t]
  BY DEF StillUsed, MaxBitRate, QuoBitRate
<1>5. CASE d = 0
  <2>1. StillUsed'[s] = StillUsed[s]
    BY <1>1, <1>5, Basics DEF StillUsed, MaxBitRate, QuoBitRate
  <2>2. StillUsed' = StillUsed
    BY <1>2, <1>3, <1>4, <2>1
  <2> QED
    BY <1>5, <2>2
<1>6. CASE d # 0
  <2>1. /\ d = -ExtraStep /\ ext[s] >= ExtraStep /\ IdlBitRate(s, ext) < ExtraStep
        /\ adj.use[s] \in Nat /\ QuoBitRate(s) \in Nat /\ ext[s] \in Nat
        /\ ext'[s] = ext[s] - ExtraStep
    BY <1>1, <1>6, QuotaNat, Steps DEF SliceAll
  <2>2. Recovered(s) \in Int /\ StillUsed'[s] = StillUsed[s] - Recovered(s)
    <3>1. /\ StillUsed[s] = IF adj.use[s] < QuoBitRate(s) + ext[s]
                             THEN adj.use[s] ELSE QuoBitRate(s) + ext[s]
          /\ StillUsed'[s] = IF adj.use[s] < QuoBitRate(s) + ext'[s]
                              THEN adj.use[s] ELSE QuoBitRate(s) + ext'[s]
      BY DEF StillUsed, MaxBitRate, QuoBitRate
    <3>2. /\ IdlBitRate(s, ext) = IF QuoBitRate(s) + ext[s] - adj.use[s] > 0
                                  THEN QuoBitRate(s) + ext[s] - adj.use[s] ELSE 0
          /\ Recovered(s) = ExtraStep - IdlBitRate(s, ext)
      BY DEF IdlBitRate, Recovered
    <3> QED
      BY <2>1, <3>1, <3>2, Steps
  <2>3. StillUsed \in [Slice -> Int] /\ StillUsed' \in [Slice -> Int]
    BY <1>2, <1>3
  <2>4. PICK r \in Int : r = Recovered(s)
    BY <2>2
  <2>5. StillUsed'[s] = StillUsed[s] + (-r) /\ -r \in Int
    BY <1>2, <2>2, <2>3, <2>4
  <2>6. PICK f \in [Slice -> Int], g \in [Slice -> Int] : f = StillUsed /\ g = StillUsed'
    BY <2>3
  <2>7. Sum(Sharers, g) = Sum(Sharers, f) + (-r)
    BY <1>4, <2>5, <2>6, SumChange
  <2>8. Sum(Sharers, f) \in Int
    BY SumInt
  <2>9. Sum(Sharers, g) = Sum(Sharers, f) - r
    BY <2>7, <2>8
  <2> QED
    BY <1>6, <2>4, <2>6, <2>9 DEF Sum
<1> QED
  BY <1>5, <1>6

LEMMA CutSliceInv ==
    ASSUME Inv, CutSlice, UNCHANGED setting
    PROVE  Inv'
<1>0. PICK k, s, sp : /\ k = adj.it /\ s = At(k)
                      /\ sp = IF Prio(k) > Prio(adj.sp) THEN k ELSE adj.sp
  OBVIOUS
<1>a. PICK cuts \in BOOLEAN : cuts <=> ext[s] >= ExtraStep
  OBVIOUS
<1>b. PICK flag \in BOOLEAN : flag <=> adj.removed \/ cuts
  OBVIOUS
<1>1. /\ k = adj.it /\ s = At(k) /\ (cuts <=> ext[s] >= ExtraStep)
      /\ sp = IF Prio(k) > Prio(adj.sp) THEN k ELSE adj.sp
      /\ (flag <=> adj.removed \/ cuts)
  BY <1>0, <1>a, <1>b
<1>2. PICK d : d = IF cuts THEN -ExtraStep ELSE 0
  OBVIOUS
<1>3. /\ k \in Pos /\ s \in Slice /\ s \in Sharers /\ adj.pc = "cut"
      /\ UpdateExtBitRate(s, d) /\ UNCHANGED <<setting, res, met>>
      /\ adj'.pc = "cut" /\ adj'.use = adj.use /\ adj'.was = adj.was /\ adj'.sp = sp
      /\ adj'.idl = IF cuts THEN adj.idl + Recovered(s) ELSE adj.idl
      /\ \/ /\ ~flag \/ (k < Last /\ Prio(k + 1) = Prio(k))
            /\ adj'.it = k + 1 /\ (adj'.removed <=> flag)
         \/ /\ flag /\ (k = Last \/ Prio(k + 1) # Prio(k))
            /\ adj'.it = sp /\ ~adj'.removed
      /\ adj' \in AdjType
      /\ sp \in Pos /\ sp <= k /\ Prio(sp) = Prio(k)
      /\ \A i \in Pos : i < sp => Prio(i) < Prio(k)
      /\ \A i \in Pos : (i >= sp /\ i <= k) => Prio(i) = Prio(k)
      /\ ExtraOK(s, d) => fault' = "none"
  BY <1>1, <1>2, CutSliceSteps
<1>4. /\ Last \in Nat /\ mode = "DYNA" /\ k \in Int /\ sp \in Int
      /\ \A i \in Pos : i \in Int /\ i >= 1 /\ i <= Last /\ Prio(i) \in Int /\ At(i) \in Slice
      /\ \A i, j \in Pos : i < j => Prio(i) <= Prio(j) /\ At(i) # At(j)
      /\ \A t \in Slice : ext[t] \in Nat
      /\ PlaceOK /\ OrderOK /\ TurnsOK
  BY <1>3, CutFields, Basics DEF Pos
<1>5. d \in Int /\ d \in {0, -ExtraStep} /\ ext[s] + d >= 0 /\ ~(d > 0) /\ (d # 0 <=> cuts)
  <2>1. ext[s] \in Nat
    BY <1>3, <1>4
  <2>2. CASE cuts
    BY <1>1, <1>2, <2>1, <2>2, Steps
  <2>3. CASE ~cuts
    BY <1>2, <2>1, <2>3, Steps
  <2> QED
    BY <2>2, <2>3
<1>6. /\ TypeOK' /\ fault' = "none" /\ Counters' /\ MetersOK' /\ ExtraBounded'
      /\ ext'[s] = ext[s] + d /\ \A t \in Slice : t # s => ext'[t] = ext[t]
  BY <1>3, <1>4, <1>5, ExtStep
<1>7. \A i \in Pos : i # k => At(i) # s
  BY <1>1, <1>3, <1>4
<1>8. /\ Last' = Last /\ Pos' = Pos /\ Sharers' = Sharers /\ Threshold' = Threshold
      /\ \A i : At(i)' = At(i) /\ Prio(i)' = Prio(i)
  BY <1>3, SettingKept, ThresholdKept
(* Before the loop's slice only slices of its own priority have a step left. *)
<1>9. ASSUME NEW i \in Pos, i < k, ~flag \/ Prio(i) < Prio(k)
      PROVE  ext[At(i)] < ExtraStep
  <2>1. ~adj.removed \/ Prio(i) < Prio(adj.sp)
    <3>1. CASE Prio(k) > Prio(adj.sp)
      <4>1. ~adj.removed
        BY <1>1, <1>4, <3>1, CutFields, <1>3 DEF PlaceOK
      <4> QED
        BY <4>1
    <3>2. CASE ~(Prio(k) > Prio(adj.sp))
      <4>1. sp = adj.sp
        BY <1>1, <3>2
      <4> QED
        BY <1>1, <1>3, <1>9, <4>1
    <3> QED
      BY <3>1, <3>2
  <2> QED
    BY <1>1, <1>4, <1>9, <2>1 DEF OrderOK
<1>10. PlaceOK'
  <2>1. /\ adj'.it >= 1 /\ sp <= adj'.it /\ sp <= Last
        /\ \A i \in Pos : (i >= sp /\ i < adj'.it) => Prio(i) = Prio(sp)
    BY <1>3, <1>4
  <2>2. adj'.removed => adj'.it <= Last /\ Prio(adj'.it) = Prio(sp)
    BY <1>3, <1>4
  <2>3. adj'.sp = sp /\ Prio(adj.it)' = Prio(adj'.it) /\ Prio(adj.sp)' = Prio(sp)
    BY <1>3, SettingKept DEF Prio, sharing
  <2> QED
    BY <1>3, <1>8, <2>1, <2>2, <2>3 DEF PlaceOK
<1>11. OrderOK'
  <2>1. ASSUME NEW i \in Pos, i < adj'.it, ~adj'.removed \/ Prio(i) < Prio(sp)
        PROVE  ext'[At(i)] < ExtraStep
    <3>1. CASE i = k
      <4>1. ~flag
        BY <1>3, <1>4, <2>1, <3>1
      <4>2. ~cuts
        BY <1>1, <4>1
      <4>3. ext'[s] = ext[s] /\ ~(ext[s] >= ExtraStep) /\ ext[s] \in Nat
        BY <1>1, <1>3, <1>4, <1>5, <1>6, <4>2
      <4> QED
        BY <1>1, <3>1, <4>3, Steps
    <3>2. CASE i # k
      <4>1. i < k /\ (~flag \/ Prio(i) < Prio(k))
        BY <1>3, <1>4, <2>1, <3>2
      <4> QED
        BY <1>4, <1>6, <1>7, <1>9, <3>2, <4>1
    <3> QED
      BY <3>1, <3>2
  <2>2. ASSUME NEW j \in Pos, adj'.it <= Last, Prio(j) > Prio(adj'.it)
        PROVE  adj.was[At(j)] - ext'[At(j)] = 0
    <3>1. adj'.it \in Pos /\ Prio(adj'.it) >= Prio(k)
      <4>1. CASE adj'.it = k + 1
        <5>1. k + 1 \in Pos /\ k < k + 1
          BY <1>4, <2>2, <4>1, <1>3 DEF Pos
        <5> QED
          BY <1>3, <1>4, <4>1, <5>1
      <4>2. CASE adj'.it = sp
        BY <1>3, <1>4, <4>2
      <4> QED
        BY <1>3, <4>1, <4>2
    <3>2. Prio(j) > Prio(k) /\ j # k
      BY <1>3, <1>4, <2>2, <3>1
    <3>3. Lost(At(j)) = 0
      BY <1>1, <1>3, <1>4, <3>2 DEF OrderOK
    <3> QED
      BY <1>4, <1>6, <1>7, <3>2, <3>3 DEF Lost
  <2>3. adj'.sp = sp /\ Prio(adj.it)' = Prio(adj'.it) /\ Prio(adj.sp)' = Prio(sp)
    BY <1>3, SettingKept DEF Prio, sharing
  <2>4. \A j \in Pos : Lost(At(j))' = adj.was[At(j)] - ext'[At(j)]
    BY <1>3, <1>8 DEF Lost
  <2> QED
    BY <1>3, <1>8, <2>1, <2>2, <2>3, <2>4 DEF OrderOK
<1>12. TurnsOK'
  <2>1. ASSUME NEW i \in Pos, NEW j \in Pos, Prio(i) = Prio(j), ext'[At(i)] >= ExtraStep
        PROVE  adj.was[At(j)] - ext'[At(j)]
                   <= adj.was[At(i)] - ext'[At(i)] + Ahead(adj'.it, i, j)
    <3>1. /\ ext[At(i)] \in Nat /\ ext[At(j)] \in Nat
          /\ ext'[At(i)] \in Nat /\ ext'[At(j)] \in Nat
          /\ adj.was[At(i)] \in Nat /\ adj.was[At(j)] \in Nat
      <4>1. adj.was \in [SliceAll -> Nat] /\ ext' \in [SliceAll -> Nat]
        BY <1>3, <1>6, CutFields DEF TypeOK
      <4> QED
        BY <1>4, <4>1 DEF SliceAll
    <3>2. /\ i = k => ext'[At(i)] = ext[At(i)] + d
          /\ i # k => ext'[At(i)] = ext[At(i)]
          /\ j = k => ext'[At(j)] = ext[At(j)] + d
          /\ j # k => ext'[At(j)] = ext[At(j)]
      BY <1>1, <1>4, <1>6, <1>7
    <3>3. ext[At(i)] >= ExtraStep
      BY <1>5, <2>1, <3>1, <3>2, Steps
    <3>4. adj.was[At(j)] - ext[At(j)] <= adj.was[At(i)] - ext[At(i)] + Ahead(k, i, j)
      BY <1>1, <1>4, <2>1, <3>3 DEF TurnsOK, Lost
    <3>5. i = k => d = -ExtraStep
      BY <1>1, <1>2, <3>3
    <3>6. i < k => Prio(i) = Prio(k) /\ flag
      BY <1>3, <1>4, <1>9, <3>1, <3>3, Steps
    <3>7. (j = k /\ d = 0) => ext[At(j)] < ExtraStep
      BY <1>1, <1>2, <1>5, <3>1, Steps
    (* As if the loop went on. *)
    <3>8. adj.was[At(j)] - ext'[At(j)] <= adj.was[At(i)] - ext'[At(i)] + Ahead(k + 1, i, j)
      <4>1. CASE i = k
        <5>1. d = -ExtraStep /\ ext'[At(i)] = ext[At(i)] - ExtraStep
          BY <3>1, <3>2, <3>5, <4>1, Steps
        <5>2. j \in Int /\ k \in Int
          BY <1>4
        <5>3. CASE j < k
          <6>1. Ahead(k, i, j) = ExtraStep /\ Ahead(k + 1, i, j) = 0
            BY <4>1, <5>2, <5>3 DEF Ahead
          <6> QED
            BY <3>1, <3>2, <3>4, <5>1, <5>2, <5>3, <6>1, Steps
        <5>4. CASE j = k
          <6>1. Ahead(k + 1, i, j) = 0
            BY <4>1, <5>2, <5>4 DEF Ahead
          <6> QED
            BY <3>1, <4>1, <5>4, <6>1
        <5>5. CASE j > k
          <6>1. Ahead(k, i, j) = 0 /\ Ahead(k + 1, i, j) = -ExtraStep
            BY <4>1, <5>2, <5>5 DEF Ahead
          <6> QED
            BY <3>1, <3>2, <3>4, <5>1, <5>2, <5>5, <6>1, Steps
        <5> QED
          BY <5>2, <5>3, <5>4, <5>5
      <4>2. CASE i # k /\ j = k
        <5>1. -d <= ExtraStep /\ d \in Int
          BY <1>5, Steps
        <5>2. i \in Int /\ k \in Int
          BY <1>4
        <5>3. CASE i < k
          <6>1. Ahead(k, i, j) = -ExtraStep /\ Ahead(k + 1, i, j) = 0
            BY <4>2, <5>2, <5>3 DEF Ahead
          <6> QED
            BY <3>1, <3>2, <3>4, <4>2, <5>1, <6>1, Steps
        <5>4. CASE i > k
          <6>1. Ahead(k, i, j) = 0 /\ Ahead(k + 1, i, j) = ExtraStep
            BY <4>2, <5>2, <5>4 DEF Ahead
          <6> QED
            BY <3>1, <3>2, <3>4, <4>2, <5>1, <6>1, Steps
        <5> QED
          BY <4>2, <5>2, <5>3, <5>4
      <4>3. CASE i # k /\ j # k
        BY <1>4, <3>1, <3>2, <3>4, <4>3, Steps DEF Ahead
      <4> QED
        BY <4>1, <4>2, <4>3
    <3>9. CASE adj'.it = k + 1
      BY <3>8, <3>9
    <3>10. CASE adj'.it = sp /\ (k = Last \/ Prio(k + 1) # Prio(k))
      <4>1. ASSUME NEW x \in Pos
            PROVE  /\ x > k => Prio(x) > Prio(k)
                   /\ x < sp => Prio(x) < Prio(k)
                   /\ (x >= sp /\ x <= k) => Prio(x) = Prio(k)
        <5>1. ASSUME x > k
              PROVE  Prio(x) > Prio(k)
          <6>1. k + 1 \in Pos /\ Prio(k + 1) # Prio(k)
            BY <1>4, <3>10, <5>1, <1>3 DEF Pos
          <6>2. Prio(k) <= Prio(k + 1) /\ Prio(k + 1) <= Prio(x)
            BY <1>3, <1>4, <5>1, <6>1
          <6> QED
            BY <1>3, <1>4, <6>1, <6>2
        <5> QED
          BY <1>3, <5>1
      <4>2. ~(i < sp)
        BY <1>3, <1>4, <3>6, <4>1
      <4>3. ~(j < sp)
        <5>1. i < sp \/ (i >= sp /\ i <= k) \/ i > k
          BY <1>4
        <5> QED
          BY <1>3, <1>4, <2>1, <4>1, <4>2, <5>1
      <4>4. i <= k <=> j <= k
        BY <1>3, <1>4, <2>1, <4>1, <4>2, <4>3
      <4>5. Ahead(k + 1, i, j) = 0 /\ Ahead(sp, i, j) = 0
        BY <1>4, <4>2, <4>3, <4>4 DEF Ahead
      <4> QED
        BY <3>8, <3>10, <4>5
    <3> QED
      BY <1>3, <3>9, <3>10
  <2>2. \A j \in Pos : Lost(At(j))' = adj.was[At(j)] - ext'[At(j)]
    BY <1>3, <1>8 DEF Lost
  <2>3. \A i, j : Ahead(adj.it, i, j)' = Ahead(adj'.it, i, j)
    BY DEF Ahead
  <2> QED
    BY <1>8, <2>1, <2>2, <2>3 DEF TurnsOK
<1>13. (adj.idl <= Threshold - Sum(Sharers, StillUsed))'
  <2>1. d # 0 => ext[s] >= ExtraStep /\ IdlBitRate(s, ext) < ExtraStep
    <3>1. ASSUME d # 0
          PROVE  ext[s] >= ExtraStep
      BY <1>1, <1>5, <3>1
    <3>2. ~HasUnusedExtra(s)
      BY <1>1, <1>3, CutFields
    <3>3. IdlBitRate(s, ext) \in Nat
      BY <1>3, CutFields, IdlNat, Basics
    <3> QED
      BY <3>1, <3>2, <3>3, Steps DEF HasUnusedExtra
  <2>2. ext' \in [SliceAll -> Nat]
    BY <1>6 DEF TypeOK
  <2>3. Sum(Sharers, StillUsed)' =
            IF d = 0 THEN Sum(Sharers, StillUsed) ELSE Sum(Sharers, StillUsed) - Recovered(s)
    BY <1>3, <1>5, <1>6, <1>8, <2>1, <2>2, StillUsedCut
  <2>4. /\ adj.idl <= Threshold - Sum(Sharers, StillUsed) /\ adj.idl \in Int /\ Threshold \in Int
    BY <1>3, CutFields, ThresholdInt
  <2>5. Sum(Sharers, StillUsed) \in Nat
    BY <1>3, CutFields, StillUsedNat, SumNat, Basics
  <2>6. Recovered(s) \in Int
    <3>1. IdlBitRate(s, ext) \in Nat
      BY <1>3, CutFields, IdlNat, Basics
    <3> QED
      BY <3>1, Steps DEF Recovered
  <2>7. adj'.idl = IF d = 0 THEN adj.idl ELSE adj.idl + Recovered(s)
    BY <1>3, <1>5
  <2>8. adj'.idl <= Threshold - Sum(Sharers, StillUsed)'
    BY <2>3, <2>4, <2>5, <2>6, <2>7
  <2> QED
    BY <1>8, <2>8
<1>14. \A i \in Pos : ~HasUnusedExtra(At(i))'
  <2> SUFFICES ASSUME NEW i \in Pos PROVE ~HasUnusedExtra(At(i))'
    OBVIOUS
  <2> DEFINE t == At(i)
  <2>1. /\ ~HasUnusedExtra(t) /\ adj.use[t] \in Nat /\ QuoBitRate(t) \in Nat /\ ext[t] \in Nat
        /\ ext'[t] \in Nat
    BY <1>3, <1>4, <1>6, CutFields, QuotaNat DEF TypeOK, SliceAll
  <2>2. ext'[t] <= ext[t]
    <3>1. CASE t = s
      BY <1>5, <1>6, <2>1, <3>1
    <3>2. CASE t # s
      BY <1>4, <1>6, <2>1, <3>2
    <3> QED
      BY <3>1, <3>2
  <2>3. HasUnusedExtra(t)' <=> (LET room == QuoBitRate(t) + ext'[t] - adj.use[t]
                                IN (IF room > 0 THEN room ELSE 0) >= ExtraStep /\ ext'[t] >= ExtraStep)
    BY <1>3, <1>8 DEF HasUnusedExtra, IdlBitRate, QuoBitRate
  <2>4. HasUnusedExtra(t) <=> (LET room == QuoBitRate(t) + ext[t] - adj.use[t]
                               IN (IF room > 0 THEN room ELSE 0) >= ExtraStep /\ ext[t] >= ExtraStep)
    BY DEF HasUnusedExtra, IdlBitRate
  <2> HIDE DEF t
  <2>5. ~HasUnusedExtra(t)'
    BY <2>1, <2>2, <2>3, <2>4, Steps
  <2> QED
    BY <2>5 DEF t
<1>15. CutOK'
  BY <1>8, <1>10, <1>11, <1>12, <1>13, <1>14 DEF CutOK
<1>16. GrowOK' /\ TrimOK' /\ ResultOK'
  BY <1>3 DEF GrowOK, TrimOK, ResultOK
<1> QED
  BY <1>6, <1>15, <1>16 DEF Inv

(***************************************************************************)
(* The order of the cuts, from the places in the loop.                        *)
(***************************************************************************)
LEMMA CutIsInOrder ==
    ASSUME Inv, adj.pc = "cut"
    PROVE  CutInOrder
<1> USE Basics
<1> SUFFICES ASSUME NEW p \in Pair,
                    \/ Priority[p[1]] < Priority[p[2]] /\ Lost(p[2]) > 0
                    \/ Priority[p[1]] = Priority[p[2]] /\ Lost(p[2]) > Lost(p[1]) + ExtraStep
             PROVE  ext[p[1]] < ExtraStep
  BY DEF CutInOrder
<1>1. p[1] \in Sharers /\ p[2] \in Sharers
  BY DEF Pair, Sharers
<1>2. PICK i \in Pos, j \in Pos : p[1] = At(i) /\ p[2] = At(j)
  BY <1>1, SharingOK
<1>3. /\ i \in Int /\ i <= Last /\ Prio(i) = Priority[p[1]] /\ Prio(j) = Priority[p[2]]
      /\ Prio(i) \in Int /\ Prio(j) \in Int
      /\ adj.it \in Int /\ adj.it >= 1 /\ adj.it <= Last + 1 /\ Last \in Nat
  BY <1>2, CutFields DEF Pos, Prio, At
<1>4. PlaceOK /\ OrderOK /\ TurnsOK
  BY CutFields
<1>5. ext[At(i)] \in Nat /\ Lost(At(i)) \in Int /\ Lost(At(j)) \in Int
  <2>1. adj.was \in [SliceAll -> Nat] /\ At(i) \in Slice /\ At(j) \in Slice
    BY CutFields
  <2> QED
    BY <2>1 DEF Lost, SliceAll
<1>6. CASE Prio(i) < Prio(j) /\ Lost(At(j)) > 0
  <2>1. CASE adj.it > Last
    <3>1. ~adj.removed
      BY <1>3, <1>4, <2>1 DEF PlaceOK
    <3> QED
      BY <1>2, <1>3, <1>4, <2>1, <3>1 DEF OrderOK
  <2>2. CASE adj.it <= Last
    <3>1. adj.it \in Pos /\ Prio(adj.it) \in Int
      BY <1>3, <2>2 DEF Pos
    <3>2. ~(Prio(j) > Prio(adj.it))
      BY <1>4, <1>5, <1>6, <2>2 DEF OrderOK
    <3>3. Prio(i) < Prio(adj.it)
      BY <1>3, <1>6, <3>1, <3>2
    <3>4. i < adj.it
      <4>1. adj.it < i => Prio(adj.it) <= Prio(i)
        BY <3>1
      <4>2. adj.it = i => Prio(adj.it) = Prio(i)
        OBVIOUS
      <4> QED
        BY <1>3, <3>1, <3>3, <4>1, <4>2
    <3>5. adj.removed => Prio(i) < Prio(adj.sp)
      BY <1>4, <3>3 DEF PlaceOK
    <3> QED
      BY <1>2, <1>4, <3>4, <3>5 DEF OrderOK
  <2> QED
    BY <1>3, <2>1, <2>2
<1>7. CASE Prio(i) = Prio(j) /\ Lost(At(j)) > Lost(At(i)) + ExtraStep
  <2>1. Ahead(adj.it, i, j) <= ExtraStep /\ Ahead(adj.it, i, j) \in Int
    BY Steps DEF Ahead
  <2>2. ext[At(i)] >= ExtraStep => Lost(At(j)) <= Lost(At(i)) + Ahead(adj.it, i, j)
    BY <1>4, <1>7 DEF TurnsOK
  <2> QED
    BY <1>2, <1>5, <1>7, <2>1, <2>2, Steps
<1> QED
  BY <1>2, <1>3, <1>6, <1>7

LEMMA CutDoneInv ==
    ASSUME Inv, CutDone, UNCHANGED setting
    PROVE  Inv'
<1> USE Basics
<1>1. /\ adj.pc = "cut" /\ (adj.it > Last \/ adj.idl >= 0)
      /\ adj' = [adj EXCEPT !.pc = "meters"] /\ UNCHANGED <<setting, res, ext, met, fault>>
  BY DEF CutDone
<1>2. adj' \in AdjType
  BY <1>1 DEF AdjType
<1>3. /\ adj'.pc = "meters" /\ adj'.it = adj.it /\ adj'.use = adj.use /\ adj'.was = adj.was
      /\ mode = "DYNA" /\ adj.it # 0
  BY <1>1, CutFields DEF AdjType
<1>4. TypeOK' /\ fault' = "none" /\ Counters' /\ MetersOK' /\ ExtraBounded'
  BY <1>1, <1>2, <1>3, SameExtStep
<1>5. CutInOrder'
  <2>1. CutInOrder
    BY <1>1, CutIsInOrder
  <2>2. Pair' = Pair
    BY <1>1, SettingKept DEF Pair
  <2> QED
    BY <1>1, <1>3, <2>1, <2>2 DEF CutInOrder, Lost
<1>6. CongestionRelieved'
  <2>1. Total(Shared(StillUsed))' = Sum(Sharers, StillUsed)
    <3>1. Total(Shared(StillUsed)) = Sum(Sharers, StillUsed)
      BY TotalIsSum
    <3>2. StillUsed' = StillUsed
      BY <1>1, <1>3 DEF StillUsed, MaxBitRate, QuoBitRate
    <3> QED
      BY <1>1, <3>1, <3>2, SettingKept DEF Total, Shared
  <2>2. CASE adj.idl >= 0
    <3>1. /\ adj.idl <= Threshold - Sum(Sharers, StillUsed) /\ adj.idl \in Int
          /\ Threshold \in Int /\ Sum(Sharers, StillUsed) \in Nat
      BY <1>1, CutFields, ThresholdInt, StillUsedNat, SumNat
    <3>2. Sum(Sharers, StillUsed) <= Threshold
      BY <2>2, <3>1
    <3> QED
      BY <1>1, <2>1, <3>2, ThresholdKept DEF CongestionRelieved, Threshold
  <2>3. CASE adj.it > Last
    <3>1. ~adj.removed
      <4>1. PlaceOK /\ adj.it \in Int
        BY <1>1, CutFields
      <4> QED
        BY <2>3, <4>1 DEF PlaceOK
    <3>2. \A i \in Pos : ext[At(i)] < ExtraStep
      <4>1. OrderOK /\ \A i \in Pos : i < adj.it
        BY <1>1, <2>3, CutFields DEF Pos
      <4> QED
        BY <3>1, <4>1 DEF OrderOK
    <3>3. \A s \in Slice : ext[s] < ExtraStep
      <4> SUFFICES ASSUME NEW s \in Slice PROVE ext[s] < ExtraStep
        OBVIOUS
      <4>1. CASE s \in Sharers
        BY <3>2, <4>1, SharingOK
      <4>2. CASE s \notin Sharers
        BY <4>2, Steps
      <4> QED
        BY <4>1, <4>2
    <3> QED
      BY <1>1, <3>3 DEF CongestionRelieved
  <2> QED
    BY <1>1, <2>2, <2>3
<1>7. HigherPriorityFirst'
  BY <1>3 DEF HigherPriorityFirst
<1>8. GrowOK' /\ TrimOK' /\ CutOK'
  BY <1>3 DEF GrowOK, TrimOK, CutOK
<1> QED
  BY <1>4, <1>5, <1>6, <1>7, <1>8 DEF Inv, ResultOK

(* Every meter is where it should be between two events. *)
LEMMA IdleInv ==
    ASSUME UNCHANGED <<setting, ext>>, ext \in [SliceAll -> Nat], ext["ALL"] = Total(ext),
           setting \in Setting, \A s \in Slice : s \notin Sharers => ext[s] = 0,
           res' \in [Slice -> Nat], \A s \in Slice : res'[s] <= QuoBitRate(s),
           met' \in [SliceAll -> Nat], adj' \in AdjType, adj'.pc = "idle", fault' = "none",
           ExtraBounded,
           \A m \in SliceAll :
               Installed(m) => Distance(met'[m], Target(m, UnrBitRate(res', ext))) < MeterStep
    PROVE  Inv'
<1>1. TypeOK'
  BY SettingKept DEF TypeOK, AdjType, Fault
<1>2. Counters'
  BY SettingKept DEF Counters, Total, QuoBitRate, Sharers
<1>3. ExtraBounded'
  BY ThresholdKept DEF ExtraBounded, MaxBitRate, QuoBitRate
<1>4. MetersOK'
  <2>1. \A m \in SliceAll : Target(m, UnrBitRate(res, ext))' = Target(m, UnrBitRate(res', ext))
    BY SettingKept DEF Target, UnrBitRate, Total, Shared, QuoBitRate, SpareBitRate
  <2> QED
    BY <2>1, SettingKept DEF MetersOK
<1>5. GrowOK' /\ TrimOK' /\ CutOK' /\ ResultOK'
  BY DEF GrowOK, TrimOK, CutOK, ResultOK
<1> QED
  BY <1>1, <1>2, <1>3, <1>4, <1>5 DEF Inv

LEMMA AdjustMetersInv ==
    ASSUME Inv, AdjustMeters, UNCHANGED setting
    PROVE  Inv'
<1> USE Basics
<1> DEFINE S == {s \in Slice : Shares(s)}
<1>1. /\ adj.pc = "meters" /\ mode = "DYNA" /\ SlicingMeterAdjust(S, res, ext)
      /\ adj' = NoAdjust /\ UNCHANGED <<setting, res, ext>>
  BY DEF AdjustMeters, Inv, MetersOK
<1>2. \A s : MeterOf(s) = s
  BY <1>1 DEF MeterOf
<1>3. /\ met' \in [SliceAll -> Nat] /\ fault' = "none"
      /\ \A m \in SliceAll : (mode # "NONE" /\ \E s \in S : m = MeterOf(s)) =>
             Distance(met'[m], Target(m, UnrBitRate(res, ext))) < MeterStep
      /\ \A m \in SliceAll : (\A s \in S : m # MeterOf(s)) => met'[m] = met[m]
  BY <1>1, MetersFollow
<1>4. ASSUME NEW m \in SliceAll, Installed(m)
      PROVE  Distance(met'[m], Target(m, UnrBitRate(res, ext))) < MeterStep
  <2>1. CASE m \in Sharers
    BY <1>1, <1>2, <1>3, <2>1 DEF Sharers
  <2>2. CASE m \notin Sharers
    <3>1. met'[m] = met[m]
      BY <1>2, <1>3, <2>2 DEF Sharers
    <3> QED
      BY <1>4, <2>2, <3>1 DEF Inv, MetersOK
  <2> QED
    BY <2>1, <2>2
<1>5. adj' \in AdjType /\ adj'.pc = "idle"
  BY <1>1, IdleAdj DEF NoAdjust
<1> HIDE DEF S
<1>6. ExtraBounded
  BY DEF Inv
<1> QED
  BY <1>1, <1>3, <1>4, <1>5, <1>6, IdleInv

LEMMA ReservedInv ==
    ASSUME Inv, NEW s \in Slice, NEW d, ChangeReserved(s, d)
    PROVE  Inv'
<1> USE Basics
<1>1. /\ adj.pc = "idle" /\ res[s] + d \in 0 .. QuoBitRate(s)
      /\ res' = [res EXCEPT ![s] = res[s] + d] /\ SlicingMeterAdjust({s}, res', ext)
      /\ UNCHANGED <<setting, ext, adj>>
  BY DEF ChangeReserved
<1>2. /\ res' \in [Slice -> Nat] /\ \A t \in Slice : res'[t] <= QuoBitRate(t)
      /\ \A t \in Slice : t # s => res'[t] = res[t]
  <2>1. QuoBitRate(s) \in Nat
    BY QuotaNat
  <2> QED
    BY <1>1, <2>1
<1>3. PICK r \in [Slice -> Nat] : r = res'
  BY <1>2
<1>4. /\ met' \in [SliceAll -> Nat] /\ fault' = "none"
      /\ \A m \in SliceAll : (mode # "NONE" /\ m = MeterOf(s)) =>
             Distance(met'[m], Target(m, UnrBitRate(r, ext))) < MeterStep
      /\ \A m \in SliceAll : m # MeterOf(s) => met'[m] = met[m]
  <2>1. \A t \in Slice : r[t] <= QuoBitRate(t)
    BY <1>2, <1>3
  <2>2. SlicingMeterAdjust({s}, r, ext) /\ {s} \in SUBSET Slice
    BY <1>1, <1>3
  <2>3. /\ met' \in [SliceAll -> Nat] /\ fault' = "none"
        /\ \A m \in SliceAll : (mode # "NONE" /\ \E t \in {s} : m = MeterOf(t)) =>
               Distance(met'[m], Target(m, UnrBitRate(r, ext))) < MeterStep
        /\ \A m \in SliceAll : (\A t \in {s} : m # MeterOf(t)) => met'[m] = met[m]
    BY <2>1, <2>2, MetersFollow
  <2> QED
    BY <2>3
<1>5. ASSUME NEW m \in SliceAll, Installed(m)
      PROVE  Distance(met'[m], Target(m, UnrBitRate(r, ext))) < MeterStep
  <2>1. mode # "NONE"
    BY <1>5 DEF Installed
  <2>2. CASE m = MeterOf(s)
    BY <1>4, <2>1, <2>2
  <2>3. CASE m # MeterOf(s)
    <3>1. Distance(met[m], Target(m, UnrBitRate(res, ext))) < MeterStep
      BY <1>1, <1>5 DEF Inv, MetersOK
    <3>2. Target(m, UnrBitRate(r, ext)) = Target(m, UnrBitRate(res, ext))
      <4>1. CASE m \in Slice
        <5>1. m # s
          BY <1>5, <2>3, <4>1 DEF Installed, MeterOf, Slice
        <5> QED
          BY <1>2, <1>3, <4>1, <5>1, OneTarget
      <4>2. CASE m = "ALL"
        <5>1. mode = "SHAR" /\ ~Shares(s)
          BY <1>5, <2>3, <4>2 DEF Installed, MeterOf
        <5>2. \A t \in Slice : Shares(t) => UnrBitRate(r, ext)[t] = UnrBitRate(res, ext)[t]
          BY <1>2, <1>3, <5>1 DEF UnrBitRate
        <5>3. Total(Shared(UnrBitRate(r, ext))) = Total(Shared(UnrBitRate(res, ext)))
          BY <5>2 DEF Total, Shared, Slice
        <5> QED
          BY <4>2, <5>3 DEF Target
      <4> QED
        BY <4>1, <4>2 DEF SliceAll
    <3> QED
      BY <1>4, <2>3, <3>1, <3>2
  <2> QED
    BY <2>2, <2>3
<1>6. adj' \in AdjType /\ adj'.pc = "idle" /\ ExtraBounded
  BY <1>1 DEF Inv
<1> QED
  BY <1>1, <1>2, <1>3, <1>4, <1>5, <1>6, IdleInv

LEMMA StutterInv ==
    ASSUME Inv, UNCHANGED vars
    PROVE  Inv'
<1>1. /\ setting' = setting /\ res' = res /\ ext' = ext
      /\ met' = met /\ adj' = adj /\ fault' = fault
  BY DEF vars
<1>2. sharing' = sharing /\ mode' = mode
  BY <1>1 DEF sharing, mode
<1>3. /\ Last' = Last /\ Sharers' = Sharers /\ Threshold' = Threshold
      /\ Pair' = Pair /\ Pos' = Pos
      /\ \A s \in Slice : Shares(s)' = Shares(s)
  BY <1>2 DEF Last, Sharers, Threshold, MaxShare, Shared, Shares, Pair, Pos
<1>4. TypeOK' /\ (fault = "none")' /\ Counters'
  BY <1>1, <1>2, <1>3 DEF Inv, TypeOK, Counters
<1>5. MetersOK'
  BY <1>1, <1>2, <1>3 DEF Inv, MetersOK, Installed, Shares, Target, Shared, Total, UnrBitRate
<1>6. ExtraBounded'
  BY <1>1, <1>2, <1>3 DEF Inv, ExtraBounded, MaxBitRate, MaxShare, Shared, Shares
<1>7. GrowOK'
  BY <1>1, <1>2, <1>3 DEF Inv, GrowOK, At, Overloaded, IdlBitRate, Sum
<1>8. TrimOK'
  BY <1>1, <1>2, <1>3 DEF Inv, TrimOK, At, HasUnusedExtra, IdlBitRate, Sum
<1>9. CutOK'
  <2>1. PlaceOK <=> PlaceOK'
    BY <1>1, <1>2, <1>3 DEF PlaceOK, Prio
  <2>2. OrderOK <=> OrderOK'
    BY <1>1, <1>2, <1>3 DEF OrderOK, Prio, At, Lost
  <2>3. TurnsOK <=> TurnsOK'
    BY <1>1, <1>2, <1>3 DEF TurnsOK, Prio, At, Lost, Ahead
  <2>4. StillUsed' = StillUsed
    BY <1>1 DEF StillUsed, MaxBitRate
  <2>5. \A i : HasUnusedExtra(At(i))' <=> HasUnusedExtra(At(i))
    BY <1>1, <1>2 DEF HasUnusedExtra, At, IdlBitRate
  <2> QED
    BY <1>1, <1>3, <2>1, <2>2, <2>3, <2>4, <2>5 DEF Inv, CutOK, Sum
<1>10. ResultOK'
  <2>1. HigherPriorityFirst <=> HigherPriorityFirst'
    BY <1>1, <1>3 DEF HigherPriorityFirst, IdlBitRate
  <2>2. CutInOrder <=> CutInOrder'
    BY <1>1, <1>3 DEF CutInOrder, Lost
  <2>3. StillUsed' = StillUsed
    BY <1>1 DEF StillUsed, MaxBitRate
  <2>4. CongestionRelieved <=> CongestionRelieved'
    BY <1>1, <1>2, <2>3 DEF CongestionRelieved, MaxShare, Shared, Shares, Total
  <2> QED
    BY <1>1, <2>1, <2>2, <2>4 DEF Inv, ResultOK
<1> QED
  BY <1>4, <1>5, <1>6, <1>7, <1>8, <1>9, <1>10 DEF Inv

LEMMA InvHolds == Spec => []Inv
<1>1. Inv /\ [Next]_vars => Inv'
  <2> SUFFICES ASSUME Inv, [Next]_vars PROVE Inv'
    OBVIOUS
  <2>1. ASSUME NEW use \in UseProfiles[setting], SlicingDynamicTimeout(use) PROVE Inv'
    BY <2>1, TimeoutInv
  <2>2. CASE SlicingExtraAdjust
    BY <2>2, GrowSliceInv, GrowDoneInv, TrimSliceInv, TrimDoneInv, CutSliceInv, CutDoneInv,
       AdjustMetersInv DEF SlicingExtraAdjust
  <2>3. ASSUME NEW s \in Slice, NEW rate \in GbrRates[setting],
               BitRateReserve(s, rate) \/ BitRateRelease(s, rate)
        PROVE  Inv'
    BY <2>3, ReservedInv DEF BitRateReserve, BitRateRelease
  <2>4. CASE UNCHANGED vars
    BY <2>4, StutterInv
  <2> QED
    BY <2>1, <2>2, <2>3, <2>4 DEF Next
<1> QED
  BY InitInv, <1>1, PTL DEF Spec
------------------------------------------------------------------------------
(***************************************************************************)
(* LinkInfo's counters and the meters stay natural numbers, and the loops of   *)
(* SlicingExtraAdjust stay within the slices that share.                      *)
(***************************************************************************)
THEOREM TypeOKHolds == Spec => []TypeOK
<1>1. Inv => TypeOK
  BY DEF Inv
<1> QED
  BY InvHolds, <1>1, PTL

(***************************************************************************)
(* No assertion of SlicingExtraAdjust or SlicingMeterAdjust fails.            *)
(***************************************************************************)
THEOREM NoAssertFailsHolds == Spec => []NoAssertFails
<1>1. Inv => NoAssertFails
  BY DEF Inv, NoAssertFails
<1> QED
  BY InvHolds, <1>1, PTL

(***************************************************************************)
(* However often SlicingExtraAdjust grants steps, no slice's maximum passes    *)
(* what the slices share less the guard by half a step or more.               *)
(***************************************************************************)
THEOREM ExtraBoundedHolds == Spec => []ExtraBounded
<1>1. Inv => ExtraBounded
  BY DEF Inv
<1> QED
  BY InvHolds, <1>1, PTL

(***************************************************************************)
(* SlicingExtraAdjust gives idle bit rate to the highest priorities first.     *)
(***************************************************************************)
THEOREM HigherPriorityFirstHolds == Spec => []HigherPriorityFirst
<1>1. Inv => HigherPriorityFirst
  BY DEF Inv, ResultOK, HigherPriorityFirst
<1> QED
  BY InvHolds, <1>1, PTL

(***************************************************************************)
(* On a congested link SlicingExtraAdjust cuts the lowest priorities first,    *)
(* and the slices of one priority in turns.                                   *)
(***************************************************************************)
THEOREM CutInOrderHolds == Spec => []CutInOrder
<1>1. Inv => CutInOrder
  <2> SUFFICES ASSUME Inv PROVE CutInOrder
    OBVIOUS
  <2>1. CASE adj.pc = "cut"
    BY <2>1, CutIsInOrder
  <2>2. CASE adj.pc = "meters"
    BY <2>2 DEF Inv, ResultOK
  <2> QED
    BY <2>1, <2>2 DEF CutInOrder
<1> QED
  BY InvHolds, <1>1, PTL

(***************************************************************************)
(* SlicingExtraAdjust relieves a congested link, unless no slice has extra     *)
(* bit rate left to lose.                                                    *)
(***************************************************************************)
THEOREM CongestionRelievedHolds == Spec => []CongestionRelieved
<1>1. Inv => CongestionRelieved
  BY DEF Inv, ResultOK, CongestionRelieved
<1> QED
  BY InvHolds, <1>1, PTL

(***************************************************************************)
(* Between two events every installed meter is within MeterStep of the         *)
(* unreserved bit rate of its slices.                                        *)
(***************************************************************************)
THEOREM MeterFollowsHolds == Spec => []MeterFollows
<1>1. Inv => MeterFollows
  BY DEF Inv, MetersOK, MeterFollows
<1> QED
  BY InvHolds, <1>1, PTL
------------------------------------------------------------------------------
(* The end of the loops.                                                      *)

(***************************************************************************)
(* What is left of SlicingExtraAdjust, as three numbers: loops to come, steps  *)
(* of extra bit rate that the loop may still take back (twice, as the removed  *)
(* flag of the last loop counts for less than a step), and slices that have    *)
(* yet to have their turn in this pass.                                       *)
(***************************************************************************)
LoopsLeft ==
    CASE adj.pc = "grow" -> 3 [] adj.pc = "trim" -> 3 [] adj.pc = "cut" -> 2
      [] adj.pc = "meters" -> 1 [] adj.pc = "idle" -> 0

ExtraLeft ==
    IF adj.pc \in {"trim", "cut"} THEN 2 * Total(ext) + (IF adj.removed THEN 1 ELSE 0) ELSE 0

TurnsLeft == IF adj.pc = "grow" THEN adj.it ELSE Last + 1 - adj.it

(* The three numbers get lower in a step, the first ones first.               *)
Descends ==
    \/ LoopsLeft' < LoopsLeft
    \/ LoopsLeft' = LoopsLeft /\ ExtraLeft' < ExtraLeft
    \/ LoopsLeft' = LoopsLeft /\ ExtraLeft' = ExtraLeft /\ TurnsLeft' < TurnsLeft

Measured == LoopsLeft \in Nat /\ ExtraLeft \in Nat /\ TurnsLeft \in Nat

LEMMA TotalFalls ==
    ASSUME Inv, NEW s \in Slice, NEW d \in Int, ext[s] + d >= 0, UpdateExtBitRate(s, d)
    PROVE  Total(ext) \in Nat /\ Total(ext') = Total(ext) + d
<1>1. ext \in [SliceAll -> Nat] /\ ext["ALL"] = Total(ext)
  BY DEF Inv, TypeOK, Counters
<1>2. /\ ext' \in [SliceAll -> Nat] /\ ext'[s] = ext[s] + d
      /\ \A t \in Slice : t # s => ext'[t] = ext[t]
  BY <1>1, ExtChange
<1>3. /\ ext["HTC"] \in Nat /\ ext["MTC"] \in Nat /\ ext["TMP"] \in Nat
  BY <1>1 DEF SliceAll, Slice
<1>4. s \in {"HTC", "MTC", "TMP"}
  BY DEF Slice
<1> QED
  BY <1>2, <1>3, <1>4 DEF Total, Slice

LEMMA MeasuredOK == Inv => Measured
<1> SUFFICES ASSUME Inv PROVE Measured
  OBVIOUS
<1>1. adj \in AdjType /\ Last \in Nat
  BY Basics
<1>2. /\ adj.pc \in {"idle", "grow", "trim", "cut", "meters"} /\ adj.it \in 0 .. Last + 1
      /\ adj.removed \in BOOLEAN
  BY <1>1 DEF AdjType
<1>3. Total(ext) \in Nat
  <2>1. ext \in [SliceAll -> Nat] /\ ext["ALL"] = Total(ext)
    BY DEF Inv, TypeOK, Counters
  <2> QED
    BY <2>1 DEF SliceAll
<1>4. LoopsLeft \in Nat
  BY <1>2 DEF LoopsLeft
<1>5. ExtraLeft \in Nat
  BY <1>2, <1>3 DEF ExtraLeft
<1>6. TurnsLeft \in Nat
  BY <1>1, <1>2 DEF TurnsLeft
<1> QED
  BY <1>4, <1>5, <1>6 DEF Measured

LEMMA GrowDescends == ASSUME Inv, GrowSlice, UNCHANGED setting PROVE Descends
<1>0. PICK n : adj' = [adj EXCEPT !.it = adj.it - 1, !.idl = n]
  BY DEF GrowSlice
<1>1. adj \in AdjType /\ adj.pc = "grow"
  BY Basics DEF GrowSlice
<1>2. adj'.pc = "grow" /\ adj'.it = adj.it - 1 /\ adj.it \in Int
  BY <1>0, <1>1, Basics DEF AdjType
<1> QED
  BY <1>1, <1>2 DEF Descends, LoopsLeft, ExtraLeft, TurnsLeft

LEMMA TrimDescends == ASSUME Inv, TrimSlice, UNCHANGED setting PROVE Descends
<1>1. adj \in AdjType /\ adj.pc = "trim" /\ adj.it \in Int /\ adj.it >= 1 /\ adj.it <= Last
      /\ Last \in Nat /\ Last' = Last
  <2>1. adj.pc = "trim" /\ adj.it <= Last
    BY DEF TrimSlice
  <2> QED
    BY <2>1, Basics, TrimFields, SettingKept
<1>2. CASE HasUnusedExtra(Current) /\ UpdateExtBitRate(Current, -ExtraStep) /\ adj' = adj
  <2>1. Current \in Slice /\ Current \in SliceAll
    BY <1>1, Basics, SharingOK DEF Current, At, Pos, SliceAll
  <2>2. ext[Current] >= ExtraStep /\ ext[Current] \in Nat
    BY <1>2, <2>1 DEF HasUnusedExtra, Inv, TypeOK
  <2>3. Total(ext) \in Nat /\ Total(ext') = Total(ext) - ExtraStep
    BY <1>2, <2>1, <2>2, Steps, TotalFalls
  <2>4. ExtraLeft' < ExtraLeft
    BY <1>1, <1>2, <2>3, Steps DEF ExtraLeft
  <2> QED
    BY <1>2, <2>4 DEF Descends, LoopsLeft
<1>3. CASE adj' = [adj EXCEPT !.it = @ + 1] /\ UNCHANGED ext
  <2>1. adj'.pc = "trim" /\ adj'.it = adj.it + 1 /\ adj'.removed = adj.removed
    BY <1>1, <1>3 DEF AdjType
  <2> QED
    BY <1>1, <1>3, <2>1 DEF Descends, LoopsLeft, ExtraLeft, TurnsLeft, Total
<1>4. \/ HasUnusedExtra(Current) /\ UpdateExtBitRate(Current, -ExtraStep) /\ adj' = adj
      \/ adj' = [adj EXCEPT !.it = @ + 1] /\ UNCHANGED ext
  BY DEF TrimSlice
<1> QED
  BY <1>2, <1>3, <1>4

LEMMA CutDescends == ASSUME Inv, CutSlice, UNCHANGED setting PROVE Descends
<1>0. PICK k, s, sp : /\ k = adj.it /\ s = At(k)
                      /\ sp = IF Prio(k) > Prio(adj.sp) THEN k ELSE adj.sp
  OBVIOUS
<1>a. PICK cuts \in BOOLEAN : cuts <=> ext[s] >= ExtraStep
  OBVIOUS
<1>b. PICK flag \in BOOLEAN : flag <=> adj.removed \/ cuts
  OBVIOUS
<1>c. PICK d : d = IF cuts THEN -ExtraStep ELSE 0
  OBVIOUS
<1>d. /\ k = adj.it /\ s = At(k) /\ (cuts <=> ext[s] >= ExtraStep)
      /\ sp = IF Prio(k) > Prio(adj.sp) THEN k ELSE adj.sp
      /\ (flag <=> adj.removed \/ cuts)
  BY <1>0, <1>a, <1>b
<1>1. /\ k \in Pos /\ s \in Slice /\ adj.pc = "cut" /\ UpdateExtBitRate(s, d)
      /\ UNCHANGED setting /\ adj'.pc = "cut"
      /\ \/ adj'.it = k + 1 /\ (adj'.removed <=> flag)
         \/ flag /\ adj'.it = sp /\ ~adj'.removed
  BY <1>d, <1>c, CutSliceSteps
<1>2. adj.removed \in BOOLEAN /\ k \in Int /\ Last \in Nat /\ Last' = Last
  BY <1>d, <1>1, CutFields, Basics, SettingKept
<1>3. ext[s] \in Nat /\ d \in Int /\ ext[s] + d >= 0
  BY <1>c, <1>d, <1>1, Basics, Steps
<1>4. Total(ext) \in Nat /\ Total(ext') = Total(ext) + d
  BY <1>1, <1>3, TotalFalls
<1> DEFINE r == IF adj.removed THEN 1 ELSE 0
           q == IF adj'.removed THEN 1 ELSE 0
<1>5. LoopsLeft' = LoopsLeft /\ ExtraLeft = 2 * Total(ext) + r /\ ExtraLeft' = 2 * Total(ext') + q
  BY <1>1 DEF LoopsLeft, ExtraLeft
<1>6. CASE cuts
  <2>1. d = -ExtraStep
    BY <1>c, <1>6
  <2>2. r \in 0 .. 1 /\ q \in 0 .. 1
    OBVIOUS
  <2> HIDE DEF r, q
  <2>3. ExtraLeft' < ExtraLeft
    BY <1>4, <1>5, <2>1, <2>2, Steps
  <2> QED
    BY <1>5, <2>3 DEF Descends
<1>7. CASE ~cuts
  <2>1. Total(ext') = Total(ext)
    BY <1>4, <1>c, <1>7
  <2>2. CASE adj'.it = k + 1 /\ (adj'.removed <=> adj.removed)
    <3>1. ExtraLeft' = ExtraLeft
      BY <1>5, <2>1, <2>2
    <3>2. TurnsLeft' < TurnsLeft
      BY <1>d, <1>1, <1>2, <2>2 DEF TurnsLeft
    <3> QED
      BY <1>5, <3>1, <3>2 DEF Descends
  <2>3. CASE adj.removed /\ ~adj'.removed
    <3>1. ExtraLeft' < ExtraLeft
      BY <1>4, <1>5, <2>1, <2>3
    <3> QED
      BY <1>5, <3>1 DEF Descends
  <2> QED
    BY <1>d, <1>1, <1>7, <2>2, <2>3
<1> QED
  BY <1>6, <1>7

(***************************************************************************)
(* The loops of SlicingExtraAdjust end: no step of an adjustment but lowers    *)
(* what is left of it, which cannot get lower for ever.  No other event comes  *)
(* between.                                                                  *)
(***************************************************************************)
THEOREM LoopsDescend == Spec => []Measured /\ [][adj.pc # "idle" => Descends]_vars
<1>1. ASSUME Inv, [Next]_vars PROVE [adj.pc # "idle" => Descends]_vars
  <2> SUFFICES ASSUME adj.pc # "idle", ~ UNCHANGED vars PROVE Descends
    OBVIOUS
  <2>1. adj \in AdjType
    BY <1>1, Basics
  <2>2. SlicingExtraAdjust
    <3>1. \A use : ~ SlicingDynamicTimeout(use)
      BY DEF SlicingDynamicTimeout
    <3>2. \A s, rate : ~ BitRateReserve(s, rate) /\ ~ BitRateRelease(s, rate)
      BY DEF BitRateReserve, BitRateRelease, ChangeReserved
    <3>3. Next
      BY <1>1
    <3> HIDE DEF vars
    <3> QED
      BY <3>1, <3>2, <3>3 DEF Next
  <2>3. UNCHANGED setting
    BY <2>2 DEF SlicingExtraAdjust
  <2>4. CASE GrowSlice
    BY <1>1, <2>3, <2>4, GrowDescends
  <2>5. CASE TrimSlice
    BY <1>1, <2>3, <2>5, TrimDescends
  <2>6. CASE CutSlice
    BY <1>1, <2>3, <2>6, CutDescends
  <2>7. CASE GrowDone
    BY <2>1, <2>7 DEF GrowDone, AdjType, Descends, LoopsLeft
  <2>8. CASE TrimDone
    BY <2>1, <2>8 DEF TrimDone, AdjType, Descends, LoopsLeft
  <2>9. CASE CutDone
    BY <2>1, <2>9 DEF CutDone, AdjType, Descends, LoopsLeft
  <2>10. CASE AdjustMeters
    BY <2>1, <2>10 DEF AdjustMeters, NoAdjust, AdjType, Descends, LoopsLeft
  <2> QED
    BY <2>2, <2>4, <2>5, <2>6, <2>7, <2>8, <2>9, <2>10 DEF SlicingExtraAdjust
<1> QED
  BY InvHolds, MeasuredOK, <1>1, PTL DEF Spec
===============================================================================
