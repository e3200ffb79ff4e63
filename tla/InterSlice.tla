------------------------------ MODULE InterSlice ------------------------------
(***************************************************************************)
(* Inter-slicing on one direction of one backhaul link: the periodic         *)
(* adjustment of the slices' extra bit rates (SlicingExtraAdjust) and the    *)
(* OpenFlow meters that follow it and every reservation (SlicingMeterAdjust).*)
(*                                                                           *)
(* SlicingMeterAdjust looks at both directions of the link; here it is the   *)
(* one direction, because the meter of the other direction has followed each *)
(* change of that direction's own counters already.                          *)
(*                                                                           *)
(* One simulator event runs SlicingExtraAdjust to its end.  Its loops are    *)
(* modelled iteration by iteration, with the locals in adj, so that their     *)
(* order, their assertions and their termination can be checked; nothing     *)
(* else happens before the event ends.  Bit rates are in a coarse unit.      *)
(***************************************************************************)
EXTENDS Integers, Sequences, FiniteSets

CONSTANTS
    Setting,        \* the simulations to look at; Mode, Sharing, UseProfiles
                    \* and GbrRates give what each of them has
    Mode,           \* InterSliceMode
    SpareUse,       \* share the bit rate that no slice has in its quota
    LinkBitRate,
    Quota,          \* [Slice -> 0..100]: percent of the link
    Sharing,        \* m_sliceCtrlsSha: sequence in increasing priority order
    Priority,       \* [Slice -> Int]
    ExtraStep, GuardStep, MeterStep,
    Kilo,           \* units of bit rate in one unit of a meter
    UseProfiles,    \* long-term throughputs that may be found: [Slice -> Nat]
    GbrRates        \* bit rates that bearers reserve

Slice     == {"HTC", "MTC", "TMP"}
SliceAll  == Slice \cup {"ALL"}

ASSUME ConstAssumption ==
    /\ Setting # {}
    /\ Mode \in [Setting -> {"NONE", "SHAR", "STAT", "DYNA"}]
    /\ SpareUse \in BOOLEAN
    /\ LinkBitRate \in Nat
    /\ Quota \in [Slice -> 0 .. 100]
    /\ Quota["HTC"] + Quota["MTC"] + Quota["TMP"] <= 100
    /\ Priority \in [Slice -> Int]
    /\ \A c \in Setting :
          /\ Sharing[c] \in Seq(Slice)
          /\ \A i, j \in 1 .. Len(Sharing[c]) :
                i < j => /\ Sharing[c][i] # Sharing[c][j]
                         /\ Priority[Sharing[c][i]] <= Priority[Sharing[c][j]]
    /\ ExtraStep \in Nat \ {0} /\ GuardStep \in Nat
    /\ MeterStep \in Nat /\ Kilo \in Nat \ {0} /\ Kilo <= MeterStep
    /\ UseProfiles \in [Setting -> SUBSET [Slice -> Nat]]
    /\ GbrRates \in [Setting -> SUBSET Nat]

VARIABLES
    setting,    \* never changes
    res,        \* [Slice -> Nat]: reserved
    ext,        \* [SliceAll -> Nat]: extra
    met,        \* [SliceAll -> Nat]: meter
    adj,        \* locals of SlicingExtraAdjust
    fault       \* the NS_ASSERT that failed, if any

vars == <<setting, res, ext, met, adj, fault>>
Running == fault = "none"

mode      == Mode[setting]
sharing   == Sharing[setting]
Shares(s) == \E i \in 1 .. Len(sharing) : sharing[i] = s
Fault == {"none", "Error when updating extra bit rate.",
          "Inconsistent removed flag.", "Inconsistent bit rate.",
          "Error when setting meter bit rate."}
------------------------------------------------------------------------------
(* LinkInfo *)

QuoBitRate(s) == (LinkBitRate * Quota[s]) \div 100
MaxBitRate(s) == QuoBitRate(s) + ext[s]

(* The unreserved bit rate of every slice, given the counters. *)
UnrBitRate(r, e) == [s \in Slice |-> QuoBitRate(s) + e[s] - r[s]]

(* The quota that no slice took (SliceId::UNKN). *)
SpareBitRate ==
    IF SpareUse
    THEN (LinkBitRate * (100 - (Quota["HTC"] + Quota["MTC"] + Quota["TMP"]))) \div 100
    ELSE 0

Shared(f) == [s \in Slice |-> IF Shares(s) THEN f[s] ELSE 0]
Total(f)  == f["HTC"] + f["MTC"] + f["TMP"]

MaxShare == Total(Shared([s \in Slice |-> QuoBitRate(s)])) + SpareBitRate

ExtraOK(s, d)          == ext[s] + d >= 0 /\ ext["ALL"] + d >= 0
UpdateExtBitRate(s, d) == ext' = [ext EXCEPT ![s] = @ + d, !["ALL"] = @ + d]
------------------------------------------------------------------------------
(* Meters.  Under SHAR the slices that share have one meter between them.    *)

MeterOf(s) == IF mode = "SHAR" /\ Shares(s) THEN "ALL" ELSE s

(* Bps2Kbps and back: the meter's rate is a whole number of kbps. *)
Kbps(rate) == (rate \div Kilo) * Kilo

Target(m, unr) == IF m = "ALL" THEN Total(Shared(unr)) + SpareBitRate ELSE unr[m]

Distance(a, b) == IF a < b THEN b - a ELSE a - b

(* Mutant: only meters that are too high follow. *)
MeterRateDown(m, r, e) ==
    LET t == Target(m, UnrBitRate(r, e))
    IN IF met[m] - t >= MeterStep THEN Kbps(t) ELSE met[m]

MeterRate(m, r, e) ==
    LET t == Target(m, UnrBitRate(r, e))
    IN IF Distance(met[m], t) >= MeterStep THEN Kbps(t) ELSE met[m]

(* SlicingMeterAdjust for the slices in S, once their counters are r and e.   *)
SlicingMeterAdjust(S, r, e) ==
    LET M == IF mode = "NONE" THEN {} ELSE {MeterOf(s) : s \in S}
    IN /\ met' = [m \in SliceAll |-> IF m \in M THEN MeterRate(m, r, e) ELSE met[m]]
       /\ fault' = IF \E m \in M : MeterRate(m, r, e) < 0
                   THEN "Error when setting meter bit rate." ELSE "none"

(* Which meters NotifySlicesBuilt installs (SlicingMeterInstall). *)
Installed(m) == CASE mode = "NONE" -> FALSE
                  [] mode = "SHAR" -> m = "ALL" \/ ~Shares(m)
                  [] OTHER              -> m # "ALL"
------------------------------------------------------------------------------
(* SlicingExtraAdjust.  adj.was is not in the code: the extra bit rates when  *)
(* the loop in progress began, for the properties.                           *)

NoExtra  == [s \in SliceAll |-> 0]
NoAdjust == [pc |-> "idle", use |-> [s \in Slice |-> 0], idl |-> 0, it |-> 1,
             sp |-> 1, removed |-> FALSE, was |-> NoExtra]

Last       == Len(sharing)
Current    == sharing[adj.it]
IdlBitRate(s, e) ==
    LET room == QuoBitRate(s) + e[s] - adj.use[s] IN IF room > 0 THEN room ELSE 0

SlicingDynamicTimeout(use) ==
    LET idl == MaxShare - GuardStep - Total(Shared(use))
    IN /\ Running /\ mode = "DYNA" /\ adj.pc = "idle"
       /\ adj' = [NoAdjust EXCEPT !.pc = IF idl > 0 THEN "grow" ELSE "trim",
                                  !.it = IF idl > 0 THEN Last ELSE 1,
                                  !.use = use, !.idl = idl, !.was = ext]
       /\ UNCHANGED <<setting, res, ext, met, fault>>

(* Mutants: idle bit rate is given to lower priorities first; a step is given *)
(* whatever is left.                                                         *)
GrowthOrderUp == sharing[Last + 1 - adj.it]
EnoughIdleAny == adj.idl > 0

GrowthOrder == Current
EnoughIdle  == adj.idl >= ExtraStep

(* One slice, in decreasing priority order, takes or gives back one step.     *)
GrowSlice ==
    LET s           == GrowthOrder
        overloaded  == IdlBitRate(s, ext) < ExtraStep \div 2 /\ EnoughIdle
        underloaded == IdlBitRate(s, ext) >= 2 * ExtraStep /\ ext[s] >= ExtraStep
        d == IF overloaded THEN ExtraStep ELSE IF underloaded THEN -ExtraStep ELSE 0
    IN /\ Running /\ adj.pc = "grow" /\ adj.it >= 1
       /\ UpdateExtBitRate(s, d)
       /\ adj' = [adj EXCEPT !.it = @ - 1,
                             !.idl = IF overloaded THEN @ - ExtraStep ELSE @]
       /\ fault' = IF ExtraOK(s, d) THEN "none" ELSE "Error when updating extra bit rate."
       /\ UNCHANGED <<res, met>>

GrowDone ==
    /\ Running /\ adj.pc = "grow" /\ adj.it < 1
    /\ adj' = [adj EXCEPT !.pc = "meters"]
    /\ UNCHANGED <<res, ext, met, fault>>

(* Mutant: extra bit rate that the slice does not have is taken back. *)
HasUnusedExtraAny(s) == IdlBitRate(s, ext) >= ExtraStep

HasUnusedExtra(s) == IdlBitRate(s, ext) >= ExtraStep /\ ext[s] >= ExtraStep

(* Mutant: one step of unused extra bit rate is taken back at most. *)
TrimSliceOnce ==
    LET d == IF HasUnusedExtra(Current) THEN -ExtraStep ELSE 0
    IN /\ Running /\ adj.pc = "trim" /\ adj.it <= Last
       /\ UpdateExtBitRate(Current, d)
       /\ adj' = [adj EXCEPT !.it = @ + 1]
       /\ UNCHANGED <<res, met, fault>>

(* One iteration of the while loop that takes back unused extra bit rate.     *)
(* (The code's copies of the slice's idle and extra bit rate shrink by the    *)
(* step that LinkInfo loses, so they equal what LinkInfo returns.)            *)
TrimSlice ==
    LET s == Current
    IN /\ Running /\ adj.pc = "trim" /\ adj.it <= Last
       /\ \/ /\ HasUnusedExtra(s)
             /\ UpdateExtBitRate(s, -ExtraStep)
             /\ fault' = IF ExtraOK(s, -ExtraStep) THEN "none"
                         ELSE "Error when updating extra bit rate."
             /\ adj' = adj
          \/ /\ ~HasUnusedExtra(s)
             /\ adj' = [adj EXCEPT !.it = @ + 1]
             /\ UNCHANGED <<ext, fault>>
       /\ UNCHANGED <<res, met>>

TrimDone ==
    /\ Running /\ adj.pc = "trim" /\ adj.it > Last
    /\ adj' = [adj EXCEPT !.pc = "cut", !.it = 1, !.was = ext]
    /\ UNCHANGED <<res, ext, met, fault>>

(* Mutants: the usage is expected to fall by whole steps; the flag is not     *)
(* reset; a slice loses all of its extra before its peers.                    *)
RecoveredStep(s) == ExtraStep
NextSliceNoReset(sp, removed)  ==
    IF ~removed \/ (adj.it < Last /\ Priority[sharing[adj.it + 1]] = Priority[Current])
    THEN [it |-> adj.it + 1, removed |-> removed]
    ELSE [it |-> sp, removed |-> removed]
NextSliceDrain(sp, removed) ==
    IF removed THEN [it |-> adj.it, removed |-> FALSE]
    ELSE [it |-> adj.it + 1, removed |-> FALSE]

(* By how much the usage falls when slice s loses a step. *)
Recovered(s) == ExtraStep - IdlBitRate(s, ext)

(* The slice of the next iteration: the rest of the same priority, then that  *)
(* priority from its first slice again while a step was removed from it.      *)
NextSlice(sp, removed) ==
    IF ~removed \/ (adj.it < Last /\ Priority[sharing[adj.it + 1]] = Priority[Current])
    THEN [it |-> adj.it + 1, removed |-> removed]
    ELSE [it |-> sp, removed |-> FALSE]

CutSlice ==
    LET s       == Current
        rises   == Priority[s] > Priority[sharing[adj.sp]]
        sp      == IF rises THEN adj.it ELSE adj.sp
        cuts    == ext[s] >= ExtraStep
        next    == NextSlice(sp, adj.removed \/ cuts)
    IN /\ Running /\ adj.pc = "cut" /\ adj.it <= Last /\ adj.idl < 0
       /\ UpdateExtBitRate(s, IF cuts THEN -ExtraStep ELSE 0)
       /\ adj' = [adj EXCEPT !.sp = sp, !.it = next.it, !.removed = next.removed,
                             !.idl = IF cuts THEN @ + Recovered(s) ELSE @]
       /\ fault' = IF rises /\ adj.removed THEN "Inconsistent removed flag."
                   ELSE IF cuts /\ IdlBitRate(s, ext) >= ExtraStep
                   THEN "Inconsistent bit rate."
                   ELSE IF cuts /\ ~ExtraOK(s, -ExtraStep)
                   THEN "Error when updating extra bit rate." ELSE "none"
       /\ UNCHANGED <<res, met>>

CutDone ==
    /\ Running /\ adj.pc = "cut" /\ (adj.it > Last \/ adj.idl >= 0)
    /\ adj' = [adj EXCEPT !.pc = "meters"]
    /\ UNCHANGED <<res, ext, met, fault>>

(* The last loop: the meters of the slices that share. *)
AdjustMeters ==
    /\ Running /\ adj.pc = "meters"
    /\ SlicingMeterAdjust({s \in Slice : Shares(s)}, res, ext)
    /\ adj' = NoAdjust
    /\ UNCHANGED <<res, ext>>

SlicingExtraAdjust ==
    /\ GrowSlice \/ GrowDone \/ TrimSlice \/ TrimDone \/ CutSlice \/ CutDone \/ AdjustMeters
    /\ UNCHANGED setting
------------------------------------------------------------------------------
(* BitRateReserve and BitRateRelease of the ring controller on this link.     *)
(* That they stay within the quota is RingController's NoAssertFails.         *)

ChangeReserved(s, d) ==
    LET newRes == [res EXCEPT ![s] = @ + d]
    IN /\ Running /\ adj.pc = "idle"
       /\ res[s] + d \in 0 .. QuoBitRate(s)
       /\ res' = newRes
       /\ SlicingMeterAdjust({s}, newRes, ext)
       /\ UNCHANGED <<setting, ext, adj>>

BitRateReserve(s, rate) == ChangeReserved(s, rate)
BitRateRelease(s, rate) == ChangeReserved(s, -rate)
------------------------------------------------------------------------------
Init ==
    /\ setting \in Setting
    /\ res = [s \in Slice |-> 0]
    /\ ext = NoExtra
    /\ met = [m \in SliceAll |->
                IF Installed(m) THEN Kbps(Target(m, UnrBitRate(res, ext))) ELSE 0]
    /\ adj = NoAdjust
    /\ fault = "none"

Next ==
    \/ \E use \in UseProfiles[setting] : SlicingDynamicTimeout(use)
    \/ SlicingExtraAdjust
    \/ \E s \in Slice, rate \in GbrRates[setting] : BitRateReserve(s, rate) \/ BitRateRelease(s, rate)

(* A simulator event that began runs to its end. *)
Spec == Init /\ [][Next]_vars /\ WF_vars(SlicingExtraAdjust)
------------------------------------------------------------------------------
TypeOK ==
    /\ setting \in Setting
    /\ res \in [Slice -> Nat]
    /\ ext \in [SliceAll -> Nat]
    /\ met \in [SliceAll -> Nat]
    /\ adj \in [pc : {"idle", "grow", "trim", "cut", "meters"},
                use : [Slice -> Nat], idl : Int, it : 0 .. Last + 1,
                sp : 1 .. Last + 1, removed : BOOLEAN, was : [SliceAll -> Nat]]
    /\ fault \in Fault

Pair == {p \in Slice \X Slice : Shares(p[1]) /\ Shares(p[2]) /\ p[1] # p[2]}

(***************************************************************************)
(* No NS_ASSERT of the adjustment fails: when the slices that use more than  *)
(* their quota are cut, none of them has a step of it idle, the removed flag  *)
(* is clear when the loop moves to a higher priority, LinkInfo accepts every  *)
(* update and no meter is asked for a negative rate.                         *)
(***************************************************************************)
NoAssertFails == fault = "none"

(***************************************************************************)
(* However often extra bit rate is granted, no slice's maximum passes what    *)
(* the slices share less the guard by half a step or more: the maximum fits   *)
(* the link when the guard is at least half a step.                          *)
(***************************************************************************)
ExtraBounded ==
    \A s \in Slice :
        ext[s] > 0 => MaxBitRate(s) < MaxShare - GuardStep + ExtraStep \div 2

(***************************************************************************)
(* Idle bit rate goes to the highest priorities first: no slice was given a   *)
(* step that an overloaded slice of higher priority has not been given.       *)
(***************************************************************************)
HigherPriorityFirst ==
    (adj.pc = "meters" /\ adj.it = 0) =>
        \A p \in Pair :
            (/\ Priority[p[1]] < Priority[p[2]]
             /\ ext[p[1]] > adj.was[p[1]]
             /\ IdlBitRate(p[2], adj.was) < ExtraStep \div 2)
               => ext[p[2]] > adj.was[p[2]]

(* What slice s lost since the loop began, and how much of what it used it    *)
(* may still use.                                                            *)
Lost(s)   == adj.was[s] - ext[s]
StillUsed == [s \in Slice |-> IF adj.use[s] < MaxBitRate(s) THEN adj.use[s]
                                                         ELSE MaxBitRate(s)]

(***************************************************************************)
(* On a congested link a slice loses extra bit rate that it uses only when    *)
(* the slices of lower priority have no step left to lose.  Slices of one     *)
(* priority take turns: none loses two steps more than another that still has *)
(* a step to lose.                                                           *)
(***************************************************************************)
CutInOrder ==
    (adj.pc \in {"cut", "meters"} /\ adj.it # 0) =>
        \A p \in Pair :
            (\/ Priority[p[1]] < Priority[p[2]] /\ Lost(p[2]) > 0
             \/ Priority[p[1]] = Priority[p[2]] /\ Lost(p[2]) > Lost(p[1]) + ExtraStep)
                => ext[p[1]] < ExtraStep

(***************************************************************************)
(* "to get the link usage below the safeguard threshold again": after the     *)
(* adjustment of a congested link, what the slices may still use of what they *)
(* used is below the threshold, or no slice has extra bit rate left to lose.  *)
(***************************************************************************)
CongestionRelieved ==
    (adj.pc = "meters" /\ adj.it # 0) =>
        \/ Total(Shared(StillUsed)) <= MaxShare - GuardStep
        \/ \A s \in Slice : ext[s] < ExtraStep

(***************************************************************************)
(* Between two events every installed meter is within MeterStep of the        *)
(* unreserved bit rate it stands for.                                        *)
(***************************************************************************)
MeterFollows ==
    adj.pc = "idle" =>
        \A m \in SliceAll :
            Installed(m) => Distance(met[m], Target(m, UnrBitRate(res, ext))) < MeterStep

(***************************************************************************)
(* The loops of the adjustment end.                                          *)
(***************************************************************************)
AdjustmentEnds == (adj.pc # "idle") ~> (adj.pc = "idle")
=============================================================================
