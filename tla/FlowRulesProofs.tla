---------------------------- MODULE FlowRulesProofs ----------------------------
(***************************************************************************)
(* For a ring of any size, any eNBs and any handovers: the switches always     *)
(* carry the bearer's packets, those in flight at a handover included, its      *)
(* meters are where its rules need them, and nothing is left behind.          *)
(***************************************************************************)
EXTENDS FlowRules, FiniteSetTheorems, TLAPS

(***************************************************************************)
(* Induction over the hops of a walk is done with the first hop that departs   *)
(* from it: a set of numbers that is not empty has a least one.               *)
(***************************************************************************)
LEMMA Least ==
    ASSUME NEW S \in SUBSET Nat, S # {}
    PROVE  \E n \in S : \A m \in S : n <= m
<1> DEFINE Upto(n) == 0 .. n
           T == {Upto(n) : n \in S}
           R == StrictSubsetOrdering(Nat)
<1>1. T \subseteq FiniteSubsetsOf(Nat) /\ T # {}
  <2>1. ASSUME NEW n \in S
        PROVE  Upto(n) \in FiniteSubsetsOf(Nat)
    <3>1. IsFiniteSet(Upto(n))
      BY FS_Interval, 0 \in Int, n \in Int
    <3>2. Upto(n) \in SUBSET Nat
      OBVIOUS
    <3> QED
      BY <3>1, <3>2 DEF FiniteSubsetsOf
  <2> QED
    BY <2>1
<1>2. IsWellFoundedOn(R, FiniteSubsetsOf(Nat))
  BY FS_StrictSubsetOrderingWellFounded
<1>3. \A n, m \in S : m < n => <<Upto(m), Upto(n)>> \in R
  <2> SUFFICES ASSUME NEW n \in S, NEW m \in S, m < n
               PROVE  <<Upto(m), Upto(n)>> \in R
    OBVIOUS
  <2>1. Upto(m) \subseteq Upto(n) /\ n \in Upto(n) /\ n \notin Upto(m)
    OBVIOUS
  <2>2. Upto(m) \in SUBSET Nat /\ Upto(n) \in SUBSET Nat
    OBVIOUS
  <2> QED
    BY <2>1, <2>2 DEF StrictSubsetOrdering
<1> HIDE DEF R
<1>4. PICK X \in T : \A Y \in T : ~ (<<Y, X>> \in R)
  BY <1>1, <1>2, WFMin
<1>5. PICK n \in S : X = Upto(n)
  BY <1>4
<1>6. \A m \in S : ~ (m < n)
  BY <1>3, <1>4, <1>5
<1> QED
  BY <1>6
------------------------------------------------------------------------------
(* Walks on the ring.                                                        *)

(* The switch k hops from src. *)
Nth(src, q, k) ==
    IF q = "CLOCK" THEN (IF src + k < N THEN src + k ELSE src + k - N)
                   ELSE (IF src - k >= 0 THEN src - k ELSE src - k + N)

LEMMA NthHop ==
    ASSUME NEW src \in Switch, NEW end \in Switch, NEW q \in RingPath,
           NEW d, d = GetNumHops(src, end, q)
    PROVE  /\ d \in 0 .. N - 1 /\ Nth(src, q, 0) = src /\ Nth(src, q, d) = end
           /\ \A k \in 0 .. d : Nth(src, q, k) \in Switch
           /\ \A k \in 0 .. d : k < d =>
                 /\ Nth(src, q, k) \in PathSwitches(src, end, q) \ {end}
                 /\ GetNextSwIdx(Nth(src, q, k), q) = Nth(src, q, k + 1)
<1>1. N \in Nat /\ N >= 3 /\ src \in Nat /\ end \in Nat /\ src < N /\ end < N
  BY NAssumption DEF Switch
<1>2. CASE q = "CLOCK"
  BY <1>1, <1>2 DEF Nth, GetNumHops, ClockwiseDistance, PathSwitches, GetNextSwIdx, Switch
<1>3. CASE q = "COUNT"
  BY <1>1, <1>3 DEF Nth, GetNumHops, ClockwiseDistance, PathSwitches, GetNextSwIdx, Switch
<1> QED
  BY <1>2, <1>3 DEF RingPath

(***************************************************************************)
(* A packet arrives if every switch on the way has a rule for it and the best  *)
(* one sends it in one and the same direction.                               *)
(***************************************************************************)
LEMMA Walk ==
    ASSUME NEW src \in Switch, NEW end \in Switch, NEW dst, NEW q \in RingPath,
           \A s \in PathSwitches(src, end, q) \ {end} :
              Matching(s, dst) # {} /\ Best(s, dst).out = q
    PROVE  Reaches(src, dst, end)
<1> DEFINE Hop(g, k) ==
              IF k = 0 THEN src
              ELSE IF g[k - 1] \in {end, Lost} THEN g[k - 1]
              ELSE IF Matching(g[k - 1], dst) = {} THEN Lost
              ELSE GetNextSwIdx(g[k - 1], Best(g[k - 1], dst).out)
           Hops(g) == [k \in 0 .. N |-> Hop(g, k)]
           at == CHOOSE g : g = Hops(g)
           d == GetNumHops(src, end, q)
           f == [k \in 0 .. N |-> IF k < d THEN Nth(src, q, k) ELSE end]
<1>1. Reaches(src, dst, end) <=> at[N] = end
  BY Zenon DEF Reaches
<1>2. /\ d \in 0 .. N - 1 /\ Nth(src, q, 0) = src /\ Nth(src, q, d) = end
      /\ \A k \in 0 .. d : k < d =>
            /\ Nth(src, q, k) \in PathSwitches(src, end, q) \ {end}
            /\ Nth(src, q, k) \in Switch
            /\ GetNextSwIdx(Nth(src, q, k), q) = Nth(src, q, k + 1)
  BY NthHop
<1> HIDE DEF d
<1>3. N \in Nat /\ Lost \notin Switch
  BY NAssumption DEF Lost, Switch
<1>4. f[0] = src /\ f[N] = end
  BY <1>2, <1>3
<1>5. \A k \in 0 .. N : k # 0 => Hop(f, k) = f[k]
  <2> SUFFICES ASSUME NEW k \in 0 .. N, k # 0 PROVE Hop(f, k) = f[k]
    OBVIOUS
  <2>1. k \in Int /\ k - 1 \in 0 .. N /\ d \in Int
    BY <1>2, <1>3
  <2>2. CASE k <= d
    <3>1. f[k - 1] = Nth(src, q, k - 1) /\ k - 1 \in 0 .. d /\ k - 1 < d /\ k - 1 + 1 = k
      BY <1>2, <2>1, <2>2
    <3>2. /\ f[k - 1] \in PathSwitches(src, end, q) \ {end} /\ f[k - 1] \in Switch
          /\ GetNextSwIdx(f[k - 1], q) = Nth(src, q, k)
      BY <1>2, <3>1
    <3>3. f[k] = Nth(src, q, k)
      BY <1>2, <2>1, <2>2
    <3> HIDE DEF f
    <3> QED
      BY <1>3, <2>1, <3>2, <3>3
  <2>3. CASE k > d
    <3>1. f[k - 1] = end /\ f[k] = end
      BY <2>1, <2>3
    <3> QED
      BY <2>1, <3>1
  <2> QED
    BY <2>1, <2>2, <2>3
<1>6. f = Hops(f)
  <2>1. \A k \in 0 .. N : Hop(f, k) = f[k]
    BY <1>4, <1>5
  <2>2. DOMAIN f = 0 .. N /\ f = [k \in 0 .. N |-> f[k]]
    OBVIOUS
  <2> HIDE DEF f, Hop
  <2> QED
    BY <2>1, <2>2
<1>7. at = Hops(at)
  <2> HIDE DEF Hops, f
  <2> QED
    BY <1>6
<1> HIDE DEF at, f
<1>8. \A k \in 0 .. N : at[k] = Hop(at, k) /\ f[k] = Hop(f, k)
  <2> HIDE DEF Hop
  <2> QED
    BY <1>6, <1>7
<1>9. \A k \in 0 .. N : at[k] = f[k]
  <2> DEFINE S == {k \in 0 .. N : at[k] # f[k]}
  <2> SUFFICES ASSUME S # {} PROVE FALSE
    OBVIOUS
  <2>1. S \in SUBSET Nat
    BY <1>3
  <2>2. PICK n \in S : \A m \in S : n <= m
    BY <2>1, Least
  <2>3. n \in 0 .. N /\ at[n] # f[n]
    BY <2>2
  <2>4. n # 0
    BY <1>3, <1>8, <2>3
  <2>5. n - 1 \in 0 .. N /\ ~(n <= n - 1)
    BY <1>3, <2>3, <2>4
  <2>6. at[n - 1] = f[n - 1]
    BY <2>2, <2>5
  <2> QED
    BY <1>8, <2>3, <2>4, <2>6
<1> QED
  BY <1>1, <1>3, <1>4, <1>9
------------------------------------------------------------------------------
(* The invariant. *)

FlagsOK ==
    /\ gwInst <=> (st # "idle" /\ ~agg)
    /\ ifInst <=> (gwInst /\ path # "LOCAL")
    /\ mbrInst = IF ifInst THEN mbr ELSE {}

(* A handover's commands are over before the next handover, and before the     *)
(* request that follows a release.  No message tells of the last priority but  *)
(* between a release and the next request.                                   *)
TimesOK ==
    /\ \A c \in later : c.left < camp /\ (st = "idle" => c.left < life)
    /\ \A m \in removed :
          m.prio <= prio /\ (m.prio = prio => st = "idle" /\ m.left < life)

Rules(c)  == c.cmd = "rules"
Gateway(c) == c.cmd = "sgw"

(* Old rules go at one time, and the meters that they name at a later one.     *)
CommandsOK ==
    \A c \in later :
        /\ c.prio = prio - 1
        /\ \A b \in later : ((c.cmd = "meter") <=> (b.cmd = "meter")) => c.left = b.left
        /\ \A b \in later : (c.cmd # "meter" /\ b.cmd = "meter") => c.left < b.left

CurrentRules == BothWays(enb, path, prio, mbr)
OldRulesAt(s) == \E c \in later : Rules(c) /\ c.sw = s

RingOK ==
    /\ ifInst => CurrentRules \subseteq ring
    /\ \A r \in ring : \/ (ifInst /\ r \in CurrentRules)
                      \/ (r.prio = prio - 1 /\ OldRulesAt(r.sw))

SgwOK ==
    /\ gwInst => [dst |-> enb, prio |-> prio] \in sgw
    /\ \A r \in sgw :
          /\ gwInst /\ r.prio <= prio
          /\ \/ r.dst = "pgw"
             \/ (r.dst = enb /\ r.prio = prio)
             \/ (r.prio = prio - 1 /\ \E c \in later : Gateway(c))

MetersUsed == {MeterSw(d, enb) : d \in mbrInst}
MetersOld  == {c.sw : c \in {x \in later : x.cmd = "meter"}}

MetersOK ==
    /\ meters = MetersUsed \cup MetersOld /\ MetersUsed \cap MetersOld = {}
    /\ \A r \in ring : r.meter => r.sw \in meters

(***************************************************************************)
(* What the last handover left: e and p are the eNB and the path before it.    *)
(* Until their time has come, the old rules of an installed bearer are all      *)
(* there.                                                                    *)
(***************************************************************************)
OldPathOK(e, p) ==
    /\ e # enb /\ ((p = "LOCAL") <=> (EnbSw[e] = SgwSw))
    /\ \A r \in sgw : r.dst = "pgw" \/ r.dst = enb \/ r.dst = e
    /\ \A r \in ring : (r.prio = prio - 1) => (p # "LOCAL" /\ r \in BothWays(e, p, prio - 1, mbr))
    /\ \A c \in later : Rules(c) => (p # "LOCAL" /\ c.sw \in OnPath(e, p))
    /\ (gwInst /\ p # "LOCAL" /\ \E c \in later : c.cmd # "meter" /\ c.left > 0)
           => BothWays(e, p, prio - 1, mbr) \subseteq ring

Inv ==
    /\ TypeOK /\ fault = "none"
    /\ FlagsOK /\ TimesOK /\ CommandsOK /\ RingOK /\ SgwOK /\ MetersOK
    /\ later # {} => \E e \in Enb, p \in Path : OldPathOK(e, p)
------------------------------------------------------------------------------
(* The delays. *)

LEMMA TicksApart ==
    ASSUME NEW a \in Nat, NEW b \in Nat, a + 50 <= b
    PROVE  Ticks(a) \in Nat /\ Ticks(b) \in Nat /\ Ticks(a) < Ticks(b)
<1>1. TickMs \in Nat /\ TickMs > 0 /\ TickMs <= 50
  BY ConstAssumption
<1>2. \A n \in Nat, k \in Nat : k > 0 =>
         n \div k \in Nat /\ k * (n \div k) <= n /\ n < k * (n \div k) + k
  OBVIOUS
<1>3. /\ Ticks(a) \in Nat /\ TickMs * Ticks(a) <= a
      /\ Ticks(b) \in Nat /\ b < TickMs * Ticks(b) + TickMs
  BY <1>1, <1>2 DEF Ticks
<1>4. ASSUME Ticks(b) <= Ticks(a) PROVE FALSE
  <2>1. \A k, m, n \in Nat : m <= n => k * m <= k * n /\ k * m \in Nat /\ k * n \in Nat
    OBVIOUS
  <2>2. TickMs * Ticks(b) <= TickMs * Ticks(a) /\ TickMs * Ticks(b) \in Nat
        /\ TickMs * Ticks(a) \in Nat
    BY <1>1, <1>3, <1>4, <2>1
  <2> QED
    BY <1>1, <1>3, <2>2
<1> QED
  BY <1>3, <1>4

LEMMA Delays ==
    /\ OldRulesDelay \in Nat /\ OldMetersDelay \in Nat /\ Sec \in Nat /\ TimeToTrigger \in Nat
    /\ OldRulesDelay < OldMetersDelay /\ OldMetersDelay < TimeToTrigger /\ OldMetersDelay < Sec
    /\ Latency \in Nat /\ Latency < Sec
<1>1. Ticks(250) \in Nat /\ Ticks(300) \in Nat /\ Ticks(250) < Ticks(300)
  BY TicksApart
<1>2. Ticks(512) \in Nat /\ Ticks(300) < Ticks(512)
  BY TicksApart
<1>3. Ticks(1000) \in Nat /\ Ticks(300) < Ticks(1000)
  BY TicksApart
<1>4. Latency \in 0 .. Sec - 1
  BY ConstAssumption
<1> QED
  BY <1>1, <1>2, <1>3, <1>4 DEF OldRulesDelay, OldMetersDelay, Sec, TimeToTrigger
------------------------------------------------------------------------------
(* Paths between the S-GW and an eNB, and the rules along them.               *)

LEMMA Switches ==
    /\ SgwSw \in Switch /\ \A e \in Enb : EnbSw[e] \in Switch /\ e # "sgw" /\ e # "pgw"
    /\ Switch \subseteq Int
BY ConstAssumption, NAssumption DEF Switch

LEMMA PathType ==
    ASSUME NEW p \in Path
    PROVE  /\ InvertPath(p) \in Path /\ (p = "LOCAL" <=> InvertPath(p) = "LOCAL")
           /\ p # "LOCAL" => p \in RingPath /\ InvertPath(p) \in RingPath /\ p # InvertPath(p)
           /\ InvertPath(InvertPath(p)) = p
BY DEF Path, RingPath, InvertPath

LEMMA ShortPathType ==
    ASSUME NEW a, NEW b
    PROVE  GetShortPath(a, b) \in Path /\ (GetShortPath(a, b) = "LOCAL" <=> a = b)
BY DEF Path, GetShortPath

(* A path and its inversion from the other end meet the same switches.         *)
LEMMA OnPathBothWays ==
    ASSUME NEW e \in Enb, NEW p \in RingPath
    PROVE  /\ OnPath(e, p) \subseteq Switch
           /\ SgwSw \in OnPath(e, p) /\ EnbSw[e] \in OnPath(e, p)
           /\ PathSwitches(EnbSw[e], SgwSw, InvertPath(p)) = OnPath(e, p)
<1>1. N \in Nat /\ SgwSw \in 0 .. N - 1 /\ EnbSw[e] \in 0 .. N - 1
  BY Switches, NAssumption DEF Switch
<1>2. CASE p = "CLOCK"
  BY <1>1, <1>2 DEF OnPath, PathSwitches, InvertPath, ClockwiseDistance, Switch
<1>3. CASE p = "COUNT"
  BY <1>1, <1>3 DEF OnPath, PathSwitches, InvertPath, ClockwiseDistance, Switch
<1> QED
  BY <1>2, <1>3 DEF RingPath

Down(e, p, pr, met, s) ==
    [sw |-> s, dst |-> e, prio |-> pr, out |-> p, meter |-> "DL" \in met /\ s = SgwSw]
Up(e, p, pr, met, s) ==
    [sw |-> s, dst |-> "sgw", prio |-> pr, out |-> InvertPath(p),
     meter |-> "UL" \in met /\ s = EnbSw[e]]

LEMMA RulesForm ==
    ASSUME NEW e \in Enb, NEW p \in RingPath, NEW pr, NEW met, NEW r
    PROVE  r \in BothWays(e, p, pr, met) <=>
              \/ \E s \in OnPath(e, p) : s # EnbSw[e] /\ r = Down(e, p, pr, met, s)
              \/ \E s \in OnPath(e, p) : s # SgwSw /\ r = Up(e, p, pr, met, s)
<1>1. PathSwitches(EnbSw[e], SgwSw, InvertPath(p)) = OnPath(e, p)
  BY OnPathBothWays
<1> QED
  BY <1>1 DEF BothWays, RulesOf, OnPath, Down, Up

LEMMA RuleFields ==
    ASSUME NEW e \in Enb, NEW p \in RingPath, NEW pr, NEW met, NEW r \in BothWays(e, p, pr, met)
    PROVE  /\ r.prio = pr /\ r.sw \in OnPath(e, p) /\ r.dst \in {e, "sgw"}
           /\ r.dst = e => r = Down(e, p, pr, met, r.sw) /\ r.sw # EnbSw[e] /\ r.out = p
           /\ r.dst = "sgw" => r = Up(e, p, pr, met, r.sw) /\ r.sw # SgwSw
                               /\ r.out = InvertPath(p)
           /\ r.meter => \/ "DL" \in met /\ r.sw = MeterSw("DL", e)
                         \/ "UL" \in met /\ r.sw = MeterSw("UL", e)
           /\ (pr \in 0 .. MaxPrio) => r \in Rule
<1>1. e # "sgw"
  BY Switches
<1>2. InvertPath(p) \in RingPath /\ OnPath(e, p) \subseteq Switch
  BY PathType, OnPathBothWays DEF Path, RingPath
<1>3. ASSUME NEW s \in OnPath(e, p), s # EnbSw[e], r = Down(e, p, pr, met, s)
      PROVE  /\ r.sw = s /\ r.prio = pr /\ r.dst = e /\ r.out = p
             /\ r.meter = ("DL" \in met /\ s = SgwSw)
             /\ (pr \in 0 .. MaxPrio) => r \in Rule
  BY <1>2, <1>3 DEF Down, Rule
<1>4. ASSUME NEW s \in OnPath(e, p), s # SgwSw, r = Up(e, p, pr, met, s)
      PROVE  /\ r.sw = s /\ r.prio = pr /\ r.dst = "sgw" /\ r.out = InvertPath(p)
             /\ r.meter = ("UL" \in met /\ s = EnbSw[e])
             /\ (pr \in 0 .. MaxPrio) => r \in Rule
  BY <1>2, <1>4 DEF Up, Rule
<1>5. MeterSw("DL", e) = SgwSw /\ MeterSw("UL", e) = EnbSw[e]
  BY DEF MeterSw
<1>6. CASE \E s \in OnPath(e, p) : s # EnbSw[e] /\ r = Down(e, p, pr, met, s)
  BY <1>1, <1>3, <1>5, <1>6
<1>7. CASE \E s \in OnPath(e, p) : s # SgwSw /\ r = Up(e, p, pr, met, s)
  <2>1. PICK s \in OnPath(e, p) : s # SgwSw /\ r = Up(e, p, pr, met, s)
    BY <1>7
  <2>2. /\ r.sw = s /\ r.prio = pr /\ r.dst = "sgw" /\ r.out = InvertPath(p)
        /\ r.meter = ("UL" \in met /\ s = EnbSw[e])
        /\ (pr \in 0 .. MaxPrio) => r \in Rule
    BY <1>4, <2>1
  <2> QED
    BY <1>1, <1>5, <2>1, <2>2
<1> QED
  BY <1>6, <1>7, RulesForm

LEMMA MetersOnPath ==
    ASSUME NEW e \in Enb, NEW p \in RingPath, NEW d
    PROVE  MeterSw(d, e) \in OnPath(e, p) /\ MeterSw(d, e) \in Switch
BY OnPathBothWays, Switches DEF MeterSw
------------------------------------------------------------------------------
(* What the invariant says of the states in which an action is enabled.       *)

LEMMA Types ==
    ASSUME TypeOK
    PROVE  /\ prio \in Int /\ 0 <= prio /\ prio <= MaxPrio /\ MaxPrio \in Nat
           /\ life \in Int /\ life >= 0 /\ camp \in Int /\ camp >= 0
           /\ \A c \in later : /\ c.left \in Int /\ 0 <= c.left /\ c.left <= OldMetersDelay
                               /\ c.left < Sec /\ c.left < TimeToTrigger
                               /\ c.cmd \in {"rules", "sgw", "meter"} /\ c.sw \in Switch
           /\ \A m \in removed : /\ m.left \in Int /\ 0 <= m.left /\ m.left <= Latency
                                 /\ m.left < Sec /\ m.prio \in Int
           /\ \A r \in ring : r.prio \in Int /\ r.sw \in Switch
           /\ \A r \in sgw : r.prio \in Int
<1>1. MaxPrio \in Nat
  BY ConstAssumption
<1>2. prio \in Int /\ 0 <= prio /\ prio <= MaxPrio
  BY <1>1 DEF TypeOK
<1>3. life \in Int /\ life >= 0 /\ camp \in Int /\ camp >= 0
  BY Delays DEF TypeOK
<1>4. ASSUME NEW c \in later
      PROVE  /\ c.left \in 0 .. OldMetersDelay /\ c.cmd \in {"rules", "sgw", "meter"}
             /\ c.sw \in Switch
  BY <1>4 DEF TypeOK
<1>5. ASSUME NEW m \in removed PROVE m.left \in 0 .. Latency /\ m.prio \in 0 .. MaxPrio
  BY <1>5 DEF TypeOK
<1>6. \A r \in ring : r.prio \in 0 .. MaxPrio /\ r.sw \in Switch
  BY DEF TypeOK, Rule
<1>7. \A r \in sgw : r.prio \in 0 .. MaxPrio
  BY DEF TypeOK
<1> QED
  BY <1>1, <1>2, <1>3, <1>4, <1>5, <1>6, <1>7, Delays

LEMMA NothingPending ==
    ASSUME Inv
    PROVE  /\ camp = 0 => later = {}
           /\ (st = "idle" /\ life = 0) => later = {} /\ \A m \in removed : m.prio < prio
<1>1. TypeOK /\ TimesOK
  BY DEF Inv
<1>2. /\ \A c \in later : c.left \in Int /\ c.left >= 0
      /\ \A m \in removed : m.left \in Int /\ m.left >= 0 /\ m.prio \in Int
      /\ prio \in Int
  BY <1>1, Types
<1> QED
  BY <1>1, <1>2 DEF TimesOK

LEMMA Clean ==
    ASSUME Inv, later = {}
    PROVE  /\ ~gwInst => ring = {} /\ sgw = {} /\ meters = {} /\ mbrInst = {} /\ ~ifInst
           /\ ~ifInst => ring = {}
           /\ ifInst => ring = CurrentRules
           /\ MetersOld = {} /\ meters = MetersUsed
           /\ \A r \in sgw : r.dst = "pgw" \/ (r.dst = enb /\ r.prio = prio)
<1>1. FlagsOK /\ RingOK /\ SgwOK /\ MetersOK
  BY DEF Inv
<1>2. MetersOld = {} /\ \A s : ~OldRulesAt(s)
  BY DEF MetersOld, OldRulesAt
<1>3. ~ifInst => ring = {} /\ mbrInst = {}
  BY <1>1, <1>2 DEF RingOK, FlagsOK
<1>4. ifInst => ring = CurrentRules
  BY <1>1, <1>2 DEF RingOK
<1>5. meters = MetersUsed /\ (mbrInst = {} => MetersUsed = {})
  BY <1>1, <1>2 DEF MetersOK, MetersUsed
<1>6. ~gwInst => sgw = {} /\ ~ifInst
  BY <1>1 DEF SgwOK, FlagsOK
<1>7. \A r \in sgw : r.dst = "pgw" \/ (r.dst = enb /\ r.prio = prio)
  BY <1>1 DEF SgwOK, Gateway
<1> QED
  BY <1>2, <1>3, <1>4, <1>5, <1>6, <1>7

(* Of a bearer whose rules are installed, the rules of the last priority are    *)
(* those of its path, and its meters those of the ends of it.                *)
LEMMA Current ==
    ASSUME Inv, ifInst
    PROVE  /\ path \in RingPath /\ gwInst /\ mbrInst = mbr /\ CurrentRules \subseteq ring
           /\ EnbSw[enb] # SgwSw /\ enb \in Enb
           /\ \A r \in ring : r.prio = prio => r \in CurrentRules
           /\ \A r \in CurrentRules :
                 /\ r.prio = prio /\ r.sw \in OnPath(enb, path)
                 /\ r.meter => r.sw \in MetersUsed
           /\ MetersUsed \subseteq OnPath(enb, path)
<1>1. TypeOK /\ FlagsOK /\ RingOK
  BY DEF Inv
<1>2. /\ path \in Path /\ path # "LOCAL" /\ gwInst /\ mbrInst = mbr
      /\ EnbSw[enb] # SgwSw /\ enb \in Enb
  BY <1>1 DEF FlagsOK, TypeOK
<1>3. path \in RingPath
  BY <1>2, PathType
<1>4. prio \in Int
  BY <1>1, Types
<1>5. \A r \in CurrentRules :
         /\ r.prio = prio /\ r.sw \in OnPath(enb, path)
         /\ r.meter => \/ "DL" \in mbr /\ r.sw = MeterSw("DL", enb)
                       \/ "UL" \in mbr /\ r.sw = MeterSw("UL", enb)
  BY <1>2, <1>3, RuleFields DEF CurrentRules
<1>6. \A d \in mbr : MeterSw(d, enb) \in MetersUsed
  BY <1>2 DEF MetersUsed
<1>7. MetersUsed \subseteq OnPath(enb, path)
  BY <1>2, <1>3, MetersOnPath DEF MetersUsed
<1> QED
  BY <1>1, <1>2, <1>3, <1>4, <1>5, <1>6, <1>7 DEF RingOK
------------------------------------------------------------------------------
(* Each step keeps the invariant. *)

OldPaths == later # {} => \E e \in Enb, p \in Path : OldPathOK(e, p)
SwitchesOK == CommandsOK /\ RingOK /\ SgwOK /\ MetersOK /\ OldPaths

LEMMA InvParts ==
    /\ Inv <=> TypeOK /\ fault = "none" /\ FlagsOK /\ TimesOK /\ SwitchesOK
    /\ Inv' <=> TypeOK' /\ fault' = "none" /\ FlagsOK' /\ TimesOK' /\ SwitchesOK'
BY DEF Inv, SwitchesOK, OldPaths

LEMMA SwitchesKept ==
    ASSUME Inv, UNCHANGED <<enb, path, mbr, bearer, switches, later>>
    PROVE  SwitchesOK'
<1>1. SwitchesOK
  BY InvParts
<1>2. UNCHANGED <<enb, path, mbr, gwInst, ifInst, mbrInst, prio, ring, sgw, meters, later>>
  BY DEF bearer, switches
<1>3. CommandsOK'
  BY <1>1, <1>2 DEF SwitchesOK, CommandsOK
<1>4. RingOK'
  <2>1. CurrentRules' = CurrentRules /\ \A s : OldRulesAt(s)' <=> OldRulesAt(s)
    BY <1>2 DEF CurrentRules, OldRulesAt
  <2> QED
    BY <1>1, <1>2, <2>1 DEF SwitchesOK, RingOK
<1>5. SgwOK'
  BY <1>1, <1>2 DEF SwitchesOK, SgwOK
<1>6. MetersOK'
  BY <1>1, <1>2 DEF SwitchesOK, MetersOK, MetersUsed, MetersOld, MeterSw
<1>7. OldPaths'
  BY <1>1, <1>2 DEF SwitchesOK, OldPaths, OldPathOK
<1> QED
  BY <1>3, <1>4, <1>5, <1>6, <1>7 DEF SwitchesOK

LEMMA StopInv ==
    ASSUME Inv, Stop
    PROVE  Inv'
<1>1. TypeOK /\ FlagsOK /\ TimesOK /\ fault = "none"
  BY DEF Inv
<1>2. SwitchesOK'
  BY SwitchesKept DEF Stop
<1>3. TypeOK' /\ fault' = "none"
  BY <1>1, Delays DEF Stop, TypeOK, bearer, switches
<1>4. FlagsOK'
  BY <1>1 DEF Stop, FlagsOK, bearer
<1>5. TimesOK'
  BY <1>1 DEF Stop, TimesOK, bearer
<1> QED
  BY <1>2, <1>3, <1>4, <1>5, InvParts

LEMMA HandleFlowRemovedInv ==
    ASSUME Inv, NEW m \in removed, HandleFlowRemoved(m)
    PROVE  Inv'
<1>1. TypeOK /\ FlagsOK /\ TimesOK /\ fault = "none"
  BY DEF Inv
<1>2. SwitchesOK'
  BY SwitchesKept DEF HandleFlowRemoved
<1>3. fault' = "none"
  <2>1. m.prio \in Int /\ prio \in Int
    BY <1>1, Types
  <2>2. st = "active" => prio > m.prio
    BY <1>1, <2>1 DEF TimesOK
  <2> QED
    BY <2>2 DEF HandleFlowRemoved, Check
<1>4. TypeOK'
  BY <1>1, <1>3 DEF HandleFlowRemoved, TypeOK, Fault, bearer, switches
<1>5. FlagsOK'
  BY <1>1 DEF HandleFlowRemoved, FlagsOK, bearer
<1>6. TimesOK'
  BY <1>1 DEF HandleFlowRemoved, TimesOK, bearer
<1> QED
  BY <1>2, <1>3, <1>4, <1>5, <1>6, InvParts

LEMMA StutterInv ==
    ASSUME Inv, UNCHANGED vars
    PROVE  Inv'
<1>1. TypeOK /\ FlagsOK /\ TimesOK /\ fault = "none"
  BY DEF Inv
<1>2. SwitchesOK'
  BY SwitchesKept DEF vars, bearer, switches
<1>3. TypeOK' /\ fault' = "none"
  BY <1>1 DEF vars, TypeOK
<1>4. FlagsOK' /\ TimesOK'
  BY <1>1 DEF vars, FlagsOK, TimesOK
<1> QED
  BY <1>2, <1>3, <1>4, InvParts

LEMMA InitInv == Init => Inv
<1> SUFFICES ASSUME Init PROVE Inv
  OBVIOUS
<1>1. TypeOK
  <2>1. EnbSw[enb] \in Switch /\ MaxPrio \in Nat /\ \A m \in Metered : m \subseteq {"DL", "UL"}
    BY ConstAssumption, Switches DEF Init
  <2>2. path \in Path
    BY ShortPathType DEF Init
  <2>3. 0 \in 0 .. MaxPrio /\ 0 \in 0 .. Sec /\ 0 \in 0 .. TimeToTrigger
    BY <2>1, Delays
  <2> QED
    BY <2>2, <2>3 DEF Init, TypeOK, Fault
<1>2. FlagsOK /\ TimesOK /\ CommandsOK
  BY DEF Init, FlagsOK, TimesOK, CommandsOK
<1>3. RingOK /\ SgwOK
  BY DEF Init, RingOK, SgwOK
<1>4. MetersOK
  BY DEF Init, MetersOK, MetersUsed, MetersOld
<1> QED
  BY <1>1, <1>2, <1>3, <1>4 DEF Inv, Init

(* Time passes: whatever is under way comes nearer.                          *)
LEMMA TickFields ==
    ASSUME TypeOK, Tick
    PROVE  /\ \A y \in later' : \E x \in later :
                 y.left = x.left - 1 /\ y.cmd = x.cmd /\ y.sw = x.sw /\ y.prio = x.prio
           /\ \A x \in later : \E y \in later' :
                 y.left = x.left - 1 /\ y.cmd = x.cmd /\ y.sw = x.sw /\ y.prio = x.prio
           /\ \A y \in removed' : \E x \in removed : y.left = x.left - 1 /\ y.prio = x.prio
           /\ \A x \in later \cup removed : x.left > 0
           /\ later' \subseteq [left : 0 .. OldMetersDelay, cmd : {"rules", "sgw", "meter"},
                                sw : Switch, prio : 0 .. MaxPrio]
           /\ removed' \subseteq [left : 0 .. Latency, prio : 0 .. MaxPrio]
<1> DEFINE Dec(x) == [x EXCEPT !.left = @ - 1]
           Cmd == [left : 0 .. OldMetersDelay, cmd : {"rules", "sgw", "meter"},
                   sw : Switch, prio : 0 .. MaxPrio]
           Msg == [left : 0 .. Latency, prio : 0 .. MaxPrio]
<1>1. \A x \in later \cup removed : x.left > 0
  BY DEF Tick
<1>2. ASSUME NEW x \in later
      PROVE  /\ Dec(x).left = x.left - 1 /\ Dec(x).cmd = x.cmd /\ Dec(x).sw = x.sw
             /\ Dec(x).prio = x.prio /\ Dec(x) \in Cmd
  <2>1. x \in Cmd /\ x.left > 0
    BY <1>1, <1>2 DEF TypeOK
  <2>2. x.left - 1 \in 0 .. OldMetersDelay
    BY <2>1, Delays
  <2> QED
    BY <2>1, <2>2
<1>3. ASSUME NEW x \in removed
      PROVE  Dec(x).left = x.left - 1 /\ Dec(x).prio = x.prio /\ Dec(x) \in Msg
  <2>1. x \in Msg /\ x.left > 0
    BY <1>1, <1>3 DEF TypeOK
  <2>2. x.left - 1 \in 0 .. Latency
    BY <2>1, Delays
  <2> QED
    BY <2>1, <2>2
<1>4. later' = {Dec(x) : x \in later} /\ removed' = {Dec(x) : x \in removed}
  BY DEF Tick, Sooner
<1> HIDE DEF Dec
<1>5. /\ \A y \in later' : \E x \in later :
            y.left = x.left - 1 /\ y.cmd = x.cmd /\ y.sw = x.sw /\ y.prio = x.prio
      /\ \A x \in later : \E y \in later' :
            y.left = x.left - 1 /\ y.cmd = x.cmd /\ y.sw = x.sw /\ y.prio = x.prio
      /\ later' \subseteq Cmd
  BY <1>2, <1>4
<1>6. /\ \A y \in removed' : \E x \in removed : y.left = x.left - 1 /\ y.prio = x.prio
      /\ removed' \subseteq Msg
  BY <1>3, <1>4
<1> QED
  BY <1>1, <1>5, <1>6

LEMMA TickInv ==
    ASSUME Inv, Tick
    PROVE  Inv'
<1>1. TypeOK /\ FlagsOK /\ TimesOK /\ fault = "none" /\ SwitchesOK
  BY InvParts
<1>2. UNCHANGED <<enb, st, agg, path, mbr, gwInst, ifInst, mbrInst, prio, ring, sgw, meters, fault>>
  BY DEF Tick, bearer, switches
<1>3. /\ \A y \in later' : \E x \in later :
            y.left = x.left - 1 /\ y.cmd = x.cmd /\ y.sw = x.sw /\ y.prio = x.prio
      /\ \A x \in later : \E y \in later' :
            y.left = x.left - 1 /\ y.cmd = x.cmd /\ y.sw = x.sw /\ y.prio = x.prio
      /\ \A y \in removed' : \E x \in removed : y.left = x.left - 1 /\ y.prio = x.prio
      /\ \A x \in later \cup removed : x.left > 0
  BY <1>1, TickFields
<1>4. /\ \A x \in later \cup removed : x.left \in Int
      /\ life \in Int /\ life >= 0 /\ camp \in Int /\ camp >= 0
  BY <1>1, Types
<1>5. life' = Less(life) /\ camp' = Less(camp)
  BY DEF Tick
<1>6. TypeOK'
  <2>1. life' \in 0 .. Sec /\ camp' \in 0 .. TimeToTrigger
    BY <1>1, <1>4, <1>5, Delays DEF TypeOK, Less
  <2> QED
    BY <1>1, <1>2, <2>1, TickFields DEF TypeOK
<1>7. FlagsOK'
  BY <1>1, <1>2 DEF FlagsOK
<1>8. TimesOK'
  <2>1. ASSUME NEW y \in later' PROVE y.left < camp' /\ (st = "idle" => y.left < life')
    <3>1. PICK x \in later : y.left = x.left - 1
      BY <1>3
    <3>2. x.left > 0 /\ x.left < camp /\ (st = "idle" => x.left < life)
      BY <1>1, <1>3 DEF TimesOK
    <3> QED
      BY <1>4, <1>5, <3>1, <3>2 DEF Less
  <2>2. ASSUME NEW y \in removed'
        PROVE  y.prio <= prio /\ (y.prio = prio => st = "idle" /\ y.left < life')
    <3>1. PICK x \in removed : y.left = x.left - 1 /\ y.prio = x.prio
      BY <1>3
    <3>2. x.left > 0 /\ x.prio <= prio /\ (x.prio = prio => st = "idle" /\ x.left < life)
      BY <1>1, <1>3 DEF TimesOK
    <3> QED
      BY <1>4, <1>5, <3>1, <3>2 DEF Less
  <2> QED
    BY <1>2, <2>1, <2>2 DEF TimesOK
<1>9. CommandsOK'
  <2>1. ASSUME NEW y \in later', NEW z \in later'
        PROVE  /\ y.prio = prio - 1
               /\ ((y.cmd = "meter") <=> (z.cmd = "meter")) => y.left = z.left
               /\ (y.cmd # "meter" /\ z.cmd = "meter") => y.left < z.left
    <3>1. PICK x \in later : y.left = x.left - 1 /\ y.cmd = x.cmd /\ y.prio = x.prio
      BY <1>3
    <3>2. PICK w \in later : z.left = w.left - 1 /\ z.cmd = w.cmd
      BY <1>3
    <3>3. /\ x.prio = prio - 1
          /\ ((x.cmd = "meter") <=> (w.cmd = "meter")) => x.left = w.left
          /\ (x.cmd # "meter" /\ w.cmd = "meter") => x.left < w.left
      BY <1>1 DEF SwitchesOK, CommandsOK
    <3>4. x.left \in Int /\ w.left \in Int
      BY <1>4
    <3> QED
      BY <3>1, <3>2, <3>3, <3>4
  <2> QED
    BY <1>2, <2>1 DEF CommandsOK
<1>10. \A s : OldRulesAt(s) => OldRulesAt(s)'
  <2> SUFFICES ASSUME NEW s, OldRulesAt(s) PROVE OldRulesAt(s)'
    OBVIOUS
  <2>1. PICK x \in later : x.cmd = "rules" /\ x.sw = s
    BY DEF OldRulesAt, Rules
  <2>2. PICK y \in later' : y.cmd = x.cmd /\ y.sw = x.sw
    BY <1>3
  <2> QED
    BY <2>1, <2>2 DEF OldRulesAt, Rules
<1>11. RingOK'
  <2>1. CurrentRules' = CurrentRules
    BY <1>2 DEF CurrentRules
  <2> QED
    BY <1>1, <1>2, <1>10, <2>1 DEF SwitchesOK, RingOK
<1>12. SgwOK'
  <2>1. (\E c \in later : Gateway(c)) => \E c \in later' : Gateway(c)
    BY <1>3 DEF Gateway
  <2> QED
    BY <1>1, <1>2, <2>1 DEF SwitchesOK, SgwOK
<1>13. MetersOK'
  <2>1. MetersOld' = MetersOld
    BY <1>3 DEF MetersOld
  <2>2. MetersUsed' = MetersUsed
    BY <1>2 DEF MetersUsed, MeterSw
  <2> QED
    BY <1>1, <1>2, <2>1, <2>2 DEF SwitchesOK, MetersOK
<1>14. OldPaths'
  <2> SUFFICES ASSUME later' # {} PROVE \E e \in Enb, p \in Path : OldPathOK(e, p)'
    BY DEF OldPaths
  <2>1. later # {}
    BY <1>3
  <2>2. PICK e \in Enb, p \in Path : OldPathOK(e, p)
    BY <1>1, <2>1 DEF SwitchesOK, OldPaths
  <2>3. \A c \in later' : Rules(c) => (p # "LOCAL" /\ c.sw \in OnPath(e, p))
    BY <1>3, <2>2 DEF OldPathOK, Rules
  <2>4. (\E c \in later' : c.cmd # "meter" /\ c.left > 0)
           => \E c \in later : c.cmd # "meter" /\ c.left > 0
    BY <1>3
  <2> QED
    BY <1>2, <2>2, <2>3, <2>4 DEF OldPathOK
<1> QED
  BY <1>1, <1>2, <1>6, <1>7, <1>8, <1>9, <1>11, <1>12, <1>13, <1>14, InvParts DEF SwitchesOK

(* A message of a deleted rule tells of its priority, with the greatest delay.  *)
LEMMA ToldFields ==
    ASSUME TypeOK, NEW gone, removed' = Told(gone), \A r \in gone : r.prio \in 0 .. MaxPrio
    PROVE  /\ \A m \in removed' : m \in removed \/
                  \E r \in gone : m.left = Latency /\ m.prio = r.prio
           /\ removed' \subseteq [left : 0 .. Latency, prio : 0 .. MaxPrio]
<1>1. removed \subseteq [left : 0 .. Latency, prio : 0 .. MaxPrio] /\ Latency \in 0 .. Latency
  BY Delays DEF TypeOK
<1> QED
  BY <1>1 DEF Told

(* An aggregated bearer has nothing to delete.                               *)
LEMMA ReleaseAggregated ==
    ASSUME Inv, Release, agg
    PROVE  Inv'
<1>1. TypeOK /\ FlagsOK /\ TimesOK /\ fault = "none"
  BY DEF Inv
<1>2. UNCHANGED <<enb, agg, path, mbr, bearer, switches, later, removed, camp, fault>>
      /\ st' = "idle" /\ life' = Sec
  BY DEF Release
<1>3. SwitchesOK'
  BY <1>2, SwitchesKept
<1>4. TypeOK'
  BY <1>1, <1>2, Delays DEF TypeOK, bearer, switches
<1>5. FlagsOK'
  BY <1>1, <1>2 DEF FlagsOK, bearer
<1>6. TimesOK'
  <2>1. /\ \A c \in later : c.left < Sec
        /\ \A m \in removed : m.left < Sec
    BY <1>1, Types
  <2> QED
    BY <1>1, <1>2, <2>1 DEF TimesOK, bearer
<1> QED
  BY <1>2, <1>1, <1>3, <1>4, <1>5, <1>6, InvParts

LEMMA ReleaseInv ==
    ASSUME Inv, Release, ~agg
    PROVE  Inv'
<1> DEFINE gone == {r \in ring : r.sw \in OnPath(enb, path)}
           all  == IF ifInst THEN gone \cup sgw ELSE sgw
<1>1. TypeOK /\ FlagsOK /\ TimesOK /\ fault = "none" /\ SwitchesOK
  BY InvParts
<1>2. st = "stopped" /\ gwInst
  BY <1>1 DEF Release, FlagsOK
<1>3. /\ st' = "idle" /\ life' = Sec /\ sgw' = {} /\ gwInst' = FALSE /\ fault' = "none"
      /\ UNCHANGED <<enb, agg, path, mbr, prio, later, camp>>
  BY <1>2 DEF Release, Check
<1>4. RulesRemove
  BY DEF Release
<1>5. ifInst' = FALSE /\ mbrInst' = {} /\ removed' = Told(all)
  BY <1>1, <1>4 DEF RulesRemove, FlagsOK
<1>6. /\ ring' \subseteq ring
      /\ ring' = IF ifInst THEN ring \ gone ELSE ring
      /\ meters' = IF ifInst THEN meters \ MetersUsed ELSE meters
  BY <1>4 DEF RulesRemove, MetersUsed
<1>7. \A r \in all : r.prio \in 0 .. MaxPrio /\ r.prio <= prio
  <2>1. \A r \in ring : r.prio \in 0 .. MaxPrio /\ r.prio <= prio
    <3>1. \A r \in ring : r.prio \in 0 .. MaxPrio /\ r.prio \in Int
      BY <1>1, Types DEF TypeOK, Rule
    <3>2. prio \in Int
      BY <1>1, Types
    <3>3. ifInst => \A r \in CurrentRules : r.prio = prio
      BY Current
    <3> QED
      BY <1>1, <3>1, <3>2, <3>3 DEF SwitchesOK, RingOK
  <2>2. \A r \in sgw : r.prio \in 0 .. MaxPrio /\ r.prio <= prio
    BY <1>1 DEF TypeOK, SwitchesOK, SgwOK
  <2> QED
    BY <2>1, <2>2
<1>8. MetersOld' = MetersOld /\ MetersUsed' = {} /\ (~ifInst => MetersUsed = {})
  BY <1>1, <1>3, <1>5 DEF MetersOld, MetersUsed, FlagsOK
<1>9. \A r \in ring' : /\ r.prio = prio - 1 /\ OldRulesAt(r.sw)
                       /\ r.sw \notin MetersUsed
  <2>1. CASE ifInst
    <3>1. \A r \in ring' : r.sw \notin OnPath(enb, path)
      BY <1>6, <2>1
    <3> QED
      BY <1>1, <1>6, <2>1, <3>1, Current DEF SwitchesOK, RingOK
  <2>2. CASE ~ifInst
    BY <1>1, <1>6, <1>8, <2>2 DEF SwitchesOK, RingOK
  <2> QED
    BY <2>1, <2>2
<1>10. /\ \A m \in removed' : m \in removed \/
              \E r \in all : m.left = Latency /\ m.prio = r.prio
       /\ removed' \subseteq [left : 0 .. Latency, prio : 0 .. MaxPrio]
  BY <1>1, <1>5, <1>7, ToldFields
<1> HIDE DEF all
<1>11. TypeOK'
  <2>1. meters' \subseteq Switch /\ ring' \subseteq Rule
    BY <1>1, <1>6 DEF TypeOK
  <2>2. sgw' \subseteq [dst : Enb \cup {"pgw"}, prio : 0 .. MaxPrio]
    BY <1>3
  <2>3. life' \in 0 .. Sec
    BY <1>3, Delays
  <2> QED
    BY <1>1, <1>3, <1>5, <1>10, <2>1, <2>2, <2>3 DEF TypeOK
<1>12. FlagsOK'
  BY <1>3, <1>5 DEF FlagsOK
<1>13. TimesOK'
  <2>1. \A c \in later : c.left < Sec
    BY <1>1, Types
  <2>2. \A m \in removed' : m.prio <= prio /\ m.left < Sec
    <3>1. \A m \in removed : m.prio <= prio /\ m.left < Sec
      BY <1>1, Types DEF TimesOK
    <3> QED
      BY <1>7, <1>10, <3>1, Delays
  <2> QED
    BY <1>1, <1>3, <2>1, <2>2 DEF TimesOK
<1>14. CommandsOK'
  BY <1>1, <1>3 DEF SwitchesOK, CommandsOK
<1>15. RingOK'
  <2>1. \A s : OldRulesAt(s)' <=> OldRulesAt(s)
    BY <1>3 DEF OldRulesAt
  <2> QED
    BY <1>3, <1>5, <1>9, <2>1 DEF RingOK
<1>16. SgwOK'
  BY <1>3 DEF SgwOK
<1>17. MetersOK'
  <2>1. meters' = MetersOld
    BY <1>1, <1>6, <1>8 DEF SwitchesOK, MetersOK
  <2>2. \A r \in ring' : r.meter => r.sw \in MetersOld
    BY <1>1, <1>6, <1>9 DEF SwitchesOK, MetersOK
  <2> QED
    BY <1>8, <2>1, <2>2 DEF MetersOK
<1>18. OldPaths'
  <2> SUFFICES ASSUME later' # {} PROVE \E e \in Enb, p \in Path : OldPathOK(e, p)'
    BY DEF OldPaths
  <2>1. PICK e \in Enb, p \in Path : OldPathOK(e, p)
    BY <1>1, <1>3 DEF SwitchesOK, OldPaths
  <2> QED
    BY <1>3, <1>6, <2>1 DEF OldPathOK
<1> QED
  BY <1>3, <1>11, <1>12, <1>13, <1>14, <1>15, <1>16, <1>17, <1>18, InvParts DEF SwitchesOK

(***************************************************************************)
(* A command deletes what a handover left: rules of the priority before, or a  *)
(* meter that no rule names any more.                                        *)
(***************************************************************************)
LEMMA ExecuteGone ==
    ASSUME Inv, NEW c \in later, Execute(c)
    PROVE  /\ UNCHANGED <<enb, st, agg, path, mbr, gwInst, ifInst, mbrInst, prio, life, camp, fault>>
           /\ later' = later \ {c}
           /\ ring' = IF Rules(c) THEN {r \in ring : ~(r.prio = prio - 1 /\ r.sw = c.sw)} ELSE ring
           /\ sgw' = IF Gateway(c) THEN {r \in sgw : ~(r.prio = prio - 1 /\ r.dst # "pgw")} ELSE sgw
           /\ meters' = IF c.cmd = "meter" THEN meters \ {c.sw} ELSE meters
           /\ \A m \in removed' : m \in removed \/ m.prio = prio - 1
           /\ removed' \subseteq [left : 0 .. Latency, prio : 0 .. MaxPrio]
<1>1. TypeOK /\ c.prio = prio - 1 /\ c.cmd \in {"rules", "sgw", "meter"}
  BY Types DEF Inv, CommandsOK
<1>2. /\ UNCHANGED <<enb, st, agg, path, mbr, gwInst, ifInst, mbrInst, prio, life, camp, fault>>
      /\ later' = later \ {c}
  BY DEF Execute, bearer
<1>3. CASE Rules(c)
  <2> DEFINE gone == {r \in Strict(ring, c) : r.sw = c.sw}
  <2>1. ring' = ring \ gone /\ sgw' = sgw /\ meters' = meters /\ removed' = Told(gone)
    BY <1>3 DEF Execute, Rules
  <2>2. \A r \in gone : r.prio = prio - 1 /\ r.prio \in 0 .. MaxPrio
    BY <1>1 DEF Strict, TypeOK, Rule
  <2>3. ring' = {r \in ring : ~(r.prio = prio - 1 /\ r.sw = c.sw)}
    BY <1>1, <2>1 DEF Strict
  <2> HIDE DEF gone
  <2> QED
    BY <1>1, <1>2, <1>3, <2>1, <2>2, <2>3, ToldFields DEF Rules, Gateway
<1>4. CASE Gateway(c)
  <2> DEFINE gone == {r \in Strict(sgw, c) : r.dst # "pgw"}
  <2>1. sgw' = sgw \ gone /\ ring' = ring /\ meters' = meters /\ removed' = Told(gone)
    BY <1>4 DEF Execute, Gateway
  <2>2. \A r \in gone : r.prio = prio - 1 /\ r.prio \in 0 .. MaxPrio
    BY <1>1 DEF Strict, TypeOK
  <2>3. sgw' = {r \in sgw : ~(r.prio = prio - 1 /\ r.dst # "pgw")}
    BY <1>1, <2>1 DEF Strict
  <2> HIDE DEF gone
  <2> QED
    BY <1>1, <1>2, <1>4, <2>1, <2>2, <2>3, ToldFields DEF Rules, Gateway
<1>5. CASE c.cmd = "meter"
  <2>1. /\ meters' = meters \ {c.sw} /\ ring' = ring /\ sgw' = sgw /\ removed' = Told({})
    BY <1>5 DEF Execute
  <2>2. removed' = removed
    BY <2>1 DEF Told
  <2> QED
    BY <1>1, <1>2, <1>5, <2>1, <2>2 DEF Rules, Gateway, TypeOK
<1> QED
  BY <1>1, <1>3, <1>4, <1>5 DEF Rules, Gateway

LEMMA ExecuteInv ==
    ASSUME Inv, NEW c \in later, Execute(c)
    PROVE  Inv'
<1>1. TypeOK /\ FlagsOK /\ TimesOK /\ fault = "none" /\ SwitchesOK
  BY InvParts
<1>2. /\ UNCHANGED <<enb, st, agg, path, mbr, gwInst, ifInst, mbrInst, prio, life, camp, fault>>
      /\ later' = later \ {c} /\ c.left = 0
  BY ExecuteGone DEF Execute
<1>3. ring' = IF Rules(c) THEN {r \in ring : ~(r.prio = prio - 1 /\ r.sw = c.sw)} ELSE ring
  BY ExecuteGone
<1>4. sgw' = IF Gateway(c) THEN {r \in sgw : ~(r.prio = prio - 1 /\ r.dst # "pgw")} ELSE sgw
  BY ExecuteGone
<1>5. meters' = IF c.cmd = "meter" THEN meters \ {c.sw} ELSE meters
  BY ExecuteGone
<1>6. /\ \A m \in removed' : m \in removed \/ m.prio = prio - 1
      /\ removed' \subseteq [left : 0 .. Latency, prio : 0 .. MaxPrio]
  BY ExecuteGone
<1>7. ring' \subseteq ring /\ sgw' \subseteq sgw /\ meters' \subseteq meters
  BY <1>3, <1>4, <1>5
<1>8. prio \in Int /\ \A b \in later : b.left \in Int /\ b.left >= 0
  BY <1>1, Types
<1>9. TypeOK'
  BY <1>1, <1>2, <1>6, <1>7 DEF TypeOK
<1>10. FlagsOK'
  BY <1>1, <1>2 DEF FlagsOK
<1>11. TimesOK'
  BY <1>1, <1>2, <1>6, <1>8 DEF TimesOK
<1>12. CommandsOK'
  BY <1>1, <1>2 DEF SwitchesOK, CommandsOK
<1>13. RingOK'
  <2>1. CurrentRules' = CurrentRules
    BY <1>2 DEF CurrentRules
  <2>2. ifInst => CurrentRules \subseteq ring'
    BY <1>1, <1>3, <1>8, Current DEF SwitchesOK, RingOK
  <2>3. ASSUME NEW r \in ring', ~(ifInst /\ r \in CurrentRules)
        PROVE  r.prio = prio - 1 /\ OldRulesAt(r.sw)'
    <3>1. r.prio = prio - 1 /\ OldRulesAt(r.sw)
      BY <1>1, <1>7, <2>3 DEF SwitchesOK, RingOK
    <3>2. PICK b \in later : Rules(b) /\ b.sw = r.sw
      BY <3>1 DEF OldRulesAt
    <3>3. b # c
      BY <1>3, <3>1, <3>2
    <3> QED
      BY <1>2, <3>1, <3>2, <3>3 DEF OldRulesAt
  <2> QED
    BY <1>2, <2>1, <2>2, <2>3 DEF RingOK
<1>14. SgwOK'
  <2>1. gwInst => [dst |-> enb, prio |-> prio] \in sgw'
    BY <1>1, <1>4, <1>8 DEF SwitchesOK, SgwOK
  <2>2. ASSUME NEW r \in sgw', r.dst # "pgw", ~(r.dst = enb /\ r.prio = prio)
        PROVE  r.prio = prio - 1 /\ \E b \in later' : Gateway(b)
    BY <1>1, <1>2, <1>4, <1>7, <2>2 DEF SwitchesOK, SgwOK
  <2>3. \A r \in sgw' : gwInst /\ r.prio <= prio
    BY <1>1, <1>7 DEF SwitchesOK, SgwOK
  <2> QED
    BY <1>2, <2>1, <2>2, <2>3 DEF SgwOK
<1>15. MetersOK'
  <2>1. MetersUsed' = MetersUsed
    BY <1>2 DEF MetersUsed, MeterSw
  <2>2. meters = MetersUsed \cup MetersOld /\ MetersUsed \cap MetersOld = {}
        /\ \A r \in ring : r.meter => r.sw \in meters
    BY <1>1 DEF SwitchesOK, MetersOK
  <2>3. CASE c.cmd # "meter"
    <3>1. MetersOld' = MetersOld
      BY <1>2, <2>3 DEF MetersOld
    <3> QED
      BY <1>5, <1>7, <2>1, <2>2, <2>3, <3>1 DEF MetersOK
  <2>4. CASE c.cmd = "meter"
    <3>1. c.sw \in MetersOld
      BY <2>4 DEF MetersOld
    <3>2. \A b \in later : (b.cmd = "meter" /\ b.sw = c.sw) => b = c
      <4>1. ASSUME NEW b \in later, b.cmd = "meter", b.sw = c.sw PROVE b = c
        <5>1. b.prio = c.prio /\ b.left = c.left
          BY <1>1, <2>4, <4>1 DEF SwitchesOK, CommandsOK
        <5>2. /\ b \in [left : 0 .. OldMetersDelay, cmd : {"rules", "sgw", "meter"},
                        sw : Switch, prio : 0 .. MaxPrio]
              /\ c \in [left : 0 .. OldMetersDelay, cmd : {"rules", "sgw", "meter"},
                        sw : Switch, prio : 0 .. MaxPrio]
          BY <1>1 DEF TypeOK
        <5> QED
          BY <2>4, <4>1, <5>1, <5>2
      <4> QED
        BY <4>1
    <3>3. MetersOld' = MetersOld \ {c.sw}
      BY <1>2, <3>2 DEF MetersOld
    <3>4. ASSUME NEW r \in ring, r.meter, r.sw = c.sw PROVE FALSE
      <4>1. \A b \in later : ~Rules(b)
        <5>1. ASSUME NEW b \in later, Rules(b) PROVE b.left < c.left
          BY <1>1, <2>4, <5>1 DEF SwitchesOK, CommandsOK, Rules
        <5> QED
          BY <1>2, <1>8, <5>1
      <4>2. ifInst /\ r \in CurrentRules
        BY <1>1, <4>1 DEF SwitchesOK, RingOK, OldRulesAt
      <4>3. r.sw \in MetersUsed
        BY <3>4, <4>2, Current
      <4> QED
        BY <2>2, <3>1, <3>4, <4>3
    <3> QED
      BY <1>5, <1>7, <2>1, <2>2, <2>4, <3>1, <3>3, <3>4 DEF MetersOK
  <2> QED
    BY <2>3, <2>4
<1>16. OldPaths'
  <2> SUFFICES ASSUME later' # {} PROVE \E e \in Enb, p \in Path : OldPathOK(e, p)'
    BY DEF OldPaths
  <2>1. PICK e \in Enb, p \in Path : OldPathOK(e, p)
    BY <1>1, <1>2 DEF SwitchesOK, OldPaths
  <2>2. ASSUME gwInst, p # "LOCAL", NEW b \in later', b.cmd # "meter", b.left > 0
        PROVE  BothWays(e, p, prio - 1, mbr) \subseteq ring'
    <3>1. BothWays(e, p, prio - 1, mbr) \subseteq ring
      BY <1>2, <2>1, <2>2 DEF OldPathOK
    <3>2. c.cmd = "meter"
      BY <1>1, <1>2, <2>2 DEF SwitchesOK, CommandsOK
    <3> QED
      BY <1>3, <3>1, <3>2 DEF Rules
  <2> QED
    BY <1>2, <1>7, <2>1, <2>2 DEF OldPathOK
<1> QED
  BY <1>1, <1>2, <1>9, <1>10, <1>11, <1>12, <1>13, <1>14, <1>15, <1>16, InvParts DEF SwitchesOK

(* The rules that are installed are new: their priority is.                  *)
LEMMA AddNew ==
    ASSUME NEW rules, NEW new, NEW pr, \A r \in new : r.prio = pr, \A r \in rules : r.prio # pr
    PROVE  Add(rules, new) = rules \cup new
BY DEF Add

(* A request that installs nothing: aggregated, or blocked.                  *)
LEMMA RequestNothing ==
    ASSUME Inv, NEW accepted \in BOOLEAN, NEW a \in BOOLEAN, Request(accepted, a), ~accepted \/ a
    PROVE  Inv'
<1>1. TypeOK /\ FlagsOK /\ TimesOK /\ fault = "none" /\ SwitchesOK
  BY InvParts
<1>2. /\ UNCHANGED <<enb, mbr, gwInst, ifInst, mbrInst, prio, ring, sgw, meters, later, removed,
                     life, camp, fault>>
      /\ st = "idle" /\ st' \in {"idle", "active"} /\ agg' = a
      /\ (st' = "active" => a)
  BY DEF Request, bearer, switches
<1>3. path' \in Path
  BY ShortPathType, PathType DEF Request
<1>4. later = {} /\ \A m \in removed : m.prio < prio /\ m.prio \in Int
  BY <1>1, NothingPending, Types DEF Request
<1>5. ~gwInst /\ ring = {} /\ sgw = {} /\ meters = {} /\ mbrInst = {} /\ ~ifInst
  BY <1>1, <1>2, <1>4, Clean DEF FlagsOK
<1>6. TypeOK'
  BY <1>1, <1>2, <1>3, <1>5 DEF TypeOK
<1>7. FlagsOK'
  BY <1>2, <1>5 DEF FlagsOK
<1>8. TimesOK'
  BY <1>1, <1>2, <1>4, Types DEF TimesOK
<1>9. SwitchesOK'
  <2>1. CommandsOK' /\ OldPaths'
    BY <1>2, <1>4 DEF CommandsOK, OldPaths
  <2>2. RingOK' /\ SgwOK'
    BY <1>2, <1>5 DEF RingOK, SgwOK
  <2>3. MetersOK'
    BY <1>2, <1>4, <1>5 DEF MetersOK, MetersUsed, MetersOld
  <2> QED
    BY <2>1, <2>2, <2>3 DEF SwitchesOK
<1> QED
  BY <1>1, <1>2, <1>6, <1>7, <1>8, <1>9, InvParts

LEMMA RequestInstall ==
    ASSUME Inv, NEW accepted \in BOOLEAN, NEW a \in BOOLEAN, Request(accepted, a), accepted, ~a
    PROVE  Inv'
<1> DEFINE new == IF path' = "LOCAL" THEN {} ELSE mbr
<1>1. TypeOK /\ FlagsOK /\ TimesOK /\ fault = "none" /\ SwitchesOK
  BY InvParts
<1>2. /\ UNCHANGED <<enb, mbr, later, removed, life, camp>>
      /\ st = "idle" /\ st' = "active" /\ agg' = a /\ prio < MaxPrio /\ BearerInstall(path')
  BY DEF Request
<1>3. path' \in Path /\ (path' = "LOCAL" <=> EnbSw[enb] = SgwSw)
  BY ShortPathType, PathType DEF Request
<1>4. later = {} /\ \A m \in removed : m.prio < prio /\ m.prio \in Int
  BY <1>1, NothingPending, Types DEF Request
<1>5. ~gwInst /\ ring = {} /\ sgw = {} /\ meters = {} /\ mbrInst = {} /\ ~ifInst
  BY <1>1, <1>2, <1>4, Clean DEF FlagsOK
<1>6. /\ prio' = prio + 1 /\ gwInst' = TRUE /\ ifInst' = (path' # "LOCAL")
      /\ sgw' = {[dst |-> d, prio |-> prio'] : d \in {enb, "pgw"}}
      /\ meters' = {MeterSw(d, enb) : d \in new} /\ mbrInst' = new
  BY <1>2, <1>5 DEF BearerInstall
<1>7. fault' = "none"
  BY <1>2, <1>5 DEF BearerInstall, First, Check
<1>8. prio \in Int /\ prio' \in 0 .. MaxPrio /\ enb \in Enb
  BY <1>1, <1>2, <1>6, Types DEF TypeOK
<1>9. ring' = IF path' = "LOCAL" THEN {} ELSE BothWays(enb, path', prio', mbr)
  BY <1>2, <1>5, <1>6 DEF BearerInstall, Add
<1>10. path' # "LOCAL" => path' \in RingPath
  BY <1>3, PathType
<1>11. ASSUME NEW r \in ring'
       PROVE  /\ r \in Rule /\ path' # "LOCAL" /\ r \in BothWays(enb, path', prio', mbr)
              /\ r.meter => r.sw \in meters'
  <2>1. r \in BothWays(enb, path', prio', mbr) /\ path' # "LOCAL"
    BY <1>9, <1>11
  <2>2. /\ r \in Rule
        /\ r.meter => \/ "DL" \in mbr /\ r.sw = MeterSw("DL", enb)
                      \/ "UL" \in mbr /\ r.sw = MeterSw("UL", enb)
    BY <1>8, <1>10, <2>1, RuleFields
  <2>3. \A d \in mbr : MeterSw(d, enb) \in meters'
    BY <1>6, <2>1
  <2> QED
    BY <2>1, <2>2, <2>3
<1> HIDE DEF new
<1>12. TypeOK'
  <2>1. sgw' \subseteq [dst : Enb \cup {"pgw"}, prio : 0 .. MaxPrio]
    BY <1>6, <1>8
  <2>2. meters' \subseteq Switch /\ mbrInst' \subseteq mbr
    BY <1>6, <1>8, Switches DEF MeterSw, new
  <2>3. ring' \subseteq Rule
    BY <1>11
  <2> QED
    BY <1>1, <1>2, <1>3, <1>6, <1>7, <1>8, <2>1, <2>2, <2>3 DEF TypeOK
<1>13. FlagsOK'
  BY <1>2, <1>6 DEF FlagsOK, new
<1>14. TimesOK'
  BY <1>1, <1>2, <1>4, <1>6, <1>8 DEF TimesOK
<1>15. CommandsOK' /\ OldPaths'
  BY <1>2, <1>4 DEF CommandsOK, OldPaths
<1>16. RingOK'
  <2>1. CurrentRules' = BothWays(enb, path', prio', mbr)
    BY <1>2 DEF CurrentRules
  <2> QED
    BY <1>6, <1>9, <1>11, <2>1 DEF RingOK
<1>17. SgwOK'
  BY <1>2, <1>6, <1>8 DEF SgwOK
<1>18. MetersOK'
  <2>1. MetersUsed' = meters' /\ MetersOld' = {}
    BY <1>2, <1>4, <1>6 DEF MetersUsed, MetersOld, MeterSw
  <2> QED
    BY <1>11, <2>1 DEF MetersOK
<1> QED
  BY <1>7, <1>12, <1>13, <1>14, <1>15, <1>16, <1>17, <1>18, InvParts DEF SwitchesOK

(* A handover of a UE whose bearer is not installed.                         *)
LEMMA HandoverNothing ==
    ASSUME Inv, NEW e \in Enb, Handover(e), ~gwInst
    PROVE  Inv'
<1>1. TypeOK /\ FlagsOK /\ TimesOK /\ fault = "none" /\ SwitchesOK
  BY InvParts
<1>2. /\ UNCHANGED <<st, agg, mbr, path, gwInst, ifInst, mbrInst, prio, ring, sgw, meters, later,
                     removed, life, fault>>
      /\ enb' = e /\ camp' = TimeToTrigger
  BY DEF Handover, bearer, switches
<1>3. later = {}
  BY NothingPending DEF Handover
<1>4. ring = {} /\ sgw = {} /\ meters = {} /\ mbrInst = {} /\ ~ifInst
  BY <1>3, Clean
<1>5. TypeOK'
  BY <1>1, <1>2, <1>4, Delays DEF TypeOK
<1>6. FlagsOK'
  BY <1>1, <1>2 DEF FlagsOK
<1>7. TimesOK'
  BY <1>1, <1>2, <1>3 DEF TimesOK
<1>8. CommandsOK' /\ OldPaths'
  BY <1>2, <1>3 DEF CommandsOK, OldPaths
<1>9. RingOK' /\ SgwOK'
  BY <1>2, <1>4 DEF RingOK, SgwOK
<1>10. MetersOK'
  BY <1>2, <1>3, <1>4 DEF MetersOK, MetersUsed, MetersOld
<1> QED
  BY <1>1, <1>2, <1>5, <1>6, <1>7, <1>8, <1>9, <1>10, InvParts DEF SwitchesOK

(* The new path is local exactly when both ends are one switch, and stays when  *)
(* the new eNB is at the switch of the old one.                              *)
LEMMA NewPathType ==
    ASSUME TypeOK, gwInst, NEW e \in Enb
    PROVE  /\ NewPath(e) \in Path /\ (NewPath(e) = "LOCAL" <=> EnbSw[e] = SgwSw)
           /\ EnbSw[enb] = EnbSw[e] => NewPath(e) = path
BY ShortPathType DEF NewPath, TypeOK

(***************************************************************************)
(* The meters of a handover: what is no longer at its switch is deleted later,  *)
(* what the new path needs and does not have is added, and none is both.      *)
(***************************************************************************)
KeptMeters(e) == mbrInst \ LostMeters(e, NewPath(e))
AddedMeters(e) == IF NewPath(e) = "LOCAL" THEN {} ELSE mbr \ KeptMeters(e)
UsedMeters(e) == {MeterSw(d, e) : d \in KeptMeters(e) \cup AddedMeters(e)}
UnusedMeters(e) == {MeterSw(d, enb) : d \in LostMeters(e, NewPath(e))}

LEMMA HandoverMeters ==
    ASSUME Inv, gwInst, later = {}, NEW e \in Enb
    PROVE  /\ KeptMeters(e) \cup AddedMeters(e) = IF NewPath(e) = "LOCAL" THEN {} ELSE mbr
           /\ LostMeters(e, NewPath(e)) \subseteq mbr
           /\ meters \cup {MeterSw(d, e) : d \in AddedMeters(e)}
                 = UsedMeters(e) \cup UnusedMeters(e)
           /\ UsedMeters(e) \cap UnusedMeters(e) = {}
<1> DEFINE p    == NewPath(e)
           kept == KeptMeters(e)
           new  == AddedMeters(e)
           used == UsedMeters(e)
           old  == UnusedMeters(e)
           Goal == /\ kept \cup new = IF p = "LOCAL" THEN {} ELSE mbr
                   /\ LostMeters(e, p) \subseteq mbr
                   /\ meters \cup {MeterSw(d, e) : d \in new} = used \cup old
                   /\ used \cap old = {}
<1>0. /\ p = NewPath(e) /\ kept = mbrInst \ LostMeters(e, p)
      /\ new = IF p = "LOCAL" THEN {} ELSE mbr \ kept
      /\ used = {MeterSw(d, e) : d \in kept \cup new}
      /\ old = {MeterSw(d, enb) : d \in LostMeters(e, p)}
  BY DEF KeptMeters, AddedMeters, UsedMeters, UnusedMeters
<1> SUFFICES Goal
  OBVIOUS
<1> HIDE DEF p, kept, new, used, old
<1>1. TypeOK /\ FlagsOK
  BY DEF Inv
<1>2. mbr \subseteq {"DL", "UL"} /\ mbrInst \subseteq mbr
  BY <1>1, ConstAssumption DEF TypeOK
<1>3. /\ mbrInst = IF ifInst THEN mbr ELSE {}
      /\ ifInst <=> path # "LOCAL"
      /\ path = "LOCAL" <=> EnbSw[enb] = SgwSw
  BY <1>1 DEF FlagsOK, TypeOK
<1>4. p = "LOCAL" <=> EnbSw[e] = SgwSw
  BY <1>0, <1>1, NewPathType
<1>5. meters = {MeterSw(d, enb) : d \in mbrInst}
  BY Clean DEF MetersUsed
<1>6. LostMeters(e, p) \subseteq mbr
  BY <1>2 DEF LostMeters
<1>7. CASE EnbSw[enb] = EnbSw[e]
  <2>1. LostMeters(e, p) = {} /\ kept = mbrInst
    BY <1>0, <1>7 DEF LostMeters
  <2>2. \A d : MeterSw(d, enb) = MeterSw(d, e)
    BY <1>7 DEF MeterSw
  <2>3. kept \cup new = IF p = "LOCAL" THEN {} ELSE mbr
    BY <1>0, <1>2, <1>3, <1>4, <1>7, <2>1
  <2>4. meters = {MeterSw(d, e) : d \in kept}
    BY <1>5, <2>1, <2>2
  <2> QED
    BY <1>0, <1>6, <2>1, <2>3, <2>4
<1>8. CASE EnbSw[enb] # EnbSw[e] /\ p = "LOCAL"
  <2>1. LostMeters(e, p) = mbrInst /\ kept = {} /\ new = {}
    BY <1>0, <1>2, <1>8 DEF LostMeters
  <2> QED
    BY <1>0, <1>5, <1>6, <1>8, <2>1
<1>9. CASE EnbSw[enb] # EnbSw[e] /\ p # "LOCAL"
  <2>1. LostMeters(e, p) = mbrInst \cap {"UL"} /\ kept = mbrInst \ {"UL"}
    BY <1>0, <1>9 DEF LostMeters
  <2>2. kept \cup new = mbr
    BY <1>0, <1>2, <1>9, <2>1
  <2>3. /\ \A f \in Enb : MeterSw("DL", f) = SgwSw /\ MeterSw("UL", f) = EnbSw[f]
        /\ enb \in Enb
    BY <1>1 DEF MeterSw, TypeOK
  <2>4. CASE ifInst
    <3>1. mbrInst = mbr /\ new = mbr \cap {"UL"} /\ EnbSw[enb] # SgwSw /\ EnbSw[e] # SgwSw
      BY <1>0, <1>2, <1>3, <1>4, <1>9, <2>1, <2>4
    <3>2. /\ meters = {MeterSw(d, enb) : d \in mbr} /\ used = {MeterSw(d, e) : d \in mbr}
          /\ old = {MeterSw(d, enb) : d \in mbr \cap {"UL"}}
      BY <1>0, <1>5, <2>1, <2>2, <3>1
    <3>3. used \cap old = {}
      <4>1. old \subseteq {EnbSw[enb]} /\ used \subseteq {SgwSw, EnbSw[e]}
        BY <1>2, <2>3, <3>2
      <4> QED
        BY <1>9, <3>1, <4>1
    <3>4. \A x : x \in meters \cup {MeterSw(d, e) : d \in new} <=> x \in used \cup old
      <4>1. \A x : /\ x \in meters <=> \/ "DL" \in mbr /\ x = SgwSw
                                       \/ "UL" \in mbr /\ x = EnbSw[enb]
                   /\ x \in used <=> \/ "DL" \in mbr /\ x = SgwSw
                                     \/ "UL" \in mbr /\ x = EnbSw[e]
                   /\ x \in old <=> "UL" \in mbr /\ x = EnbSw[enb]
                   /\ x \in {MeterSw(d, e) : d \in new} <=> "UL" \in mbr /\ x = EnbSw[e]
        BY <1>2, <2>3, <3>1, <3>2
      <4> QED
        BY <4>1
    <3> QED
      BY <1>6, <1>9, <2>2, <3>3, <3>4
  <2>5. CASE ~ifInst
    BY <1>0, <1>3, <1>5, <1>6, <1>9, <2>1, <2>2, <2>5
  <2> QED
    BY <2>4, <2>5
<1> QED
  BY <1>7, <1>8, <1>9

(* The commands of a handover. *)
Commands(e) ==
    {Command(OldRulesDelay, "sgw", SgwSw)} \cup OldRules
        \cup {Command(OldMetersDelay, "meter", MeterSw(d, enb)) : d \in LostMeters(e, NewPath(e))}

LEMMA HandoverCommands ==
    ASSUME Inv, NEW e \in Enb
    PROVE  /\ \A c \in Commands(e) :
                 /\ c.prio = prio
                 /\ c.left = IF c.cmd = "meter" THEN OldMetersDelay ELSE OldRulesDelay
                 /\ Rules(c) => ifInst /\ c.sw \in OnPath(enb, path)
           /\ \E c \in Commands(e) : Gateway(c)
           /\ ifInst => \A s \in OnPath(enb, path) : \E c \in Commands(e) : Rules(c) /\ c.sw = s
           /\ {c.sw : c \in {x \in Commands(e) : x.cmd = "meter"}} = UnusedMeters(e)
           /\ Commands(e) \subseteq [left : 0 .. OldMetersDelay, cmd : {"rules", "sgw", "meter"},
                                     sw : Switch, prio : 0 .. MaxPrio]
<1> DEFINE Cmd == [left : 0 .. OldMetersDelay, cmd : {"rules", "sgw", "meter"},
                   sw : Switch, prio : 0 .. MaxPrio]
           S == Command(OldRulesDelay, "sgw", SgwSw)
           R(s) == Command(OldRulesDelay, "rules", s)
           M(d) == Command(OldMetersDelay, "meter", MeterSw(d, enb))
<1>1. TypeOK /\ enb \in Enb
  BY DEF Inv, TypeOK
<1>2. prio \in 0 .. MaxPrio /\ OldRulesDelay \in 0 .. OldMetersDelay
      /\ OldMetersDelay \in 0 .. OldMetersDelay
  BY <1>1, Delays DEF TypeOK
<1>3. /\ S.left = OldRulesDelay /\ S.cmd = "sgw" /\ S.prio = prio /\ S \in Cmd
  BY <1>2, Switches DEF Command
<1>4. ASSUME NEW s \in Switch
      PROVE  R(s).left = OldRulesDelay /\ R(s).cmd = "rules" /\ R(s).prio = prio /\ R(s).sw = s
             /\ R(s) \in Cmd
  BY <1>2 DEF Command
<1>5. ASSUME NEW d
      PROVE  /\ M(d).left = OldMetersDelay /\ M(d).cmd = "meter" /\ M(d).prio = prio
             /\ M(d).sw = MeterSw(d, enb) /\ M(d) \in Cmd
  <2>1. MeterSw(d, enb) \in Switch
    BY <1>1, Switches DEF MeterSw
  <2> QED
    BY <1>2, <2>1 DEF Command
<1>6. ifInst => OnPath(enb, path) \subseteq Switch
  BY <1>1, Current, OnPathBothWays
<1>7. OldRules = IF ifInst THEN {R(s) : s \in OnPath(enb, path)} ELSE {}
  BY DEF OldRules
<1>8. Commands(e) = {S} \cup OldRules \cup {M(d) : d \in LostMeters(e, NewPath(e))}
  BY DEF Commands
<1> HIDE DEF S, R, M, Cmd
<1>9. \A c \in OldRules : /\ c.left = OldRulesDelay /\ c.cmd = "rules" /\ c.prio = prio
                          /\ ifInst /\ c.sw \in OnPath(enb, path) /\ c \in Cmd
  BY <1>4, <1>6, <1>7
<1>10. ifInst => \A s \in OnPath(enb, path) : \E c \in OldRules : c.cmd = "rules" /\ c.sw = s
  BY <1>4, <1>6, <1>7
<1>11. ASSUME NEW c \in Commands(e)
       PROVE  /\ c.prio = prio /\ c \in Cmd
              /\ c.left = IF c.cmd = "meter" THEN OldMetersDelay ELSE OldRulesDelay
              /\ Rules(c) => ifInst /\ c.sw \in OnPath(enb, path)
  <2>1. CASE c = S
    BY <1>3, <2>1 DEF Rules
  <2>2. CASE c \in OldRules
    BY <1>9, <2>2 DEF Rules
  <2>3. CASE \E d : c = M(d)
    BY <1>5, <2>3 DEF Rules
  <2> QED
    BY <1>8, <1>11, <2>1, <2>2, <2>3
<1>12. \E c \in Commands(e) : Gateway(c)
  BY <1>3, <1>8 DEF Gateway
<1>13. ifInst => \A s \in OnPath(enb, path) : \E c \in Commands(e) : Rules(c) /\ c.sw = s
  BY <1>8, <1>10 DEF Rules
<1>14. {x \in Commands(e) : x.cmd = "meter"} = {M(d) : d \in LostMeters(e, NewPath(e))}
  BY <1>3, <1>5, <1>8, <1>9
<1>15. {c.sw : c \in {x \in Commands(e) : x.cmd = "meter"}} = UnusedMeters(e)
  BY <1>5, <1>14 DEF UnusedMeters
<1>16. Commands(e) \subseteq Cmd
  BY <1>11
<1> SUFFICES /\ \A c \in Commands(e) :
                   /\ c.prio = prio
                   /\ c.left = IF c.cmd = "meter" THEN OldMetersDelay ELSE OldRulesDelay
                   /\ Rules(c) => ifInst /\ c.sw \in OnPath(enb, path)
             /\ Commands(e) \subseteq Cmd
  BY <1>12, <1>13, <1>15 DEF Cmd
<1> QED
  BY <1>11, <1>16

LEMMA HandoverUpdate ==
    ASSUME Inv, NEW e \in Enb, Handover(e), gwInst
    PROVE  Inv'
<1> DEFINE p == NewPath(e)
<1>1. TypeOK /\ FlagsOK /\ TimesOK /\ fault = "none" /\ SwitchesOK
  BY InvParts
<1>2. later = {}
  BY NothingPending DEF Handover
<1>3. /\ UNCHANGED <<st, agg, mbr, removed, life, fault, gwInst>>
      /\ enb' = e /\ e # enb /\ camp' = TimeToTrigger /\ prio < MaxPrio
      /\ prio' = prio + 1 /\ path' = p /\ ifInst' = (p # "LOCAL")
      /\ sgw' = sgw \cup {[dst |-> e, prio |-> prio + 1]}
      /\ mbrInst' = KeptMeters(e) \cup AddedMeters(e)
      /\ meters' = meters \cup {MeterSw(d, e) : d \in AddedMeters(e)}
  BY DEF Handover, BearerUpdate, NewPrio, KeptMeters, AddedMeters
<1>4. later' = Commands(e)
  BY <1>2 DEF Handover, BearerUpdate, Commands
<1>5. ring' = IF p = "LOCAL" THEN ring ELSE Add(ring, BothWays(e, p, prio + 1, mbrInst'))
  BY DEF Handover, BearerUpdate, NewPrio
<1>6. p \in Path /\ (p = "LOCAL" <=> EnbSw[e] = SgwSw) /\ (p # "LOCAL" => p \in RingPath)
  BY <1>1, NewPathType, PathType
<1>7. /\ mbrInst' = IF p = "LOCAL" THEN {} ELSE mbr
      /\ meters' = UsedMeters(e) \cup UnusedMeters(e)
      /\ UsedMeters(e) \cap UnusedMeters(e) = {}
  BY <1>2, <1>3, HandoverMeters
<1>8. /\ \A c \in later' :
            /\ c.prio = prio
            /\ c.left = IF c.cmd = "meter" THEN OldMetersDelay ELSE OldRulesDelay
            /\ Rules(c) => ifInst /\ c.sw \in OnPath(enb, path)
      /\ \E c \in later' : Gateway(c)
      /\ ifInst => \A s \in OnPath(enb, path) : \E c \in later' : Rules(c) /\ c.sw = s
      /\ {c.sw : c \in {x \in later' : x.cmd = "meter"}}
            = UnusedMeters(e)
      /\ later' \subseteq [left : 0 .. OldMetersDelay, cmd : {"rules", "sgw", "meter"},
                           sw : Switch, prio : 0 .. MaxPrio]
  BY <1>4, HandoverCommands
<1> HIDE DEF p
<1>9. /\ prio \in Int /\ prio' \in 0 .. MaxPrio /\ prio' = prio + 1 /\ enb \in Enb
      /\ path \in Path /\ (path = "LOCAL" <=> EnbSw[enb] = SgwSw)
      /\ (ifInst <=> path # "LOCAL") /\ prio' # prio /\ prio' - 1 = prio
  BY <1>1, <1>3, Types DEF TypeOK, FlagsOK
<1>10. /\ ~ifInst => ring = {}
       /\ \A r \in ring : r.prio = prio /\ ifInst /\ r.sw \in OnPath(enb, path)
                          /\ r \in BothWays(enb, path, prio, mbr)
       /\ ifInst => BothWays(enb, path, prio, mbr) \subseteq ring
  BY <1>2, Clean, Current DEF CurrentRules
<1>11. p # "LOCAL" =>
          \A r \in BothWays(e, p, prio + 1, mbr) :
             /\ r.prio = prio' /\ r \in Rule
             /\ r.meter => r.sw \in UsedMeters(e)
  <2> SUFFICES ASSUME p # "LOCAL", NEW r \in BothWays(e, p, prio + 1, mbr)
               PROVE  /\ r.prio = prio' /\ r \in Rule
                      /\ r.meter => r.sw \in UsedMeters(e)
    OBVIOUS
  <2>1. /\ r.prio = prio' /\ r \in Rule
        /\ r.meter => \/ "DL" \in mbr /\ r.sw = MeterSw("DL", e)
                      \/ "UL" \in mbr /\ r.sw = MeterSw("UL", e)
    BY <1>6, <1>9, RuleFields
  <2>2. \A d \in mbr : MeterSw(d, e) \in UsedMeters(e)
    BY <1>3, <1>7 DEF UsedMeters
  <2> QED
    BY <2>1, <2>2
<1>12. ring' = ring \cup (IF p = "LOCAL" THEN {} ELSE BothWays(e, p, prio + 1, mbr))
  BY <1>5, <1>9, <1>10, <1>7, <1>11, AddNew
<1>13. TypeOK'
  <2>1. ring' \subseteq Rule
    BY <1>1, <1>11, <1>12 DEF TypeOK
  <2>2. sgw' \subseteq [dst : Enb \cup {"pgw"}, prio : 0 .. MaxPrio]
    BY <1>1, <1>3, <1>9 DEF TypeOK
  <2>3. meters' \subseteq Switch
    BY <1>7, <1>9, Switches DEF MeterSw, UsedMeters, UnusedMeters
  <2>4. camp' \in 0 .. TimeToTrigger
    BY <1>3, Delays
  <2>5. mbrInst' \subseteq mbr
    BY <1>7
  <2> QED
    BY <1>1, <1>3, <1>6, <1>8, <1>9, <2>1, <2>2, <2>3, <2>4, <2>5 DEF TypeOK
<1>14. FlagsOK'
  BY <1>1, <1>3, <1>7 DEF FlagsOK
<1>15. TimesOK'
  <2>1. st # "idle"
    BY <1>1 DEF FlagsOK
  <2>2. \A c \in later' : c.left < TimeToTrigger
    BY <1>8, Delays
  <2>3. \A m \in removed : m.prio < prio' /\ m.prio \in Int
    BY <1>1, <1>9, Types DEF TimesOK
  <2> QED
    BY <1>3, <1>9, <2>1, <2>2, <2>3 DEF TimesOK
<1>16. CommandsOK'
  BY <1>8, <1>9, Delays DEF CommandsOK
<1>17. RingOK'
  <2>1. CurrentRules' = BothWays(e, p, prio + 1, mbr)
    BY <1>3 DEF CurrentRules
  <2>2. ifInst => \A s \in OnPath(enb, path) : OldRulesAt(s)'
    BY <1>8 DEF OldRulesAt
  <2> QED
    BY <1>3, <1>9, <1>10, <1>12, <2>1, <2>2 DEF RingOK
<1>18. SgwOK'
  <2>1. \A r \in sgw : (r.dst = "pgw" \/ r.prio = prio) /\ r.prio <= prio
    BY <1>1, <1>2, Clean DEF SwitchesOK, SgwOK
  <2>2. \A r \in sgw : r.prio \in Int
    BY <1>1, Types
  <2> QED
    BY <1>3, <1>8, <1>9, <2>1, <2>2 DEF SgwOK
<1>19. MetersOK'
  <2>1. MetersUsed' = UsedMeters(e)
    BY <1>3 DEF MetersUsed, UsedMeters
  <2>2. MetersOld' = UnusedMeters(e)
    BY <1>8 DEF MetersOld
  <2>3. \A r \in ring : r.meter => r.sw \in meters'
    BY <1>1, <1>3 DEF SwitchesOK, MetersOK
  <2> QED
    BY <1>7, <1>11, <1>12, <2>1, <2>2, <2>3 DEF MetersOK
<1>20. OldPaths'
  <2>1. \A f \in Enb, g \in Path : (f = enb /\ g = path) => OldPathOK(f, g)'
    <3> SUFFICES ASSUME NEW f \in Enb, NEW g \in Path, f = enb, g = path PROVE OldPathOK(f, g)'
      OBVIOUS
    <3>1. f # enb' /\ (g = "LOCAL" <=> EnbSw[f] = SgwSw)
      BY <1>3, <1>9
    <3>2. \A r \in sgw' : r.dst = "pgw" \/ r.dst = enb' \/ r.dst = f
      BY <1>2, <1>3, Clean
    <3>3. \A r \in ring' : (r.prio = prio) => r \in ring
      BY <1>9, <1>11, <1>12
    <3> QED
      BY <1>3, <1>8, <1>9, <1>10, <1>12, <3>1, <3>2, <3>3 DEF OldPathOK
  <2> QED
    BY <1>9, <2>1 DEF OldPaths
<1> QED
  BY <1>3, <1>1, <1>13, <1>14, <1>15, <1>16, <1>17, <1>18, <1>19, <1>20, InvParts DEF SwitchesOK

(* The invariant holds in every state of every behaviour.                     *)
THEOREM InvHolds == Spec => []Inv
<1>1. ASSUME Inv, [Next]_vars PROVE Inv'
  <2>1. ASSUME NEW accepted \in BOOLEAN, NEW a \in BOOLEAN, Request(accepted, a) PROVE Inv'
    BY <1>1, <2>1, RequestNothing, RequestInstall
  <2>2. CASE Stop
    BY <1>1, <2>2, StopInv
  <2>3. CASE Release
    BY <1>1, <2>3, ReleaseAggregated, ReleaseInv
  <2>4. ASSUME NEW e \in Enb, Handover(e) PROVE Inv'
    BY <1>1, <2>4, HandoverNothing, HandoverUpdate
  <2>5. ASSUME NEW c \in later, Execute(c) PROVE Inv'
    BY <1>1, <2>5, ExecuteInv
  <2>6. ASSUME NEW m \in removed, HandleFlowRemoved(m) PROVE Inv'
    BY <1>1, <2>6, HandleFlowRemovedInv
  <2>7. CASE Tick
    BY <1>1, <2>7, TickInv
  <2>8. CASE UNCHANGED vars
    BY <1>1, <2>8, StutterInv
  <2> QED
    BY <1>1, <2>1, <2>2, <2>3, <2>4, <2>5, <2>6, <2>7, <2>8 DEF Next
<1> QED
  BY <1>1, InitInv, PTL DEF Spec
------------------------------------------------------------------------------
(* What the bearer can rely on. *)

(* The state stays in its types: the path is local exactly for an eNB at the    *)
(* switch of the S-GW.                                                       *)
THEOREM TypeOKHolds == Spec => []TypeOK
<1>1. Inv => TypeOK
  BY DEF Inv
<1> QED
  BY <1>1, InvHolds, PTL

(***************************************************************************)
(* No assertion of the installation fails, and no flow-removed message is taken *)
(* for a rule of the active bearer.                                          *)
(***************************************************************************)
THEOREM NoAssertFailsHolds == Spec => []NoAssertFails
<1>1. Inv => NoAssertFails
  BY DEF Inv, NoAssertFails
<1> QED
  BY <1>1, InvHolds, PTL

(***************************************************************************)
(* Once the commands of a handover are over, the switches hold the rules and    *)
(* the meters of the path of now, and nothing of a released bearer.           *)
(***************************************************************************)
THEOREM NothingStaleHolds == Spec => []NothingStale
<1>1. ASSUME Inv PROVE NothingStale
  <2> SUFFICES ASSUME later = {}
               PROVE  /\ \A r \in ring : gwInst /\ r.prio = prio /\ r.sw \in OnPath(enb, path)
                      /\ \A r \in sgw : gwInst /\ (r.dst # "pgw" => r.prio = prio)
                      /\ meters = {MeterSw(d, enb) : d \in mbrInst}
                      /\ ~gwInst => mbrInst = {}
    BY DEF NothingStale
  <2>1. \A r \in ring : gwInst /\ r.prio = prio /\ r.sw \in OnPath(enb, path)
    BY <1>1, Clean, Current
  <2>2. \A r \in sgw : gwInst /\ (r.dst # "pgw" => r.prio = prio)
    BY <1>1, Clean
  <2>3. meters = {MeterSw(d, enb) : d \in mbrInst}
    BY <1>1, Clean DEF MetersUsed
  <2> QED
    BY <1>1, <2>1, <2>2, <2>3, Clean
<1> QED
  BY <1>1, InvHolds, PTL

(* The best rule is the only one of the highest priority.                    *)
LEMMA BestIs ==
    ASSUME NEW s, NEW dst, NEW r \in Matching(s, dst), \A q \in Matching(s, dst) : q.prio \in Int,
           \A q \in Matching(s, dst) : q = r \/ q.prio < r.prio
    PROVE  Best(s, dst) = r
<1>1. \A q \in Matching(s, dst) : q.prio <= r.prio
  OBVIOUS
<1>2. /\ Best(s, dst) \in Matching(s, dst)
      /\ \A q \in Matching(s, dst) : q.prio <= Best(s, dst).prio
  BY <1>1 DEF Best
<1> QED
  BY <1>2

(* On the path of now packets follow the rules of the last priority.          *)
LEMMA BestOnPath ==
    ASSUME Inv, ifInst, NEW s \in OnPath(enb, path)
    PROVE  /\ s # EnbSw[enb] => /\ Down(enb, path, prio, mbr, s) \in Matching(s, enb)
                                /\ Best(s, enb) = Down(enb, path, prio, mbr, s)
           /\ s # SgwSw => /\ Up(enb, path, prio, mbr, s) \in Matching(s, "sgw")
                           /\ Best(s, "sgw") = Up(enb, path, prio, mbr, s)
<1>1. TypeOK /\ RingOK
  BY DEF Inv
<1>2. /\ path \in RingPath /\ CurrentRules \subseteq ring /\ enb \in Enb /\ enb # "sgw"
      /\ \A r \in ring : r.prio = prio => r \in CurrentRules
  BY Current, Switches
<1>3. \A r \in ring : r.prio \in Int /\ (r.prio = prio \/ r.prio < prio) /\ prio \in Int
  <2>1. \A r \in CurrentRules : r.prio = prio
    BY Current
  <2> QED
    BY <1>1, <2>1, Types DEF RingOK
<1>4. ASSUME NEW dst, NEW r \in CurrentRules, r.sw = s, r.dst = dst,
             \A q \in CurrentRules : (q.sw = s /\ q.dst = dst) => q = r
      PROVE  r \in Matching(s, dst) /\ Best(s, dst) = r
  <2>1. r \in Matching(s, dst) /\ r.prio = prio
    BY <1>2, <1>4, Current DEF Matching
  <2>2. \A q \in Matching(s, dst) : q.prio \in Int /\ (q = r \/ q.prio < r.prio)
    BY <1>2, <1>3, <1>4, <2>1 DEF Matching
  <2> QED
    BY <2>1, <2>2, BestIs
<1>5. ASSUME s # EnbSw[enb]
      PROVE  /\ Down(enb, path, prio, mbr, s) \in Matching(s, enb)
             /\ Best(s, enb) = Down(enb, path, prio, mbr, s)
  <2> DEFINE d == Down(enb, path, prio, mbr, s)
  <2>1. d.sw = s /\ d.dst = enb
    BY DEF Down
  <2>2. d \in CurrentRules
    BY <1>2, <1>5, RulesForm DEF CurrentRules
  <2>3. \A q \in CurrentRules : (q.sw = s /\ q.dst = enb) => q = d
    BY <1>2, RuleFields DEF CurrentRules
  <2> QED
    BY <1>4, <2>1, <2>2, <2>3
<1>6. ASSUME s # SgwSw
      PROVE  /\ Up(enb, path, prio, mbr, s) \in Matching(s, "sgw")
             /\ Best(s, "sgw") = Up(enb, path, prio, mbr, s)
  <2> DEFINE u == Up(enb, path, prio, mbr, s)
  <2>1. u.sw = s /\ u.dst = "sgw"
    BY DEF Up
  <2>2. u \in CurrentRules
    BY <1>2, <1>6, RulesForm DEF CurrentRules
  <2>3. \A q \in CurrentRules : (q.sw = s /\ q.dst = "sgw") => q = u
    BY <1>2, RuleFields DEF CurrentRules
  <2> QED
    BY <1>4, <2>1, <2>2, <2>3
<1> QED
  BY <1>5, <1>6

(***************************************************************************)
(* Every rule that names a meter finds it at its switch, and the rules in use   *)
(* meter exactly the directions that have an MBR.                            *)
(***************************************************************************)
THEOREM MetersInPlaceHolds == Spec => []MetersInPlace
<1>1. ASSUME Inv PROVE MetersInPlace
  <2>1. \A r \in ring : r.meter => r.sw \in meters
    BY <1>1 DEF Inv, MetersOK
  <2> SUFFICES ASSUME gwInst, path # "LOCAL"
               PROVE  /\ Best(SgwSw, enb).meter = ("DL" \in mbr)
                      /\ Best(EnbSw[enb], "sgw").meter = ("UL" \in mbr)
    BY <2>1 DEF MetersInPlace
  <2>2. ifInst
    BY <1>1 DEF Inv, FlagsOK
  <2>3. /\ SgwSw \in OnPath(enb, path) /\ EnbSw[enb] \in OnPath(enb, path)
        /\ EnbSw[enb] # SgwSw
    BY <1>1, <2>2, Current, OnPathBothWays
  <2>4. /\ Best(SgwSw, enb) = Down(enb, path, prio, mbr, SgwSw)
        /\ Best(EnbSw[enb], "sgw") = Up(enb, path, prio, mbr, EnbSw[enb])
    BY <1>1, <2>2, <2>3, BestOnPath
  <2> QED
    BY <2>4 DEF Down, Up
<1> QED
  BY <1>1, InvHolds, PTL

(* A packet that is at its switch has arrived.                               *)
LEMMA Arrived ==
    ASSUME NEW s \in Switch, NEW dst
    PROVE  Reaches(s, dst, s)
<1>1. PathSwitches(s, s, "CLOCK") \ {s} = {}
  BY NAssumption DEF PathSwitches, ClockwiseDistance, Switch
<1> QED
  BY <1>1, Walk DEF RingPath

(***************************************************************************)
(* While the bearer is installed, the S-GW sends its packets to the UE's eNB,  *)
(* and the ring carries them there and back.                                 *)
(***************************************************************************)
THEOREM ServedHolds == Spec => []Served
<1>1. ASSUME Inv PROVE Served
  <2> SUFFICES ASSUME gwInst
               PROVE  /\ \E r \in sgw : /\ r.dst = enb
                                        /\ \A q \in sgw : q.dst # "pgw" => q.prio <= r.prio
                      /\ Reaches(SgwSw, enb, EnbSw[enb])
                      /\ Reaches(EnbSw[enb], "sgw", SgwSw)
    BY DEF Served
  <2>1. TypeOK /\ FlagsOK /\ SgwOK
    BY <1>1 DEF Inv
  <2>2. \E r \in sgw : r.dst = enb /\ \A q \in sgw : q.dst # "pgw" => q.prio <= r.prio
    <3> DEFINE r == [dst |-> enb, prio |-> prio]
    <3>1. r \in sgw /\ r.dst = enb /\ r.prio = prio /\ \A q \in sgw : q.prio <= prio
      BY <2>1 DEF SgwOK
    <3> QED
      BY <3>1
  <2>3. enb \in Enb /\ EnbSw[enb] \in Switch /\ SgwSw \in Switch
    BY <2>1, Switches DEF TypeOK
  <2>4. CASE ~ifInst
    <3>1. EnbSw[enb] = SgwSw
      BY <2>1, <2>4 DEF FlagsOK, TypeOK
    <3> QED
      BY <2>2, <2>3, <3>1, Arrived
  <2>5. CASE ifInst
    <3>1. path \in RingPath /\ InvertPath(path) \in RingPath
      BY <1>1, <2>5, Current, PathType DEF Path, RingPath
    <3>2. /\ PathSwitches(SgwSw, EnbSw[enb], path) = OnPath(enb, path)
          /\ PathSwitches(EnbSw[enb], SgwSw, InvertPath(path)) = OnPath(enb, path)
      BY <2>3, <3>1, OnPathBothWays DEF OnPath
    <3>3. \A s \in PathSwitches(SgwSw, EnbSw[enb], path) \ {EnbSw[enb]} :
             Matching(s, enb) # {} /\ Best(s, enb).out = path
      <4>1. \A s : Down(enb, path, prio, mbr, s).out = path
        BY DEF Down
      <4>2. ASSUME NEW s \in OnPath(enb, path), s # EnbSw[enb]
            PROVE  /\ Down(enb, path, prio, mbr, s) \in Matching(s, enb)
                   /\ Best(s, enb) = Down(enb, path, prio, mbr, s)
        BY <1>1, <2>5, <4>2, BestOnPath
      <4> QED
        BY <3>2, <4>1, <4>2
    <3>4. \A s \in PathSwitches(EnbSw[enb], SgwSw, InvertPath(path)) \ {SgwSw} :
             Matching(s, "sgw") # {} /\ Best(s, "sgw").out = InvertPath(path)
      <4>1. \A s : Up(enb, path, prio, mbr, s).out = InvertPath(path)
        BY DEF Up
      <4>2. ASSUME NEW s \in OnPath(enb, path), s # SgwSw
            PROVE  /\ Up(enb, path, prio, mbr, s) \in Matching(s, "sgw")
                   /\ Best(s, "sgw") = Up(enb, path, prio, mbr, s)
        BY <1>1, <2>5, <4>2, BestOnPath
      <4> QED
        BY <3>2, <4>1, <4>2
    <3>5. Reaches(SgwSw, enb, EnbSw[enb])
      BY <2>3, <3>1, <3>3, Walk
    <3>6. Reaches(EnbSw[enb], "sgw", SgwSw)
      BY <2>3, <3>1, <3>4, Walk
    <3> QED
      BY <2>2, <3>5, <3>6
  <2> QED
    BY <2>4, <2>5
<1> QED
  BY <1>1, InvHolds, PTL

(* The rest of the way back is on the path.                                  *)
LEMMA WayBack ==
    ASSUME NEW e \in Enb, NEW p \in RingPath, NEW t \in OnPath(e, p)
    PROVE  PathSwitches(t, SgwSw, InvertPath(p)) \subseteq OnPath(e, p)
<1>1. N \in Nat /\ SgwSw \in 0 .. N - 1 /\ EnbSw[e] \in 0 .. N - 1
  BY Switches, NAssumption DEF Switch
<1>2. CASE p = "CLOCK"
  BY <1>1, <1>2 DEF OnPath, PathSwitches, InvertPath, ClockwiseDistance, Switch
<1>3. CASE p = "COUNT"
  BY <1>1, <1>3 DEF OnPath, PathSwitches, InvertPath, ClockwiseDistance, Switch
<1> QED
  BY <1>2, <1>3 DEF RingPath

(***************************************************************************)
(* Who meets on the way back a path that comes from the other side was on it   *)
(* before.                                                                   *)
(***************************************************************************)
LEMMA OtherSide ==
    ASSUME NEW e \in Enb, NEW p \in RingPath, NEW t \in OnPath(e, p),
           NEW f \in Enb, NEW q \in RingPath, q # p,
           NEW s \in PathSwitches(t, SgwSw, InvertPath(p)), s # SgwSw, s \in OnPath(f, q)
    PROVE  t \in OnPath(f, q)
<1>1. N \in Nat /\ SgwSw \in 0 .. N - 1 /\ EnbSw[e] \in 0 .. N - 1 /\ EnbSw[f] \in 0 .. N - 1
  BY Switches, NAssumption DEF Switch
<1>2. s \in 0 .. N - 1 /\ t \in 0 .. N - 1
  BY OnPathBothWays, WayBack DEF Switch
<1>3. CASE p = "CLOCK" /\ q = "COUNT"
  <2>1. /\ ClockwiseDistance(SgwSw, s) <= ClockwiseDistance(SgwSw, t)
        /\ ClockwiseDistance(EnbSw[f], s) <= ClockwiseDistance(EnbSw[f], SgwSw)
    BY <1>3 DEF OnPath, PathSwitches, InvertPath
  <2>2. ClockwiseDistance(EnbSw[f], t) <= ClockwiseDistance(EnbSw[f], SgwSw)
    BY <1>1, <1>2, <2>1 DEF ClockwiseDistance
  <2> QED
    BY <1>2, <1>3, <2>2 DEF OnPath, PathSwitches, Switch
<1>4. CASE p = "COUNT" /\ q = "CLOCK"
  <2>1. /\ ClockwiseDistance(t, s) <= ClockwiseDistance(t, SgwSw)
        /\ ClockwiseDistance(SgwSw, s) <= ClockwiseDistance(SgwSw, EnbSw[f])
    BY <1>4 DEF OnPath, PathSwitches, InvertPath
  <2>2. ClockwiseDistance(SgwSw, t) <= ClockwiseDistance(SgwSw, s)
    BY <1>1, <1>2, <2>1 DEF ClockwiseDistance
  <2>3. ClockwiseDistance(SgwSw, t) <= ClockwiseDistance(SgwSw, EnbSw[f])
    BY <1>1, <1>2, <2>1, <2>2 DEF ClockwiseDistance
  <2> QED
    BY <1>2, <1>4, <2>3 DEF OnPath, PathSwitches, Switch
<1> QED
  BY <1>3, <1>4 DEF RingPath

(* The old rules carry the packets of the old eNB, and those for the S-GW where  *)
(* there is no rule of the new path.                                         *)
LEMMA BestOnOldPath ==
    ASSUME Inv, NEW e \in Enb, NEW p \in RingPath, OldPathOK(e, p),
           BothWays(e, p, prio - 1, mbr) \subseteq ring, NEW s \in OnPath(e, p)
    PROVE  /\ s # EnbSw[e] => Matching(s, e) # {} /\ Best(s, e).out = p
           /\ (s # SgwSw /\ ~(ifInst /\ s \in OnPath(enb, path)))
                 => Matching(s, "sgw") # {} /\ Best(s, "sgw").out = InvertPath(p)
<1> DEFINE old == BothWays(e, p, prio - 1, mbr)
<1>1. TypeOK /\ RingOK /\ e # "sgw" /\ e # enb /\ prio \in Int
  BY Switches, Types DEF Inv, OldPathOK
<1>2. \A r \in ring : /\ r.prio \in Int
                      /\ \/ r \in old
                         \/ ifInst /\ r.sw \in OnPath(enb, path) /\ r.dst \in {enb, "sgw"}
  <2>1. \A r \in ring : r.prio \in Int
    BY <1>1, Types
  <2>2. \A r \in ring : r.prio = prio - 1 => r \in old
    BY DEF OldPathOK
  <2>3. ASSUME NEW r \in CurrentRules, ifInst PROVE r.sw \in OnPath(enb, path) /\ r.dst \in {enb, "sgw"}
    BY <2>3, Current, RuleFields DEF CurrentRules
  <2> QED
    BY <1>1, <2>1, <2>2, <2>3 DEF RingOK
<1>3. ASSUME NEW dst, NEW r \in old, r.sw = s, r.dst = dst,
             \A q \in old : (q.sw = s /\ q.dst = dst) => q = r,
             ~(ifInst /\ s \in OnPath(enb, path) /\ dst \in {enb, "sgw"})
      PROVE  Matching(s, dst) # {} /\ Best(s, dst) = r
  <2> HIDE DEF old
  <2>1. r \in ring /\ r \in Matching(s, dst)
    BY <1>3 DEF Matching, old
  <2>2. \A q \in Matching(s, dst) : q.prio \in Int /\ (q = r \/ q.prio < r.prio)
    BY <1>2, <1>3 DEF Matching
  <2> QED
    BY <2>1, <2>2, BestIs
<1>4. ASSUME s # EnbSw[e]
      PROVE  Matching(s, e) # {} /\ Best(s, e).out = p
  <2> DEFINE d == Down(e, p, prio - 1, mbr, s)
  <2>1. d.sw = s /\ d.dst = e /\ d.out = p
    BY DEF Down
  <2>2. d \in old
    BY <1>4, RulesForm
  <2>3. \A q \in old : (q.sw = s /\ q.dst = e) => q = d
    BY RuleFields
  <2> HIDE DEF d, old
  <2> QED
    BY <1>1, <1>3, <2>1, <2>2, <2>3
<1>5. ASSUME s # SgwSw, ~(ifInst /\ s \in OnPath(enb, path))
      PROVE  Matching(s, "sgw") # {} /\ Best(s, "sgw").out = InvertPath(p)
  <2> DEFINE u == Up(e, p, prio - 1, mbr, s)
  <2>1. u.sw = s /\ u.dst = "sgw" /\ u.out = InvertPath(p)
    BY DEF Up
  <2>2. u \in old
    BY <1>5, RulesForm
  <2>3. \A q \in old : (q.sw = s /\ q.dst = "sgw") => q = u
    BY RuleFields
  <2> HIDE DEF u, old
  <2> QED
    BY <1>3, <1>5, <2>1, <2>2, <2>3
<1> QED
  BY <1>4, <1>5

(***************************************************************************)
(* After a handover the ring still carries the packets of the old eNB, as long  *)
(* as the S-GW may send to it, and those that wait for the S-GW on the old      *)
(* path, until the deletions are due.                                        *)
(***************************************************************************)
THEOREM InFlightServedHolds == Spec => []InFlightServed
<1>1. ASSUME Inv, Served PROVE InFlightServed
  <2> SUFFICES ASSUME gwInst, \A c \in later : c.left > 0
               PROVE  /\ \A r \in sgw : r.dst \in Enb => Reaches(SgwSw, r.dst, EnbSw[r.dst])
                      /\ \A c \in later : c.cmd = "rules" => Reaches(c.sw, "sgw", SgwSw)
    BY DEF InFlightServed
  <2>1. TypeOK /\ FlagsOK /\ SgwOK /\ RingOK
    BY <1>1 DEF Inv
  <2>2. SgwSw \in Switch /\ \A e \in Enb : EnbSw[e] \in Switch /\ e # "pgw"
    BY Switches
  <2>3. ASSUME NEW r \in sgw, r.dst \in Enb PROVE Reaches(SgwSw, r.dst, EnbSw[r.dst])
    <3>1. CASE r.dst = enb
      BY <1>1, <3>1 DEF Served
    <3>2. CASE r.dst # enb
      <4>1. PICK c \in later : Gateway(c)
        BY <2>1, <2>2, <2>3, <3>2 DEF SgwOK
      <4>2. PICK e \in Enb, p \in Path : OldPathOK(e, p)
        BY <1>1, <4>1 DEF Inv
      <4>3. r.dst = e
        BY <2>2, <2>3, <3>2, <4>2 DEF OldPathOK
      <4>4. CASE p = "LOCAL"
        <5>1. EnbSw[e] = SgwSw
          BY <4>2, <4>4 DEF OldPathOK
        <5> QED
          BY <2>2, <4>3, <5>1, Arrived
      <4>5. CASE p # "LOCAL"
        <5>1. p \in RingPath
          BY <4>5, PathType
        <5>2. BothWays(e, p, prio - 1, mbr) \subseteq ring
          BY <4>1, <4>2, <4>5 DEF OldPathOK, Gateway
        <5>3. \A s \in PathSwitches(SgwSw, EnbSw[e], p) \ {EnbSw[e]} :
                 Matching(s, e) # {} /\ Best(s, e).out = p
          BY <1>1, <4>2, <5>1, <5>2, BestOnOldPath DEF OnPath
        <5> QED
          BY <2>2, <4>3, <5>1, <5>3, Walk
      <4> QED
        BY <4>4, <4>5
    <3> QED
      BY <3>1, <3>2
  <2>4. ASSUME NEW c \in later, c.cmd = "rules" PROVE Reaches(c.sw, "sgw", SgwSw)
    <3> DEFINE t == c.sw
    <3>1. PICK e \in Enb, p \in Path : OldPathOK(e, p)
      BY <1>1, <2>4 DEF Inv
    <3>2. p \in RingPath /\ InvertPath(p) \in RingPath /\ t \in OnPath(e, p)
      BY <2>4, <3>1, PathType DEF OldPathOK, Rules
    <3>3. BothWays(e, p, prio - 1, mbr) \subseteq ring
      BY <2>4, <3>1, <3>2 DEF OldPathOK, RingPath
    <3>4. t \in Switch
      BY <3>2, OnPathBothWays
    <3> HIDE DEF t
    <3>5. CASE t = SgwSw
      BY <3>4, <3>5, Arrived DEF t
    <3>6. ASSUME ifInst
          PROVE  /\ path \in RingPath /\ InvertPath(path) \in RingPath /\ enb \in Enb
                 /\ \A s \in OnPath(enb, path) \ {SgwSw} :
                       Matching(s, "sgw") # {} /\ Best(s, "sgw").out = InvertPath(path)
      <4>1. path \in RingPath /\ InvertPath(path) \in RingPath /\ enb \in Enb
        BY <1>1, <3>6, Current, PathType DEF Path, RingPath
      <4>2. \A s : Up(enb, path, prio, mbr, s).out = InvertPath(path)
        BY DEF Up
      <4>3. ASSUME NEW s \in OnPath(enb, path), s # SgwSw
            PROVE  /\ Up(enb, path, prio, mbr, s) \in Matching(s, "sgw")
                   /\ Best(s, "sgw") = Up(enb, path, prio, mbr, s)
        BY <1>1, <3>6, <4>3, BestOnPath
      <4> QED
        BY <4>1, <4>2, <4>3
    <3>7. CASE ifInst /\ t \in OnPath(enb, path)
      <4>1. \A s \in PathSwitches(t, SgwSw, InvertPath(path)) \ {SgwSw} :
               Matching(s, "sgw") # {} /\ Best(s, "sgw").out = InvertPath(path)
        BY <3>6, <3>7, WayBack
      <4> QED
        BY <2>2, <3>4, <3>6, <3>7, <4>1, Walk DEF t
    <3>8. CASE ~(ifInst /\ t \in OnPath(enb, path))
      <4>1. ASSUME NEW s \in PathSwitches(t, SgwSw, InvertPath(p)) \ {SgwSw}
            PROVE  Matching(s, "sgw") # {} /\ Best(s, "sgw").out = InvertPath(p)
        <5>1. s \in OnPath(e, p)
          BY <3>2, <4>1, WayBack
        <5>2. CASE ifInst /\ s \in OnPath(enb, path)
          <6>1. path = p
            BY <3>2, <3>6, <3>8, <4>1, <5>2, OtherSide
          <6> QED
            BY <3>6, <4>1, <5>2, <6>1
        <5>3. CASE ~(ifInst /\ s \in OnPath(enb, path))
          BY <1>1, <3>1, <3>2, <3>3, <4>1, <5>1, <5>3, BestOnOldPath
        <5> QED
          BY <5>2, <5>3
      <4> QED
        BY <2>2, <3>2, <3>4, <4>1, Walk DEF t
    <3> QED
      BY <3>7, <3>8
  <2> QED
    BY <2>3, <2>4
<1> QED
  BY <1>1, InvHolds, ServedHolds, PTL
==============================================================================
