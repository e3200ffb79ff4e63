------------------------ MODULE RingControllerProofs -------------------------
(***************************************************************************)
(* Proofs about RingController for every ring, every set of UEs, eNBs and    *)
(* bearers, and every bit rate: the accounting of LinkInfo is exact, and what *)
(* BearerRequest accepts BearerReserve can reserve when routing is SPO or the *)
(* bit rates are symmetric (the RingOverlap run shows why not otherwise).     *)
(***************************************************************************)
EXTENDS RingController, FiniteSetTheorems, TLAPS

(* What two holding functions count.                                         *)
Holdings == [Bearer -> [Iface -> 0 .. MaxBitRate]]

Rest(h, s, b)  == {u \in Units(h, s) : u[1][1] # b}
Own(b, i, n)   == {<<b, i>>} \X (1 .. n)

(***************************************************************************)
(* Only finitely many units can be held.                                     *)
(***************************************************************************)
LEMMA UnitsFinite ==
    ASSUME NEW h, NEW s
    PROVE  IsFiniteSet(Units(h, s)) /\ Cardinality(Units(h, s)) \in Nat
  <1>1. IsFiniteSet(Iface)
    <2>1. IsFiniteSet({"S5"}) /\ IsFiniteSet({"S1"})
      BY FS_Singleton
    <2>2. Iface = {"S5"} \cup {"S1"}
      BY DEF Iface
    <2> QED
      BY <2>1, <2>2, FS_Union
  <1>2. IsFiniteSet(Bearer \X Iface)
    BY <1>1, ConstAssumption, FS_Product
  <1>3. IsFiniteSet(1 .. MaxBitRate)
    BY ConstAssumption, FS_Interval
  <1>4. IsFiniteSet((Bearer \X Iface) \X (1 .. MaxBitRate))
    BY <1>2, <1>3, FS_Product
  <1>5. Units(h, s) \subseteq (Bearer \X Iface) \X (1 .. MaxBitRate)
    BY DEF Units
  <1> QED
    BY <1>4, <1>5, FS_Subset, FS_CardinalityType

(***************************************************************************)
(* Disjoint sets count separately.                                           *)
(***************************************************************************)
LEMMA DisjointUnion ==
    ASSUME NEW S, IsFiniteSet(S), NEW T, IsFiniteSet(T), S \cap T = {}
    PROVE  /\ IsFiniteSet(S \cup T)
           /\ Cardinality(S \cup T) = Cardinality(S) + Cardinality(T)
  <1>1. Cardinality(S \cap T) = 0
    BY FS_EmptySet
  <1>2. Cardinality(S) \in Nat /\ Cardinality(T) \in Nat
    BY FS_CardinalityType
  <1>3. /\ IsFiniteSet(S \cup T)
        /\ Cardinality(S \cup T) = Cardinality(S) + Cardinality(T) - Cardinality(S \cap T)
    BY FS_Union, Zenon
  <1> QED
    BY <1>1, <1>2, <1>3

(***************************************************************************)
(* The units of one interface are as many as its bit rate.                   *)
(***************************************************************************)
LEMMA OwnCount ==
    ASSUME NEW b, NEW i, NEW n \in Nat
    PROVE  IsFiniteSet(Own(b, i, n)) /\ Cardinality(Own(b, i, n)) = n
  <1>1. IsFiniteSet({<<b, i>>}) /\ Cardinality({<<b, i>>}) = 1
    BY FS_Singleton
  <1>2. IsFiniteSet(1 .. n) /\ Cardinality(1 .. n) = n
    <2>1. IsFiniteSet(1 .. n)
          /\ Cardinality(1 .. n) = IF 1 > n THEN 0 ELSE n - 1 + 1
      BY FS_Interval
    <2> QED
      BY <2>1
  <1>3. /\ IsFiniteSet(Own(b, i, n))
        /\ Cardinality(Own(b, i, n)) = Cardinality({<<b, i>>}) * Cardinality(1 .. n)
    BY <1>1, <1>2, FS_Product, Zenon DEF Own
  <1> QED
    BY <1>1, <1>2, <1>3

(***************************************************************************)
(* Counting apart what one bearer holds.                                     *)
(***************************************************************************)
LEMMA UnitsSplit ==
    ASSUME NEW b \in Bearer, NEW h \in Holdings
    PROVE  /\ IsFiniteSet(Rest(h, BearerSlice[b], b))
           /\ Cardinality(Rest(h, BearerSlice[b], b)) \in Nat
           /\ Cardinality(Units(h, BearerSlice[b]))
                = Cardinality(Rest(h, BearerSlice[b], b)) + h[b]["S5"] + h[b]["S1"]
  <1> DEFINE s == BearerSlice[b]
             R == Rest(h, s, b)
             A == Own(b, "S5", h[b]["S5"])
             B == Own(b, "S1", h[b]["S1"])
  <1>1. h[b]["S5"] \in 0 .. MaxBitRate /\ h[b]["S1"] \in 0 .. MaxBitRate
    BY DEF Holdings, Iface
  <1>2. MaxBitRate \in Nat
    BY ConstAssumption
  <1>3. IsFiniteSet(R) /\ Cardinality(R) \in Nat
    <2>1. R \subseteq Units(h, s)
      BY DEF Rest
    <2> QED
      BY <2>1, UnitsFinite, FS_Subset, FS_CardinalityType
  <1>4. /\ IsFiniteSet(A) /\ Cardinality(A) = h[b]["S5"]
        /\ IsFiniteSet(B) /\ Cardinality(B) = h[b]["S1"]
    BY <1>1, <1>2, OwnCount
  <1>5. Units(h, s) = (R \cup A) \cup B
    <2>1. ASSUME NEW u \in Units(h, s), u \notin R PROVE u \in A \cup B
      <3>1. PICK c \in Bearer, i \in Iface, k \in 1 .. MaxBitRate :
               u = <<<<c, i>>, k>> /\ k <= h[c][i]
        BY <2>1 DEF Units
      <3>2. c = b
        BY <2>1, <3>1 DEF Rest
      <3> QED
        BY <1>1, <1>2, <3>1, <3>2 DEF Own, Iface
    <2>2. ASSUME NEW i \in Iface, NEW u \in Own(b, i, h[b][i]) PROVE u \in Units(h, s)
      <3>1. PICK k \in 1 .. h[b][i] : u = <<<<b, i>>, k>>
        BY <2>2 DEF Own
      <3>2. k \in 1 .. MaxBitRate /\ k <= h[b][i]
        BY <1>1, <1>2, <2>2, <3>1 DEF Iface
      <3> QED
        BY <3>1, <3>2 DEF Units
    <2>3. A \subseteq Units(h, s) /\ B \subseteq Units(h, s)
      BY <2>2 DEF Iface
    <2>4. R \subseteq Units(h, s)
      BY DEF Rest
    <2> QED
      BY <2>1, <2>3, <2>4
  <1>6. R \cap A = {} /\ (R \cup A) \cap B = {}
    BY DEF Rest, Own
  <1> HIDE DEF R, A, B
  <1>7. IsFiniteSet(R \cup A) /\ Cardinality(R \cup A) = Cardinality(R) + h[b]["S5"]
    BY <1>1, <1>2, <1>3, <1>4, <1>6, DisjointUnion
  <1>8. Cardinality((R \cup A) \cup B) = Cardinality(R) + h[b]["S5"] + h[b]["S1"]
    <2>1. Cardinality((R \cup A) \cup B) = Cardinality(R \cup A) + Cardinality(B)
      BY <1>4, <1>6, <1>7, DisjointUnion, Zenon
    <2> QED
      BY <1>4, <1>7, <2>1
  <1> QED
    BY <1>3, <1>5, <1>8 DEF R

(***************************************************************************)
(* When one bearer holds something else, the count of its slice changes by   *)
(* as much and no other slice's does.                                        *)
(***************************************************************************)
LEMMA UnitsChange ==
    ASSUME NEW b \in Bearer, NEW h \in Holdings, NEW g \in Holdings,
           \A c \in Bearer : c # b => g[c] = h[c],
           NEW s \in Slice
    PROVE  Cardinality(Units(g, s)) = Cardinality(Units(h, s))
             + (IF s = BearerSlice[b]
                THEN (g[b]["S5"] - h[b]["S5"]) + (g[b]["S1"] - h[b]["S1"]) ELSE 0)
  <1>1. /\ h[b]["S5"] \in Int /\ h[b]["S1"] \in Int
        /\ g[b]["S5"] \in Int /\ g[b]["S1"] \in Int
    BY ConstAssumption DEF Holdings, Iface
  <1>2. CASE s = BearerSlice[b]
    <2>1. Rest(g, s, b) = Rest(h, s, b)
      BY DEF Rest, Units
    <2>2. /\ Cardinality(Units(h, s))
               = Cardinality(Rest(h, s, b)) + h[b]["S5"] + h[b]["S1"]
          /\ Cardinality(Units(g, s))
               = Cardinality(Rest(g, s, b)) + g[b]["S5"] + g[b]["S1"]
          /\ Cardinality(Rest(h, s, b)) \in Nat
      BY <1>2, UnitsSplit
    <2> QED
      BY <1>1, <1>2, <2>1, <2>2
  <1>3. CASE s # BearerSlice[b]
    <2>1. Units(g, s) = Units(h, s)
      BY <1>3 DEF Units
    <2>2. Cardinality(Units(h, s)) \in Nat
      BY UnitsFinite
    <2> QED
      BY <1>3, <2>1, <2>2
  <1> QED
    BY <1>2, <1>3
------------------------------------------------------------------------------
(***************************************************************************)
(* The bit rate an interface takes on a port is bounded, before and after a  *)
(* step.                                                                     *)
(***************************************************************************)
LEMMA ChargeType ==
    ASSUME NEW b \in Bearer, NEW q \in Port, NEW i, NEW e, NEW p
    PROVE  ChargeOn(q, b, i, e, p) \in 0 .. MaxBitRate
  BY ConstAssumption DEF ChargeOn, Rate

(***************************************************************************)
(* What an interface charges to the ports is a function of them.             *)
(***************************************************************************)
LEMMA ChargeFcn ==
    ASSUME NEW b \in Bearer, NEW i, NEW e, NEW p
    PROVE  /\ Charge(b, i, e, p) \in [Port -> Int]
           /\ NoCharge \in [Port -> Int]
           /\ \A q \in Port : /\ Charge(b, i, e, p)[q] = ChargeOn(q, b, i, e, p)
                              /\ Charge(b, i, e, p)[q] \in 0 .. MaxBitRate
                              /\ NoCharge[q] = 0
  BY ConstAssumption, ChargeType DEF Charge, NoCharge

(***************************************************************************)
(* What the bearers hold is a rate within bounds, before and after a step.   *)
(***************************************************************************)
LEMMA HoldingType ==
    ASSUME NEW q \in Port
    PROVE  Holding(q) \in Holdings /\ Holding(q)' \in Holdings
  <1>1. MaxBitRate \in Nat
    BY ConstAssumption
  <1>2. ASSUME NEW b \in Bearer, NEW i \in Iface
        PROVE  /\ (IF gbrRes[b][i] THEN ChargeOn(q, b, i, EnbOf(b), path[b][i]) ELSE 0)
                    \in 0 .. MaxBitRate
               /\ (IF gbrRes[b][i] THEN ChargeOn(q, b, i, EnbOf(b), path[b][i]) ELSE 0)'
                    \in 0 .. MaxBitRate
    <2>1. ChargeOn(q, b, i, EnbOf(b), path[b][i]) \in 0 .. MaxBitRate
      BY ChargeType
    <2>2. ChargeOn(q, b, i, EnbOf(b)', path'[b][i]) \in 0 .. MaxBitRate
      BY ChargeType
    <2>3. ChargeOn(q, b, i, EnbOf(b), path[b][i])' = ChargeOn(q, b, i, EnbOf(b)', path'[b][i])
      BY DEF ChargeOn, Rate, Links, SrcDlSw, DstDlSw
    <2> QED
      BY <1>1, <2>1, <2>2, <2>3
  <1> QED
    BY <1>2 DEF Holding, Holdings

Ledger == [Port -> [SliceAll -> Int]]

(***************************************************************************)
(* UpdateResBitRate changes the slice and the ALL entry alike.               *)
(***************************************************************************)
LEMMA ChargeLedger ==
    ASSUME NEW r \in Ledger, NEW s \in Slice, NEW c \in [Port -> Int]
    PROVE  /\ AddCharge(r, s, c) \in Ledger
           /\ SubCharge(r, s, c) \in Ledger
           /\ \A q \in Port, t \in SliceAll :
                 /\ AddCharge(r, s, c)[q][t]
                      = r[q][t] + (IF t = s \/ t = "ALL" THEN c[q] ELSE 0)
                 /\ SubCharge(r, s, c)[q][t]
                      = r[q][t] - (IF t = s \/ t = "ALL" THEN c[q] ELSE 0)
  <1>1. s \in SliceAll /\ "ALL" \in SliceAll /\ s # "ALL"
    BY DEF Slice, SliceAll
  <1>2. ASSUME NEW q \in Port
        PROVE  /\ r[q] \in [SliceAll -> Int] /\ c[q] \in Int
    BY DEF Ledger
  <1> QED
    BY <1>1, <1>2 DEF AddCharge, SubCharge, Ledger

(***************************************************************************)
(* The accounting stays exact over a step that changes what one bearer holds *)
(* and the counters of its slice and of ALL by the same amounts.             *)
(***************************************************************************)
LEMMA LedgerStep ==
    ASSUME TypeOK, Conserved, AllIsSum, res' \in Ledger, NEW b \in Bearer,
           \A q \in Port, c \in Bearer : c # b => Holding(q)'[c] = Holding(q)[c],
           \A q \in Port, t \in SliceAll :
              res'[q][t] = res[q][t] +
                (IF t = BearerSlice[b] \/ t = "ALL"
                 THEN (Holding(q)'[b]["S5"] - Holding(q)[b]["S5"])
                      + (Holding(q)'[b]["S1"] - Holding(q)[b]["S1"]) ELSE 0)
    PROVE  Conserved' /\ AllIsSum' /\ res' \in [Port -> [SliceAll -> Nat]]
  <1>1. ASSUME NEW q \in Port, NEW s \in Slice
        PROVE  res'[q][s] = Cardinality(Units(Holding(q)', s)) /\ res'[q][s] \in Nat
    <2>1. Holding(q) \in Holdings /\ Holding(q)' \in Holdings
      BY HoldingType
    <2>2. Cardinality(Units(Holding(q)', s)) = Cardinality(Units(Holding(q), s))
             + (IF s = BearerSlice[b]
                THEN (Holding(q)'[b]["S5"] - Holding(q)[b]["S5"])
                     + (Holding(q)'[b]["S1"] - Holding(q)[b]["S1"]) ELSE 0)
      BY <2>1, UnitsChange
    <2>3. s \in SliceAll /\ s # "ALL"
      BY DEF Slice, SliceAll
    <2>4. res[q][s] = Cardinality(Units(Holding(q), s))
      BY DEF Conserved
    <2>5. Cardinality(Units(Holding(q)', s)) \in Nat
      BY UnitsFinite
    <2> QED
      BY <2>2, <2>3, <2>4, <2>5
  <1>2. Conserved'
    <2>1. ASSUME NEW q \in Port, NEW s \in Slice
          PROVE  Units(Holding(q), s)' = Units(Holding(q)', s)
      BY DEF Units
    <2> QED
      BY <1>1, <2>1 DEF Conserved
  <1>3. ASSUME NEW q \in Port
        PROVE  res'[q]["ALL"] = res'[q]["HTC"] + res'[q]["MTC"] + res'[q]["TMP"]
    <2> DEFINE D == (Holding(q)'[b]["S5"] - Holding(q)[b]["S5"])
                    + (Holding(q)'[b]["S1"] - Holding(q)[b]["S1"])
    <2>1. BearerSlice[b] \in {"HTC", "MTC", "TMP"}
      BY ConstAssumption DEF Slice
    <2>2. D \in Int
      BY HoldingType, ConstAssumption DEF Holdings, Iface
    <2>3. res[q]["ALL"] = res[q]["HTC"] + res[q]["MTC"] + res[q]["TMP"]
      BY DEF AllIsSum
    <2>4. \A t \in SliceAll : res[q][t] \in Int
      BY DEF TypeOK
    <2>5. \A t \in SliceAll :
             res'[q][t] = res[q][t]
                          + (IF t = BearerSlice[b] \/ t = "ALL" THEN D ELSE 0)
      OBVIOUS
    <2> HIDE DEF D
    <2> QED
      BY <2>1, <2>2, <2>3, <2>4, <2>5 DEF SliceAll, Slice
  <1>4. AllIsSum'
    BY <1>3 DEF AllIsSum
  <1>5. res' \in [Port -> [SliceAll -> Nat]]
    <2>1. ASSUME NEW q \in Port, NEW t \in SliceAll PROVE res'[q][t] \in Nat
      BY <1>1, <1>3 DEF SliceAll, Slice
    <2> QED
      BY <2>1 DEF Ledger
  <1> QED
    BY <1>2, <1>4, <1>5
------------------------------------------------------------------------------
Checked == [path : [Iface -> Path], blocked : SUBSET (BackReason \cup GwReason)]

(***************************************************************************)
(* GetShortPath and InvertPath return ring paths.                            *)
(***************************************************************************)
LEMMA PathTypes ==
    /\ \A a, b : GetShortPath(a, b) \in Path
    /\ \A p \in Path : InvertPath(p) \in Path
  BY DEF GetShortPath, InvertPath, Path

(***************************************************************************)
(* The checks of a request leave ring paths and block reasons in the         *)
(* bearer's metadata.                                                        *)
(***************************************************************************)
LEMMA CheckType ==
    ASSUME NEW b \in Bearer, NEW p5 \in Path, NEW ag, NEW load \in Loads
    PROVE  /\ CheckResources(b, p5, ag, load) \in Checked
           /\ Strategy = "SPO" =>
                CheckResources(b, p5, ag, load).path["S5"] = p5
  <1> DEFINE e     == ueEnb[BearerUe[b]]
             t5    == TriedPath(b, e, "S5", p5, {}, ag, load)
             links == Links(b, "S5", e, t5)
             t1    == TriedPath(b, e, "S1", ShortestPath(b, "S1", e), links, ag, load)
  <1>1. t5 \in Path /\ t1 \in Path /\ (Strategy = "SPO" => t5 = p5)
    BY PathTypes DEF TriedPath, ShortestPath
  <1>2. /\ Missing(b, e, "S5", t5, {}, ag, load) \subseteq BackReason
        /\ Missing(b, e, "S1", t1, links, ag, load) \subseteq BackReason
    BY DEF Missing
  <1>3. GwMissing(ag, load) \subseteq GwReason
    BY ConstAssumption DEF GwMissing, Load
  <1> HIDE DEF t5, t1, links, e
  <1>4. CheckResources(b, p5, ag, load)
          = [path    |-> [i \in Iface |-> IF i = "S5" THEN t5 ELSE t1],
             blocked |-> GwMissing(ag, load)
                         \cup Missing(b, e, "S5", t5, {}, ag, load)
                         \cup Missing(b, e, "S1", t1, links, ag, load)]
    BY DEF CheckResources, t5, t1, links, e
  <1> QED
    BY <1>1, <1>2, <1>3, <1>4 DEF Checked, Iface

(***************************************************************************)
(* A request is admitted with rules of its own after a first round of checks *)
(* that found nothing missing, or settles without touching the ring.         *)
(***************************************************************************)
LEMMA RequestOutcome ==
    ASSUME TypeOK, NEW b \in Bearer, NEW load \in Loads,
           DedicatedBearerRequest(b, load)
    PROVE  /\ Running /\ ~ho.on /\ st[b] = "idle"
           /\ \/ \E c \in Checked, ag \in BOOLEAN :
                    /\ c = CheckResources(b, path[b]["S5"], ag, load)
                    /\ ~ag
                    /\ c.blocked = {}
                    /\ Admit(b, c)
              \/ \E c \in Checked, ag \in BOOLEAN, newSt \in {"idle", "active"} :
                    /\ Strategy = "SPO" => c.path["S5"] = path[b]["S5"]
                    /\ newSt = "active" => ag
                    /\ Settle(b, c, ag, newSt)
  <1> DEFINE on     == Aggregation[BearerSlice[b]] = "ON"
             auto   == Aggregation[BearerSlice[b]] = "AUTO"
             first  == CheckResources(b, path[b]["S5"], on, load)
             second == CheckResources(b, first.path["S5"], TRUE, load)
  <1>1. on \in BOOLEAN
    OBVIOUS
  <1>2. path[b]["S5"] \in Path
    BY DEF TypeOK, Iface
  <1>3. first \in Checked /\ (Strategy = "SPO" => first.path["S5"] = path[b]["S5"])
    BY <1>2, CheckType
  <1>4. first = CheckResources(b, path[b]["S5"], on, load)
    OBVIOUS
  <1>5. /\ Running /\ ~ho.on /\ st[b] = "idle"
        /\ \/ first.blocked = {} /\ ~on /\ Admit(b, first)
           \/ first.blocked = {} /\ on /\ Settle(b, first, TRUE, "active")
           \/ first.blocked # {} /\ auto /\ second.blocked = {}
              /\ Settle(b, second, TRUE, "active")
           \/ first.blocked # {} /\ auto /\ second.blocked # {}
              /\ Settle(b, second, TRUE, "idle")
           \/ first.blocked # {} /\ ~auto /\ Settle(b, first, on, "idle")
    BY Zenon DEF DedicatedBearerRequest
  <1> HIDE DEF on, auto, first
  <1>6. first.path["S5"] \in Path
    BY <1>3 DEF Checked, Iface
  <1>7. second \in Checked /\ (Strategy = "SPO" => second.path["S5"] = first.path["S5"])
    BY <1>6, CheckType
  <1> HIDE DEF second
  <1> QED
    BY <1>1, <1>3, <1>7, <1>4, <1>5

(***************************************************************************)
(* What a bearer holds depends on its eNB's switch, its paths and its flags. *)
(***************************************************************************)
LEMMA HoldingSame ==
    ASSUME NEW q \in Port, NEW b \in Bearer,
           path'[b] = path[b], gbrRes'[b] = gbrRes[b], EnbOf(b)' = EnbOf(b)
    PROVE  Holding(q)'[b] = Holding(q)[b]
  BY DEF Holding, ChargeOn, Rate, Links, SrcDlSw, DstDlSw

(***************************************************************************)
(* What a bearer holds on a port, given the eNB its S1-U rules follow.       *)
(***************************************************************************)
LEMMA HoldingIs ==
    ASSUME NEW q \in Port, NEW b \in Bearer, NEW i \in Iface
    PROVE  /\ Holding(q)[b][i] =
                IF gbrRes[b][i] THEN ChargeOn(q, b, i, EnbOf(b), path[b][i]) ELSE 0
           /\ Holding(q)'[b][i] =
                IF gbrRes'[b][i] THEN ChargeOn(q, b, i, EnbOf(b)', path'[b][i]) ELSE 0
  BY DEF Holding, ChargeOn, Rate, Links, SrcDlSw, DstDlSw

(***************************************************************************)
(* No step outside the reservations changes the accounting.                  *)
(***************************************************************************)
LEMMA LedgerStutter ==
    ASSUME TypeOK, Conserved, AllIsSum, res' = res,
           \A q \in Port, b \in Bearer : Holding(q)'[b] = Holding(q)[b]
    PROVE  Conserved' /\ AllIsSum'
  <1>1. ASSUME NEW q \in Port PROVE Holding(q)' = Holding(q)
    <2>1. Holding(q) \in Holdings /\ Holding(q)' \in Holdings
      BY HoldingType
    <2> QED
      BY <2>1 DEF Holdings
  <1>2. ASSUME NEW q \in Port, NEW s \in Slice
        PROVE  Units(Holding(q), s)' = Units(Holding(q), s)
    BY <1>1 DEF Units
  <1> QED
    BY <1>2 DEF Conserved, AllIsSum
------------------------------------------------------------------------------
(* The accounting over each action.                                          *)

(***************************************************************************)
(* Before the first request nothing is reserved and nothing is held.         *)
(***************************************************************************)
LEMMA InitLedger == Init => LedgerInv
  <1> SUFFICES ASSUME Init PROVE LedgerInv
    OBVIOUS
  <1>1. TypeOK
    <2>1. ho \in [on : BOOLEAN, ue : Ue, enb : Enb, todo : SUBSET Bearer]
      BY ConstAssumption DEF Init, NoHandover
    <2>2. path \in [Bearer -> [Iface -> Path]]
      BY PathTypes DEF Init, ShortestPath
    <2>3. /\ res \in [Port -> [SliceAll -> Nat]]
          /\ ext \in [Port -> [Slice -> Nat]]
          /\ fault \in Fault
      BY DEF Init, Fault
    <2>4. /\ gbrRes \in [Bearer -> [Iface -> BOOLEAN]]
          /\ ifInst \in [Bearer -> [Iface -> BOOLEAN]]
      BY DEF Init
    <2>5. /\ st \in [Bearer -> {"idle", "active", "stopped"}]
          /\ agg \in [Bearer -> BOOLEAN] /\ gwInst \in [Bearer -> BOOLEAN]
          /\ blocked \in [Bearer -> SUBSET (BackReason \cup GwReason)]
      BY DEF Init
    <2> QED
      BY <2>1, <2>2, <2>3, <2>4, <2>5 DEF Init, TypeOK
  <1>2. HandoverOK /\ AllIsSum /\ NothingLeftBehind
    BY DEF Init, HandoverOK, NoHandover, AllIsSum, NothingLeftBehind, SliceAll, Slice
  <1>3. Conserved
    <2>1. ASSUME NEW q \in Port, NEW s \in Slice PROVE Units(Holding(q), s) = {}
      <3>1. \A b \in Bearer, i \in Iface : Holding(q)[b][i] = 0
        BY DEF Init, Holding
      <3>2. ASSUME NEW u \in Units(Holding(q), s) PROVE FALSE
        <4>1. PICK b \in Bearer, i \in Iface, k \in 1 .. MaxBitRate :
                 k <= Holding(q)[b][i]
          BY <3>2 DEF Units
        <4> QED
          BY <3>1, <4>1, ConstAssumption
      <3> QED
        BY <3>2
    <2>2. \A q \in Port, s \in Slice : res[q][s] = 0
      BY DEF Init, SliceAll
    <2> QED
      BY <2>1, <2>2, FS_EmptySet DEF Conserved
  <1> QED
    BY <1>1, <1>2, <1>3 DEF LedgerInv

(***************************************************************************)
(* BearerReserve and BearerInstall.                                          *)
(***************************************************************************)
LEMMA AdmitLedger ==
    ASSUME LedgerInv, NEW b \in Bearer, NEW c \in Checked,
           ~ho.on, st[b] = "idle", Admit(b, c)
    PROVE  LedgerInv'
  <1> DEFINE s        == BearerSlice[b]
             e        == ueEnb[BearerUe[b]]
             needs(i) == HasGbrBitRate(b) /\ c.path[i] # "LOCAL"
             chg5     == IF needs("S5") THEN Charge(b, "S5", e, c.path["S5"]) ELSE NoCharge
             chg1     == IF needs("S1") THEN Charge(b, "S1", e, c.path["S1"]) ELSE NoCharge
             afterS5  == AddCharge(res, s, chg5)
  <1>1. s \in Slice /\ res \in Ledger /\ TypeOK
    BY ConstAssumption DEF LedgerInv, TypeOK, Ledger
  <1>2. ~gbrRes[b]["S5"] /\ ~gbrRes[b]["S1"]
    BY DEF LedgerInv, NothingLeftBehind, Iface
  <1>3. /\ res' = AddCharge(afterS5, s, chg1)
        /\ path' = [path EXCEPT ![b] = c.path]
        /\ gbrRes' = [gbrRes EXCEPT ![b] = [i \in Iface |-> needs(i)]]
        /\ UNCHANGED <<ueEnb, ho, ext>>
    BY DEF Admit, Iface
  <1>4. chg5 \in [Port -> Int] /\ chg1 \in [Port -> Int]
    BY ChargeFcn
  <1>5. ASSUME NEW q \in Port
        PROVE  /\ Holding(q)[b]["S5"] = 0 /\ Holding(q)[b]["S1"] = 0
               /\ Holding(q)'[b]["S5"] = chg5[q] /\ Holding(q)'[b]["S1"] = chg1[q]
    <2>1. EnbOf(b)' = e
      BY <1>3 DEF EnbOf
    <2>2. /\ path'[b] = c.path
          /\ gbrRes'[b]["S5"] = needs("S5") /\ gbrRes'[b]["S1"] = needs("S1")
      BY <1>1, <1>3 DEF TypeOK, Iface
    <2>3. /\ chg5[q] = IF needs("S5") THEN ChargeOn(q, b, "S5", e, c.path["S5"]) ELSE 0
          /\ chg1[q] = IF needs("S1") THEN ChargeOn(q, b, "S1", e, c.path["S1"]) ELSE 0
      BY ChargeFcn
    <2>4. "S5" \in Iface /\ "S1" \in Iface
      BY DEF Iface
    <2> HIDE DEF needs, chg5, chg1, e
    <2> QED
      BY <1>2, <2>1, <2>2, <2>3, <2>4, HoldingIs
  <1>6. \A q \in Port, d \in Bearer : d # b => Holding(q)'[d] = Holding(q)[d]
    <2>1. ASSUME NEW d \in Bearer, d # b
          PROVE  path'[d] = path[d] /\ gbrRes'[d] = gbrRes[d] /\ EnbOf(d)' = EnbOf(d)
      BY <1>1, <1>3, <2>1 DEF TypeOK, EnbOf
    <2> QED
      BY <2>1, HoldingSame
  <1> HIDE DEF s, chg5, chg1
  <1>7. /\ res' \in Ledger
        /\ \A q \in Port, t \in SliceAll :
              res'[q][t] = res[q][t] +
                 (IF t = s \/ t = "ALL" THEN chg5[q] + chg1[q] ELSE 0)
    <2>1. /\ afterS5 \in Ledger
          /\ \A q \in Port, t \in SliceAll :
                afterS5[q][t] = res[q][t] + (IF t = s \/ t = "ALL" THEN chg5[q] ELSE 0)
      BY <1>1, <1>4, ChargeLedger
    <2> HIDE DEF afterS5
    <2>2. /\ res' \in Ledger
          /\ \A q \in Port, t \in SliceAll :
                res'[q][t] = afterS5[q][t] + (IF t = s \/ t = "ALL" THEN chg1[q] ELSE 0)
      BY <1>1, <1>3, <1>4, <2>1, ChargeLedger
    <2>3. \A q \in Port, t \in SliceAll :
             res[q][t] \in Int /\ chg5[q] \in Int /\ chg1[q] \in Int
      BY <1>1, <1>4 DEF Ledger
    <2> QED
      BY <2>1, <2>2, <2>3
  <1>8. Conserved' /\ AllIsSum' /\ res' \in [Port -> [SliceAll -> Nat]]
    <2>1. \A q \in Port : chg5[q] \in Int /\ chg1[q] \in Int
      BY <1>4
    <2>2. \A q \in Port, t \in SliceAll :
              res'[q][t] = res[q][t] +
                (IF t = BearerSlice[b] \/ t = "ALL"
                 THEN (Holding(q)'[b]["S5"] - Holding(q)[b]["S5"])
                      + (Holding(q)'[b]["S1"] - Holding(q)[b]["S1"]) ELSE 0)
      BY <1>5, <1>7, <2>1 DEF s
    <2> QED
      BY <1>1, <1>6, <1>7, <2>2, LedgerStep DEF LedgerInv
  <1>9. TypeOK'
    <2>1. c.path \in [Iface -> Path]
      BY DEF Checked
    <2>2. [i \in Iface |-> needs(i)] \in [Iface -> BOOLEAN]
      BY DEF HasGbrBitRate
    <2>3. [i \in Iface |-> c.path[i] # "LOCAL"] \in [Iface -> BOOLEAN]
      OBVIOUS
    <2>4. /\ st' = [st EXCEPT ![b] = "active"]
          /\ agg' = [agg EXCEPT ![b] = FALSE]
          /\ blocked' = [blocked EXCEPT ![b] = {}]
          /\ gwInst' = [gwInst EXCEPT ![b] = TRUE]
          /\ ifInst' = [ifInst EXCEPT ![b] = [i \in Iface |-> c.path[i] # "LOCAL"]]
          /\ fault' \in Fault
      BY DEF Admit, Fault
    <2> QED
      BY <1>1, <1>3, <1>8, <2>1, <2>2, <2>3, <2>4 DEF TypeOK
  <1>10. HandoverOK' /\ NothingLeftBehind'
    <2>1. HandoverOK'
      BY <1>3 DEF HandoverOK
    <2>2. NothingLeftBehind'
      BY <1>1 DEF LedgerInv, NothingLeftBehind, TypeOK, Admit
    <2> QED
      BY <2>1, <2>2
  <1> QED
    BY <1>8, <1>9, <1>10 DEF LedgerInv

(***************************************************************************)
(* A request without rules of its own.                                       *)
(***************************************************************************)
LEMMA SettleLedger ==
    ASSUME LedgerInv, NEW b \in Bearer, NEW c \in Checked, NEW ag \in BOOLEAN,
           NEW newSt \in {"idle", "active"}, newSt = "active" => ag,
           ~ho.on, st[b] = "idle", Settle(b, c, ag, newSt)
    PROVE  LedgerInv'
  <1>1. TypeOK
    BY DEF LedgerInv
  <1>2. ~gwInst[b] /\ \A i \in Iface : ~gbrRes[b][i]
    BY DEF LedgerInv, NothingLeftBehind
  <1>3. \A q \in Port, d \in Bearer : Holding(q)'[d] = Holding(q)[d]
    <2>1. ASSUME NEW q \in Port, NEW d \in Bearer, d # b
          PROVE  Holding(q)'[d] = Holding(q)[d]
      <3>1. path'[d] = path[d] /\ gbrRes'[d] = gbrRes[d] /\ EnbOf(d)' = EnbOf(d)
        BY <1>1, <2>1 DEF Settle, TypeOK, EnbOf
      <3> QED
        BY <3>1, HoldingSame
    <2>2. ASSUME NEW q \in Port PROVE Holding(q)'[b] = Holding(q)[b]
      BY <1>2 DEF Settle, Holding
    <2> QED
      BY <2>1, <2>2
  <1>4. Conserved' /\ AllIsSum'
    BY <1>1, <1>3, LedgerStutter DEF LedgerInv, Settle
  <1>5. TypeOK'
    BY <1>1 DEF TypeOK, Settle, Checked
  <1>6. HandoverOK' /\ NothingLeftBehind'
    BY <1>1, <1>2 DEF LedgerInv, HandoverOK, NothingLeftBehind, TypeOK, Settle
  <1> QED
    BY <1>4, <1>5, <1>6 DEF LedgerInv

(***************************************************************************)
(* BearerRelease and BearerRemove.                                           *)
(***************************************************************************)
LEMMA ReleaseLedger ==
    ASSUME LedgerInv, NEW b \in Bearer, DedicatedBearerRelease(b)
    PROVE  LedgerInv'
  <1> DEFINE s       == BearerSlice[b]
             e       == ueEnb[BearerUe[b]]
             chg5    == IF gbrRes[b]["S5"] THEN Charge(b, "S5", e, path[b]["S5"])
                                           ELSE NoCharge
             chg1    == IF gbrRes[b]["S1"] THEN Charge(b, "S1", e, path[b]["S1"])
                                           ELSE NoCharge
             afterS5 == SubCharge(res, s, chg5)
  <1>1. s \in Slice /\ res \in Ledger /\ TypeOK
    BY ConstAssumption DEF LedgerInv, TypeOK, Ledger
  <1>2. /\ ~ho.on /\ st[b] = "stopped"
        /\ st' = [st EXCEPT ![b] = "idle"]
        /\ UNCHANGED <<ueEnb, ho, agg, blocked, path, ext>>
    BY DEF DedicatedBearerRelease
  <1>3. CASE agg[b]
    <2>1. ~gwInst[b] /\ \A i \in Iface : ~gbrRes[b][i]
      BY <1>3 DEF LedgerInv, NothingLeftBehind
    <2>2. UNCHANGED <<gbrRes, gwInst, ifInst, res, fault>>
      BY <1>3 DEF DedicatedBearerRelease
    <2>3. \A q \in Port, d \in Bearer : Holding(q)'[d] = Holding(q)[d]
      <3>1. ASSUME NEW d \in Bearer
            PROVE  path'[d] = path[d] /\ gbrRes'[d] = gbrRes[d] /\ EnbOf(d)' = EnbOf(d)
        BY <1>2, <2>2 DEF EnbOf
      <3> QED
        BY <3>1, HoldingSame
    <2>4. Conserved' /\ AllIsSum'
      BY <1>1, <2>2, <2>3, LedgerStutter DEF LedgerInv
    <2>5. TypeOK' /\ HandoverOK' /\ NothingLeftBehind'
      BY <1>1, <1>2, <1>3, <2>1, <2>2
         DEF LedgerInv, TypeOK, HandoverOK, NothingLeftBehind
    <2> QED
      BY <2>4, <2>5 DEF LedgerInv
  <1>4. CASE ~agg[b]
    <2>1. /\ res' = SubCharge(afterS5, s, chg1)
          /\ gbrRes' = [gbrRes EXCEPT ![b] = [i \in Iface |-> FALSE]]
          /\ gwInst' = [gwInst EXCEPT ![b] = FALSE]
          /\ ifInst' = [ifInst EXCEPT ![b] = [i \in Iface |-> FALSE]]
          /\ fault' \in Fault
      BY <1>4 DEF DedicatedBearerRelease, Fault
    <2>2. chg5 \in [Port -> Int] /\ chg1 \in [Port -> Int]
      BY ChargeFcn
    <2>3. ASSUME NEW q \in Port
          PROVE  /\ Holding(q)[b]["S5"] = chg5[q] /\ Holding(q)[b]["S1"] = chg1[q]
                 /\ Holding(q)'[b]["S5"] = 0 /\ Holding(q)'[b]["S1"] = 0
      <3>1. EnbOf(b) = e
        BY <1>2 DEF EnbOf
      <3>2. ~gbrRes'[b]["S5"] /\ ~gbrRes'[b]["S1"]
        BY <1>1, <2>1 DEF TypeOK, Iface
      <3>3. /\ chg5[q] = IF gbrRes[b]["S5"]
                         THEN ChargeOn(q, b, "S5", e, path[b]["S5"]) ELSE 0
            /\ chg1[q] = IF gbrRes[b]["S1"]
                         THEN ChargeOn(q, b, "S1", e, path[b]["S1"]) ELSE 0
        BY ChargeFcn
      <3>4. "S5" \in Iface /\ "S1" \in Iface
        BY DEF Iface
      <3> HIDE DEF chg5, chg1, e
      <3> QED
        BY <3>1, <3>2, <3>3, <3>4, HoldingIs
    <2>4. \A q \in Port, d \in Bearer : d # b => Holding(q)'[d] = Holding(q)[d]
      <3>1. ASSUME NEW d \in Bearer, d # b
            PROVE  path'[d] = path[d] /\ gbrRes'[d] = gbrRes[d] /\ EnbOf(d)' = EnbOf(d)
        BY <1>1, <1>2, <2>1, <3>1 DEF TypeOK, EnbOf
      <3> QED
        BY <3>1, HoldingSame
    <2> HIDE DEF s, chg5, chg1
    <2>5. /\ res' \in Ledger
          /\ \A q \in Port, t \in SliceAll :
                res'[q][t] = res[q][t] -
                   (IF t = s \/ t = "ALL" THEN chg5[q] + chg1[q] ELSE 0)
      <3>1. /\ afterS5 \in Ledger
            /\ \A q \in Port, t \in SliceAll :
                  afterS5[q][t] = res[q][t] - (IF t = s \/ t = "ALL" THEN chg5[q] ELSE 0)
        BY <1>1, <2>2, ChargeLedger
      <3> HIDE DEF afterS5
      <3>2. /\ res' \in Ledger
            /\ \A q \in Port, t \in SliceAll :
                  res'[q][t] = afterS5[q][t] - (IF t = s \/ t = "ALL" THEN chg1[q] ELSE 0)
        BY <1>1, <2>1, <2>2, <3>1, ChargeLedger
      <3>3. \A q \in Port, t \in SliceAll :
               res[q][t] \in Int /\ chg5[q] \in Int /\ chg1[q] \in Int
        BY <1>1, <2>2 DEF Ledger
      <3> QED
        BY <3>1, <3>2, <3>3
    <2>6. Conserved' /\ AllIsSum' /\ res' \in [Port -> [SliceAll -> Nat]]
      <3>1. \A q \in Port, t \in SliceAll :
                /\ chg5[q] \in Int /\ chg1[q] \in Int /\ res[q][t] \in Int
        BY <1>1, <2>2 DEF Ledger
      <3>2. \A q \in Port, t \in SliceAll :
                res'[q][t] = res[q][t] +
                  (IF t = BearerSlice[b] \/ t = "ALL"
                   THEN (Holding(q)'[b]["S5"] - Holding(q)[b]["S5"])
                        + (Holding(q)'[b]["S1"] - Holding(q)[b]["S1"]) ELSE 0)
        BY <2>3, <2>5, <3>1 DEF s
      <3> QED
        BY <1>1, <2>4, <2>5, <3>2, LedgerStep DEF LedgerInv
    <2>7. TypeOK'
      BY <1>1, <1>2, <2>1, <2>6 DEF TypeOK
    <2>8. HandoverOK' /\ NothingLeftBehind'
      BY <1>1, <1>2, <2>1 DEF LedgerInv, TypeOK, HandoverOK, NothingLeftBehind
    <2> QED
      BY <2>6, <2>7, <2>8 DEF LedgerInv
  <1> QED
    BY <1>3, <1>4

(***************************************************************************)
(* One bearer of a handover: S1-U moves to the switch of the target eNB.     *)
(***************************************************************************)
LEMMA UpdateLedger ==
    ASSUME LedgerInv, NEW b \in Bearer, BearerUpdate(b)
    PROVE  LedgerInv'
  <1> DEFINE s       == BearerSlice[b]
             old     == ueEnb[ho.ue]
             moves   == EnbSw[old] # EnbSw[ho.enb]
             newPath == IF moves THEN ShortestPath(b, "S1", ho.enb) ELSE path[b]["S1"]
             frees   == moves /\ gbrRes[b]["S1"]
             freeChg == IF frees THEN Charge(b, "S1", old, path[b]["S1"]) ELSE NoCharge
             freed   == SubCharge(res, s, freeChg)
             takes   == /\ moves /\ HasGbrBitRate(b)
                        /\ WalkBitRateRequest(freed, b, ho.enb, "S1", newPath, {})
             takeChg == IF takes THEN Charge(b, "S1", ho.enb, newPath) ELSE NoCharge
  <1>1. s \in Slice /\ res \in Ledger /\ TypeOK
    BY ConstAssumption DEF LedgerInv, TypeOK, Ledger
  <1>2. /\ ho.on /\ b \in ho.todo /\ BearerUe[b] = ho.ue /\ gwInst[b]
        /\ res' = AddCharge(freed, s, takeChg)
        /\ gbrRes' = [gbrRes EXCEPT ![b]["S1"] = IF moves THEN takes ELSE @]
        /\ path' = [path EXCEPT ![b]["S1"] = newPath]
        /\ ifInst' = [ifInst EXCEPT ![b]["S1"] = newPath # "LOCAL"]
        /\ ho' = [ho EXCEPT !.todo = @ \ {b}]
        /\ fault' \in Fault
        /\ UNCHANGED <<ueEnb, st, agg, blocked, gwInst, ext>>
    BY DEF LedgerInv, HandoverOK, BearerUpdate, Fault
  <1>3. freeChg \in [Port -> Int] /\ takeChg \in [Port -> Int]
    BY ChargeFcn
  <1>4. takes \in BOOLEAN /\ moves \in BOOLEAN /\ newPath \in Path
        /\ gbrRes[b]["S1"] \in BOOLEAN
    BY <1>1, PathTypes DEF HasGbrBitRate, WalkBitRateRequest, ShortestPath, TypeOK, Iface
  <1>5. /\ EnbOf(b) = old /\ EnbOf(b)' = ho.enb
        /\ \A d \in Bearer : d # b => EnbOf(d)' = EnbOf(d)
    BY <1>1, <1>2 DEF EnbOf, TypeOK
  <1>6. /\ path'[b]["S1"] = newPath /\ path'[b]["S5"] = path[b]["S5"]
        /\ gbrRes'[b]["S1"] = (IF moves THEN takes ELSE gbrRes[b]["S1"])
        /\ gbrRes'[b]["S5"] = gbrRes[b]["S5"]
        /\ \A d \in Bearer : d # b => path'[d] = path[d] /\ gbrRes'[d] = gbrRes[d]
    <2> HIDE DEF newPath, takes, moves
    <2> QED
      BY <1>1, <1>2 DEF TypeOK, Iface
  <1>7. \A q \in Port, d \in Bearer : d # b => Holding(q)'[d] = Holding(q)[d]
    BY <1>5, <1>6, HoldingSame
  <1>8. ASSUME NEW q \in Port
        PROVE  /\ Holding(q)'[b]["S5"] = Holding(q)[b]["S5"]
               /\ Holding(q)'[b]["S1"] - Holding(q)[b]["S1"] = takeChg[q] - freeChg[q]
    <2>1. "S5" \in Iface /\ "S1" \in Iface
      BY DEF Iface
    <2>2. /\ Holding(q)[b]["S1"] =
               IF gbrRes[b]["S1"] THEN ChargeOn(q, b, "S1", old, path[b]["S1"]) ELSE 0
          /\ Holding(q)'[b]["S1"] =
               IF gbrRes'[b]["S1"] THEN ChargeOn(q, b, "S1", ho.enb, path'[b]["S1"]) ELSE 0
      BY <1>5, <2>1, HoldingIs
    <2>3. Holding(q)'[b]["S5"] = Holding(q)[b]["S5"]
      <3>1. \A e1, e2 : ChargeOn(q, b, "S5", e1, path[b]["S5"])
                           = ChargeOn(q, b, "S5", e2, path[b]["S5"])
        BY DEF ChargeOn, Links, DstDlSw
      <3> QED
        BY <1>6, <2>1, <3>1, HoldingIs
    <2>4. /\ freeChg[q] = IF frees THEN ChargeOn(q, b, "S1", old, path[b]["S1"]) ELSE 0
          /\ takeChg[q] = IF takes THEN ChargeOn(q, b, "S1", ho.enb, newPath) ELSE 0
      BY ChargeFcn
    <2>5. /\ ChargeOn(q, b, "S1", old, path[b]["S1"]) \in Int
          /\ ChargeOn(q, b, "S1", ho.enb, newPath) \in Int
      BY ChargeType
    <2>6. ~moves => ChargeOn(q, b, "S1", old, path[b]["S1"])
                      = ChargeOn(q, b, "S1", ho.enb, path[b]["S1"])
      BY DEF ChargeOn, Links, DstDlSw
    <2>7. ~moves => newPath = path[b]["S1"] /\ ~takes /\ ~frees
      OBVIOUS
    <2>8. moves => (frees <=> gbrRes[b]["S1"])
      OBVIOUS
    <2> HIDE DEF takeChg, freeChg, newPath, takes, frees, moves, old
    <2> QED
      BY <1>4, <1>6, <2>2, <2>3, <2>4, <2>5, <2>6, <2>7, <2>8
  <1> HIDE DEF s, newPath, takes, freeChg, takeChg
  <1>9. /\ res' \in Ledger
        /\ \A q \in Port, t \in SliceAll :
              res'[q][t] = res[q][t] +
                 (IF t = s \/ t = "ALL" THEN takeChg[q] - freeChg[q] ELSE 0)
    <2>1. /\ freed \in Ledger
          /\ \A q \in Port, t \in SliceAll :
                freed[q][t] = res[q][t] - (IF t = s \/ t = "ALL" THEN freeChg[q] ELSE 0)
      BY <1>1, <1>3, ChargeLedger
    <2> HIDE DEF freed
    <2>2. /\ res' \in Ledger
          /\ \A q \in Port, t \in SliceAll :
                res'[q][t] = freed[q][t] + (IF t = s \/ t = "ALL" THEN takeChg[q] ELSE 0)
      BY <1>1, <1>2, <1>3, <2>1, ChargeLedger
    <2>3. \A q \in Port, t \in SliceAll :
             res[q][t] \in Int /\ freeChg[q] \in Int /\ takeChg[q] \in Int
      BY <1>1, <1>3 DEF Ledger
    <2> QED
      BY <2>1, <2>2, <2>3
  <1>10. Conserved' /\ AllIsSum' /\ res' \in [Port -> [SliceAll -> Nat]]
    <2>1. \A q \in Port, t \in SliceAll :
              /\ freeChg[q] \in Int /\ takeChg[q] \in Int /\ res[q][t] \in Int
              /\ Holding(q)[b]["S5"] \in Int
      BY <1>1, <1>3, HoldingType, ConstAssumption DEF Ledger, Holdings, Iface
    <2>2. \A q \in Port, t \in SliceAll :
              res'[q][t] = res[q][t] +
                (IF t = BearerSlice[b] \/ t = "ALL"
                 THEN (Holding(q)'[b]["S5"] - Holding(q)[b]["S5"])
                      + (Holding(q)'[b]["S1"] - Holding(q)[b]["S1"]) ELSE 0)
      BY <1>8, <1>9, <2>1 DEF s
    <2> QED
      BY <1>1, <1>7, <1>9, <2>2, LedgerStep DEF LedgerInv
  <1>11. TypeOK'
    BY <1>1, <1>2, <1>4, <1>10 DEF TypeOK, Iface
  <1>12. HandoverOK' /\ NothingLeftBehind'
    BY <1>1, <1>2, <1>6 DEF LedgerInv, TypeOK, HandoverOK, NothingLeftBehind, Iface
  <1> QED
    BY <1>10, <1>11, <1>12 DEF LedgerInv

(***************************************************************************)
(* The steps that reserve and release nothing.                               *)
(***************************************************************************)
LEMMA StopLedger ==
    ASSUME LedgerInv, NEW b \in Bearer, NotifyAppStop(b)
    PROVE  LedgerInv'
  <1>1. \A q \in Port, d \in Bearer : Holding(q)'[d] = Holding(q)[d]
    BY HoldingSame DEF NotifyAppStop, EnbOf
  <1>2. Conserved' /\ AllIsSum'
    BY <1>1, LedgerStutter DEF LedgerInv, NotifyAppStop
  <1>3. TypeOK' /\ HandoverOK' /\ NothingLeftBehind'
    BY DEF LedgerInv, TypeOK, HandoverOK, NothingLeftBehind, NotifyAppStop
  <1> QED
    BY <1>2, <1>3 DEF LedgerInv

(***************************************************************************)
(* A handover begins: the bearers with rules wait for their update.          *)
(***************************************************************************)
LEMMA ModifyLedger ==
    ASSUME LedgerInv, NEW u \in Ue, NEW e \in Enb, ModifyBearerRequest(u, e)
    PROVE  LedgerInv'
  <1>1. /\ ~ho.on /\ TypeOK
        /\ ho' = [on |-> TRUE, ue |-> u, enb |-> e,
                  todo |-> {b \in Bearer : BearerUe[b] = u /\ gwInst[b]}]
        /\ UNCHANGED <<ueEnb, st, agg, blocked, path, gbrRes, gwInst, ifInst,
                       res, ext, fault>>
    BY DEF LedgerInv, ModifyBearerRequest, bearerVars
  <1>2. ASSUME NEW q \in Port, NEW d \in Bearer
        PROVE  Holding(q)'[d] = Holding(q)[d]
    <2>1. CASE gwInst[d]
      <3>1. EnbOf(d)' = EnbOf(d)
        BY <1>1, <2>1 DEF EnbOf
      <3> QED
        BY <1>1, <3>1, HoldingSame
    <2>2. CASE ~gwInst[d]
      <3>1. \A i \in Iface : ~gbrRes[d][i]
        BY <2>2 DEF LedgerInv, NothingLeftBehind
      <3> QED
        BY <1>1, <3>1 DEF Holding
    <2> QED
      BY <2>1, <2>2
  <1>3. Conserved' /\ AllIsSum'
    BY <1>1, <1>2, LedgerStutter DEF LedgerInv
  <1>4. TypeOK' /\ HandoverOK' /\ NothingLeftBehind'
    BY <1>1 DEF LedgerInv, TypeOK, HandoverOK, NothingLeftBehind
  <1> QED
    BY <1>3, <1>4 DEF LedgerInv

(***************************************************************************)
(* A handover ends: the UE takes the eNB its bearers already follow.         *)
(***************************************************************************)
LEMMA SetEnbLedger ==
    ASSUME LedgerInv, SetEnbInfo
    PROVE  LedgerInv'
  <1>1. /\ ho.on /\ ho.todo = {} /\ TypeOK
        /\ ueEnb' = [ueEnb EXCEPT ![ho.ue] = ho.enb]
        /\ ho' = NoHandover
        /\ UNCHANGED <<st, agg, blocked, path, gbrRes, gwInst, ifInst,
                       res, ext, fault>>
    BY DEF LedgerInv, SetEnbInfo, bearerVars
  <1>2. NoHandover \in [on : BOOLEAN, ue : Ue, enb : Enb, todo : SUBSET Bearer]
        /\ ~NoHandover.on
    BY ConstAssumption DEF NoHandover
  <1>3. \A d \in Bearer : EnbOf(d)' = EnbOf(d)
    BY <1>1, <1>2, ConstAssumption DEF EnbOf, TypeOK
  <1>4. \A q \in Port, d \in Bearer : Holding(q)'[d] = Holding(q)[d]
    BY <1>1, <1>3, HoldingSame
  <1>5. Conserved' /\ AllIsSum'
    BY <1>1, <1>4, LedgerStutter DEF LedgerInv
  <1>6. TypeOK' /\ HandoverOK' /\ NothingLeftBehind'
    BY <1>1, <1>2 DEF LedgerInv, TypeOK, HandoverOK, NothingLeftBehind
  <1> QED
    BY <1>5, <1>6 DEF LedgerInv

(***************************************************************************)
(* The inter-slice adjustment moves extra bit rates only.                    *)
(***************************************************************************)
LEMMA TimeoutLedger ==
    ASSUME LedgerInv, SlicingDynamicTimeout
    PROVE  LedgerInv'
  <1>1. \A q \in Port, d \in Bearer : Holding(q)'[d] = Holding(q)[d]
    BY HoldingSame DEF SlicingDynamicTimeout, bearerVars, EnbOf
  <1>2. Conserved' /\ AllIsSum'
    BY <1>1, LedgerStutter DEF LedgerInv, SlicingDynamicTimeout, bearerVars
  <1>3. TypeOK' /\ HandoverOK' /\ NothingLeftBehind'
    BY ConstAssumption DEF LedgerInv, TypeOK, HandoverOK, NothingLeftBehind,
       SlicingDynamicTimeout, bearerVars
  <1> QED
    BY <1>2, <1>3 DEF LedgerInv

(***************************************************************************)
(* Every step keeps the accounting exact.                                    *)
(***************************************************************************)
LEMMA LedgerNext == LedgerInv /\ [Next]_vars => LedgerInv'
  <1> SUFFICES ASSUME LedgerInv, [Next]_vars PROVE LedgerInv'
    OBVIOUS
  <1>1. ASSUME NEW b \in Bearer, NEW load \in Loads, DedicatedBearerRequest(b, load)
        PROVE  LedgerInv'
    BY <1>1, RequestOutcome, AdmitLedger, SettleLedger DEF LedgerInv
  <1>2. ASSUME NEW b \in Bearer, NotifyAppStop(b) PROVE LedgerInv'
    BY <1>2, StopLedger
  <1>3. ASSUME NEW b \in Bearer, DedicatedBearerRelease(b) PROVE LedgerInv'
    BY <1>3, ReleaseLedger
  <1>4. ASSUME NEW b \in Bearer, BearerUpdate(b) PROVE LedgerInv'
    BY <1>4, UpdateLedger
  <1>5. ASSUME NEW u \in Ue, NEW e \in Enb, ModifyBearerRequest(u, e) PROVE LedgerInv'
    BY <1>5, ModifyLedger
  <1>6. CASE SetEnbInfo
    BY <1>6, SetEnbLedger
  <1>7. CASE SlicingDynamicTimeout
    BY <1>7, TimeoutLedger
  <1>8. CASE UNCHANGED vars
    <2>1. \A q \in Port, d \in Bearer : Holding(q)'[d] = Holding(q)[d]
      BY <1>8, HoldingSame DEF vars, bearerVars, EnbOf
    <2>2. Conserved' /\ AllIsSum'
      BY <1>8, <2>1, LedgerStutter DEF LedgerInv, vars
    <2>3. TypeOK' /\ HandoverOK' /\ NothingLeftBehind'
      BY <1>8 DEF LedgerInv, TypeOK, HandoverOK, NothingLeftBehind, vars, bearerVars
    <2> QED
      BY <2>2, <2>3 DEF LedgerInv
  <1> QED
    BY <1>1, <1>2, <1>3, <1>4, <1>5, <1>6, <1>7, <1>8 DEF Next

(***************************************************************************)
(* The accounting is exact in every reachable state.                         *)
(***************************************************************************)
LEMMA LedgerInvariant == Spec => []LedgerInv
  BY InitLedger, LedgerNext, PTL DEF Spec

(***************************************************************************)
(* Every state of the admission handlers is well typed; no reserved bit rate *)
(* is negative.                                                              *)
(***************************************************************************)
THEOREM TypeOKHolds == Spec => []TypeOK
  <1>1. LedgerInv => TypeOK
    BY DEF LedgerInv
  <1> QED
    BY <1>1, LedgerInvariant, PTL

(***************************************************************************)
(* On every link direction the reserved bit rate of a slice is the sum of    *)
(* what its bearers hold along their current paths, at every step of requests,*)
(* releases and handovers.                                                   *)
(***************************************************************************)
THEOREM ConservedHolds == Spec => []Conserved
  <1>1. LedgerInv => Conserved
    BY DEF LedgerInv
  <1> QED
    BY <1>1, LedgerInvariant, PTL

(***************************************************************************)
(* The ALL entry of every LinkInfo is the sum of the slices' entries.        *)
(***************************************************************************)
THEOREM AllIsSumHolds == Spec => []AllIsSum
  <1>1. LedgerInv => AllIsSum
    BY DEF LedgerInv
  <1> QED
    BY <1>1, LedgerInvariant, PTL

(***************************************************************************)
(* Idle and aggregated bearers have neither rules nor reservations.          *)
(***************************************************************************)
THEOREM NothingLeftBehindHolds == Spec => []NothingLeftBehind
  <1>1. LedgerInv => NothingLeftBehind
    BY DEF LedgerInv
  <1> QED
    BY <1>1, LedgerInvariant, PTL
------------------------------------------------------------------------------
(***************************************************************************)
(* The shortest path from the P-GW to the S-GW and the one from the S-GW to  *)
(* the eNB never use a link in the same direction.                           *)
(***************************************************************************)
LEMMA ShortPathsOpposite ==
    ASSUME NEW p \in Switch, NEW s \in Switch, NEW e \in Switch, NEW l,
           l \in PathLinks(p, s, GetShortPath(p, s)),
           l \in PathLinks(s, e, GetShortPath(s, e))
    PROVE  LinkDir(GetShortPath(p, s)) # LinkDir(GetShortPath(s, e))
  <1>1. PICK h \in Nat : h = N \div 2 /\ (N = 2 * h \/ N = 2 * h + 1)
    BY NAssumption
  <1>2. /\ GetShortPath(p, s) \in {"CLOCK", "COUNT"}
        /\ GetShortPath(s, e) \in {"CLOCK", "COUNT"}
        /\ l \in Switch
    <2>1. \A a, c : GetShortPath(a, c) \in {"CLOCK", "COUNT", "LOCAL"}
      BY DEF GetShortPath
    <2>2. \A a, c : PathLinks(a, c, "LOCAL") = {}
      BY Zenon DEF PathLinks
    <2>3. \A a, c : /\ PathLinks(a, c, "CLOCK") \subseteq Link
                    /\ PathLinks(a, c, "COUNT") \subseteq Link
      BY Zenon DEF PathLinks
    <2> QED
      BY <2>1, <2>2, <2>3 DEF Link
  <1>3. CASE GetShortPath(p, s) = "CLOCK" /\ GetShortPath(s, e) = "CLOCK"
    <2>1. /\ ClockwiseDistance(p, l) < ClockwiseDistance(p, s)
          /\ ClockwiseDistance(s, l) < ClockwiseDistance(s, e)
      BY <1>3, Zenon DEF PathLinks
    <2>2. ClockwiseDistance(p, s) <= h /\ ClockwiseDistance(s, e) <= h
      BY <1>1, <1>3 DEF GetShortPath
    <2> QED
      BY <1>1, <1>2, <2>1, <2>2, NAssumption, SMT DEF ClockwiseDistance, Switch
  <1>4. CASE GetShortPath(p, s) = "COUNT" /\ GetShortPath(s, e) = "COUNT"
    <2>1. /\ ClockwiseDistance(s, l) < ClockwiseDistance(s, p)
          /\ ClockwiseDistance(e, l) < ClockwiseDistance(e, s)
      BY <1>4, Zenon DEF PathLinks
    <2>2. /\ ~(ClockwiseDistance(p, s) <= h) /\ ~(ClockwiseDistance(s, e) <= h)
          /\ p # s /\ s # e
      BY <1>1, <1>4 DEF GetShortPath
    <2> QED
      BY <1>1, <1>2, <2>1, <2>2, NAssumption, SMT DEF ClockwiseDistance, Switch
  <1> QED
    BY <1>2, <1>3, <1>4 DEF LinkDir

(***************************************************************************)
(* What the bit rate check of an accepted request promises for one interface.*)
(***************************************************************************)
LEMMA WalkPromise ==
    ASSUME NEW b \in Bearer, NEW r, NEW e, NEW i, NEW p, NEW overlap,
           WalkBitRateRequest(r, b, e, i, p, overlap),
           NEW q \in Port, q[1] \in Links(b, i, e, p)
    PROVE  /\ q[1] \notin overlap =>
                r[q][BearerSlice[b]] + Rate(b, q[2], p) <= QuoBitRate[BearerSlice[b]]
           /\ q[1] \in overlap =>
                r[q][BearerSlice[b]] + (GbrDl[b] + GbrUl[b])
                    <= QuoBitRate[BearerSlice[b]]
  <1>1. q = <<q[1], q[2]>> /\ q[2] \in Dir
    BY DEF Port
  <1> QED
    BY <1>1 DEF WalkBitRateRequest, HasBitRate

(***************************************************************************)
(* An interface for which nothing is missing passed the bit rate check.      *)
(***************************************************************************)
LEMMA NothingMissing ==
    ASSUME NEW b, NEW e, NEW i, NEW p, NEW overlap, NEW ag, NEW load,
           Missing(b, e, i, p, overlap, ag, load) = {}
    PROVE  BitRateRequest(b, e, i, p, overlap, ag)
  BY DEF Missing, BackReason

(***************************************************************************)
(* A round of checks that blocks nothing left paths in the metadata that     *)
(* both passed the bit rate check, S1-U with the links of S5 as overlap.     *)
(***************************************************************************)
LEMMA CheckPromise ==
    ASSUME NEW b \in Bearer, NEW ag, NEW load, NEW c,
           c = CheckResources(b, path[b]["S5"], ag, load), c.blocked = {}
    PROVE  /\ BitRateRequest(b, ueEnb[BearerUe[b]], "S5", c.path["S5"], {}, ag)
           /\ BitRateRequest(b, ueEnb[BearerUe[b]], "S1", c.path["S1"],
                  Links(b, "S5", ueEnb[BearerUe[b]], c.path["S5"]), ag)
           /\ Strategy = "SPO" =>
                 /\ c.path["S5"] = path[b]["S5"]
                 /\ c.path["S1"] = ShortestPath(b, "S1", ueEnb[BearerUe[b]])
  <1> DEFINE e     == ueEnb[BearerUe[b]]
             t5    == TriedPath(b, e, "S5", path[b]["S5"], {}, ag, load)
             links == Links(b, "S5", e, t5)
             t1    == TriedPath(b, e, "S1", ShortestPath(b, "S1", e), links, ag, load)
  <1>1. Strategy = "SPO" => t5 = path[b]["S5"] /\ t1 = ShortestPath(b, "S1", e)
    BY DEF TriedPath
  <1> HIDE DEF t5, t1, links, e
  <1> DEFINE g  == GwMissing(ag, load)
             m5 == Missing(b, e, "S5", t5, {}, ag, load)
             m1 == Missing(b, e, "S1", t1, links, ag, load)
  <1>2. c = [path    |-> [i \in Iface |-> IF i = "S5" THEN t5 ELSE t1],
             blocked |-> g \cup m5 \cup m1]
    BY DEF CheckResources, t5, t1, links, e
  <1> HIDE DEF g, m5, m1
  <1>3. c.path["S5"] = t5 /\ c.path["S1"] = t1
    BY <1>2 DEF Iface
  <1>4. m5 = {} /\ m1 = {}
    BY <1>2
  <1>5. /\ BitRateRequest(b, e, "S5", t5, {}, ag)
        /\ BitRateRequest(b, e, "S1", t1, links, ag)
    BY <1>4, NothingMissing, Zenon DEF m5, m1
  <1> QED
    BY <1>1, <1>3, <1>5 DEF links, e

(***************************************************************************)
(* The condition under which the check for overlapping links is enough: the  *)
(* two paths of a bearer never use a link in the same direction, or both      *)
(* directions take the same bit rate.                                        *)
(***************************************************************************)
OverlapsAddUp == Strategy = "SPO" \/ \A b \in Bearer : GbrDl[b] = GbrUl[b]

(***************************************************************************)
(* Under OverlapsAddUp, what the interfaces S5 and S1-U of one bearer take   *)
(* together in one direction of a link they share is the sum that was checked. *)
(***************************************************************************)
LEMMA RatesAddUp ==
    ASSUME TypeOK, S5IsShortest, OverlapsAddUp, NEW b \in Bearer, NEW p5, NEW p1,
           Strategy = "SPO" =>
              p5 = path[b]["S5"] /\ p1 = ShortestPath(b, "S1", ueEnb[BearerUe[b]]),
           NEW q \in Port,
           q[1] \in Links(b, "S5", ueEnb[BearerUe[b]], p5),
           q[1] \in Links(b, "S1", ueEnb[BearerUe[b]], p1)
    PROVE  Rate(b, q[2], p5) + Rate(b, q[2], p1) = GbrDl[b] + GbrUl[b]
  <1> DEFINE e == ueEnb[BearerUe[b]]
  <1>1. GbrDl[b] \in Int /\ GbrUl[b] \in Int
    BY ConstAssumption
  <1>2. CASE \A d \in Bearer : GbrDl[d] = GbrUl[d]
    BY <1>1, <1>2 DEF Rate
  <1>3. CASE Strategy = "SPO"
    <2>1. /\ PgwSw[BearerSlice[b]] \in Switch /\ SgwSw[BearerSlice[b]] \in Switch
          /\ EnbSw[e] \in Switch
      BY ConstAssumption DEF TypeOK
    <2>2. /\ p5 = GetShortPath(PgwSw[BearerSlice[b]], SgwSw[BearerSlice[b]])
          /\ p1 = GetShortPath(SgwSw[BearerSlice[b]], EnbSw[e])
      BY <1>3 DEF S5IsShortest, ShortestPath, SrcDlSw, DstDlSw
    <2>3. /\ q[1] \in PathLinks(PgwSw[BearerSlice[b]], SgwSw[BearerSlice[b]], p5)
          /\ q[1] \in PathLinks(SgwSw[BearerSlice[b]], EnbSw[e], p1)
      BY DEF Links, SrcDlSw, DstDlSw
    <2>4. LinkDir(p5) # LinkDir(p1)
      BY <2>1, <2>2, <2>3, ShortPathsOpposite
    <2>5. q[2] \in {"FWD", "BWD"}
      BY DEF Port, Dir
    <2> QED
      BY <1>1, <2>4, <2>5 DEF Rate, LinkDir
  <1> QED
    BY <1>2, <1>3 DEF OverlapsAddUp

(***************************************************************************)
(* What BearerRequest accepts, BearerReserve can reserve.                    *)
(***************************************************************************)
LEMMA AdmitReserve ==
    ASSUME ReserveInv, OverlapsAddUp, NEW b \in Bearer, NEW load, NEW c \in Checked, NEW ag \in BOOLEAN, ~ag,
           c = CheckResources(b, path[b]["S5"], ag, load), c.blocked = {},
           ~ho.on, st[b] = "idle", Admit(b, c)
    PROVE  S5IsShortest' /\ WithinQuota' /\ NoAssertFails'
  <1> DEFINE s        == BearerSlice[b]
             e        == ueEnb[BearerUe[b]]
             p5       == c.path["S5"]
             p1       == c.path["S1"]
             needs(i) == HasGbrBitRate(b) /\ c.path[i] # "LOCAL"
             chg5     == IF needs("S5") THEN Charge(b, "S5", e, p5) ELSE NoCharge
             chg1     == IF needs("S1") THEN Charge(b, "S1", e, p1) ELSE NoCharge
             afterS5  == AddCharge(res, s, chg5)
  <1>1. /\ s \in Slice /\ s \in SliceAll /\ s # "ALL" /\ res \in Ledger
        /\ TypeOK /\ LedgerInv /\ S5IsShortest
        /\ QuoBitRate[s] \in Int
    BY ConstAssumption DEF ReserveInv, LedgerInv, TypeOK, Ledger, Slice, SliceAll
  <1>2. /\ ~gwInst[b] /\ \A i \in Iface : ~gbrRes[b][i] /\ ~ifInst[b][i]
    BY <1>1 DEF LedgerInv, NothingLeftBehind
  <1>3. /\ BitRateRequest(b, e, "S5", p5, {}, ag)
        /\ BitRateRequest(b, e, "S1", p1, Links(b, "S5", e, p5), ag)
        /\ Strategy = "SPO" => /\ p5 = path[b]["S5"]
                               /\ p1 = ShortestPath(b, "S1", e)
    <2> HIDE DEF e, p5, p1
    <2>1. /\ BitRateRequest(b, ueEnb[BearerUe[b]], "S5", c.path["S5"], {}, ag)
          /\ BitRateRequest(b, ueEnb[BearerUe[b]], "S1", c.path["S1"],
                 Links(b, "S5", ueEnb[BearerUe[b]], c.path["S5"]), ag)
          /\ Strategy = "SPO" =>
                /\ c.path["S5"] = path[b]["S5"]
                /\ c.path["S1"] = ShortestPath(b, "S1", ueEnb[BearerUe[b]])
      BY CheckPromise
    <2> QED
      BY <2>1 DEF e, p5, p1
  <1>4. /\ needs("S5") => WalkBitRateRequest(res, b, e, "S5", p5, {})
        /\ needs("S1") => WalkBitRateRequest(res, b, e, "S1", p1, Links(b, "S5", e, p5))
    BY <1>3, ConstAssumption DEF BitRateRequest
  <1>5. \A q \in Port : /\ res[q][s] \in Int /\ res[q][s] <= QuoBitRate[s]
                        /\ \A p : Rate(b, q[2], p) \in Nat
                        /\ GbrDl[b] \in Nat /\ GbrUl[b] \in Nat
    BY <1>1, ConstAssumption DEF ReserveInv, WithinQuota, Ledger, Rate
  <1>6. /\ chg5 \in [Port -> Int] /\ chg1 \in [Port -> Int]
        /\ \A q \in Port :
             /\ chg5[q] = IF needs("S5") /\ q[1] \in Links(b, "S5", e, p5)
                         THEN Rate(b, q[2], p5) ELSE 0
             /\ chg1[q] = IF needs("S1") /\ q[1] \in Links(b, "S1", e, p1)
                         THEN Rate(b, q[2], p1) ELSE 0
    <2>1. chg5 \in [Port -> Int] /\ chg1 \in [Port -> Int]
      BY ChargeFcn
    <2> HIDE DEF needs, e, p5, p1
    <2>2. ASSUME NEW q \in Port
          PROVE  /\ Charge(b, "S5", e, p5)[q] = ChargeOn(q, b, "S5", e, p5)
                 /\ Charge(b, "S1", e, p1)[q] = ChargeOn(q, b, "S1", e, p1)
                 /\ NoCharge[q] = 0
      BY ChargeFcn
    <2>3. ASSUME NEW q \in Port
          PROVE  chg5[q] = IF needs("S5") /\ q[1] \in Links(b, "S5", e, p5)
                           THEN Rate(b, q[2], p5) ELSE 0
      <3>1. CASE needs("S5")
        BY <2>2, <3>1 DEF ChargeOn
      <3>2. CASE ~needs("S5")
        BY <2>2, <3>2
      <3> QED
        BY <3>1, <3>2
    <2>4. ASSUME NEW q \in Port
          PROVE  chg1[q] = IF needs("S1") /\ q[1] \in Links(b, "S1", e, p1)
                           THEN Rate(b, q[2], p1) ELSE 0
      <3>1. CASE needs("S1")
        BY <2>2, <3>1 DEF ChargeOn
      <3>2. CASE ~needs("S1")
        BY <2>2, <3>2
      <3> QED
        BY <3>1, <3>2
    <2> HIDE DEF chg5, chg1
    <2> QED
      BY <2>1, <2>3, <2>4
  <1> HIDE DEF needs, e, p5, p1, chg5, chg1
  <1>7. ASSUME NEW q \in Port PROVE res[q][s] + chg5[q] <= QuoBitRate[s]
    <2>1. CASE needs("S5") /\ q[1] \in Links(b, "S5", e, p5)
      <3>1. q[1] \notin {} /\ WalkBitRateRequest(res, b, e, "S5", p5, {})
        BY <1>4, <2>1
      <3>2. res[q][s] + Rate(b, q[2], p5) <= QuoBitRate[s]
        BY <2>1, <3>1, WalkPromise
      <3> QED
        BY <1>6, <2>1, <3>2
    <2>2. CASE ~(needs("S5") /\ q[1] \in Links(b, "S5", e, p5))
      BY <1>5, <1>6, <2>2
    <2> QED
      BY <2>1, <2>2
  <1>8. ASSUME NEW q \in Port PROVE res[q][s] + chg5[q] + chg1[q] <= QuoBitRate[s]
    <2>1. CASE ~(needs("S1") /\ q[1] \in Links(b, "S1", e, p1))
      BY <1>1, <1>5, <1>6, <1>7, <2>1
    <2>2. CASE /\ needs("S1") /\ q[1] \in Links(b, "S1", e, p1)
               /\ q[1] \notin Links(b, "S5", e, p5)
      <3>1. res[q][s] + Rate(b, q[2], p1) <= QuoBitRate[s]
        BY <1>4, <2>2, WalkPromise
      <3> QED
        BY <1>5, <1>6, <2>2, <3>1
    <2>3. CASE /\ needs("S1") /\ q[1] \in Links(b, "S1", e, p1)
               /\ q[1] \in Links(b, "S5", e, p5)
      <3>1. res[q][s] + (GbrDl[b] + GbrUl[b]) <= QuoBitRate[s]
        BY <1>4, <2>3, WalkPromise
      <3>2. Rate(b, q[2], p5) + Rate(b, q[2], p1) = GbrDl[b] + GbrUl[b]
        BY <1>1, <1>3, <2>3, RatesAddUp DEF e
      <3>3. /\ chg1[q] = Rate(b, q[2], p1)
            /\ chg5[q] = Rate(b, q[2], p5) \/ chg5[q] = 0
        BY <1>6, <2>3
      <3>4. Rate(b, q[2], p5) \in Nat /\ Rate(b, q[2], p1) \in Nat
            /\ res[q][s] \in Int /\ GbrDl[b] + GbrUl[b] \in Int
        BY <1>5
      <3> QED
        BY <1>1, <3>1, <3>2, <3>3, <3>4
    <2> QED
      BY <2>1, <2>2, <2>3
  <1>9. /\ res' = AddCharge(afterS5, s, chg1)
        /\ path' = [path EXCEPT ![b] = c.path]
        /\ fault' = IF \E i \in Iface : gbrRes[b][i] THEN "Bit rate already reserved."
                    ELSE IF ~(/\ CanAddCharge(res, s, chg5)
                              /\ CanAddCharge(afterS5, s, chg1))
                    THEN "Error when reserving bit rate."
                    ELSE IF gwInst[b] \/ \E i \in Iface : ifInst[b][i]
                    THEN "Rules installed." ELSE "none"
    BY DEF Admit, Iface, needs, e, p5, p1, chg5, chg1
  <1>10. /\ afterS5 \in Ledger
         /\ \A q \in Port, t \in SliceAll :
               afterS5[q][t] = res[q][t] + (IF t = s \/ t = "ALL" THEN chg5[q] ELSE 0)
    BY <1>1, <1>6, ChargeLedger
  <1> HIDE DEF afterS5
  <1>11. \A q \in Port, t \in SliceAll :
            res'[q][t] = afterS5[q][t] + (IF t = s \/ t = "ALL" THEN chg1[q] ELSE 0)
    <2>1. /\ s \in Slice /\ afterS5 \in Ledger /\ chg1 \in [Port -> Int]
          /\ res' = AddCharge(afterS5, s, chg1)
      BY <1>1, <1>6, <1>9, <1>10
    <2> HIDE DEF s
    <2> QED
      BY <2>1, ChargeLedger
  <1>12. CanAddCharge(res, s, chg5) /\ CanAddCharge(afterS5, s, chg1)
    BY <1>1, <1>7, <1>8, <1>10 DEF CanAddCharge
  <1>13. NoAssertFails'
    BY <1>2, <1>9, <1>12 DEF NoAssertFails
  <1>14. WithinQuota'
    <2>1. ASSUME NEW q \in Port, NEW t \in Slice PROVE res'[q][t] <= QuoBitRate[t]
      <3>1. t \in SliceAll /\ t # "ALL" /\ res[q][t] \in Int
        BY <1>1 DEF Slice, SliceAll, Ledger
      <3>2. CASE t = s
        BY <1>1, <1>8, <1>10, <1>11, <3>1, <3>2
      <3>3. CASE t # s
        BY <1>10, <1>11, <3>1, <3>3 DEF ReserveInv, WithinQuota
      <3> QED
        BY <3>2, <3>3
    <2> QED
      BY <2>1 DEF WithinQuota
  <1>15. S5IsShortest'
    BY <1>1, <1>3, <1>9 DEF S5IsShortest, SrcDlSw, TypeOK, p5
  <1> QED
    BY <1>13, <1>14, <1>15
(***************************************************************************)
(* What a bearer holds is part of what is reserved, so it can be released.   *)
(***************************************************************************)
LEMMA HeldIsReserved ==
    ASSUME LedgerInv, NEW b \in Bearer, NEW q \in Port
    PROVE  /\ Holding(q)[b]["S5"] \in Nat /\ Holding(q)[b]["S1"] \in Nat
           /\ res[q][BearerSlice[b]] \in Nat
           /\ Holding(q)[b]["S5"] + Holding(q)[b]["S1"] <= res[q][BearerSlice[b]]
  <1> DEFINE s == BearerSlice[b]
             R == Cardinality(Rest(Holding(q), s, b))
  <1>1. s \in Slice
    BY ConstAssumption
  <1>2. Holding(q) \in Holdings
    BY HoldingType
  <1>3. Holding(q)[b]["S5"] \in Nat /\ Holding(q)[b]["S1"] \in Nat
    BY <1>2, ConstAssumption DEF Holdings, Iface
  <1>4. /\ R \in Nat
        /\ Cardinality(Units(Holding(q), s)) = R + Holding(q)[b]["S5"] + Holding(q)[b]["S1"]
    BY <1>2, UnitsSplit
  <1>5. res[q][s] = Cardinality(Units(Holding(q), s))
    BY <1>1 DEF LedgerInv, Conserved
  <1> HIDE DEF R
  <1> QED
    BY <1>3, <1>4, <1>5

(***************************************************************************)
(* BearerRelease finds on every link what it gives back.                     *)
(***************************************************************************)
LEMMA ReleaseReserve ==
    ASSUME ReserveInv, NEW b \in Bearer, DedicatedBearerRelease(b)
    PROVE  S5IsShortest' /\ WithinQuota' /\ NoAssertFails'
  <1> DEFINE s       == BearerSlice[b]
             e       == ueEnb[BearerUe[b]]
             chg5    == IF gbrRes[b]["S5"] THEN Charge(b, "S5", e, path[b]["S5"])
                                           ELSE NoCharge
             chg1    == IF gbrRes[b]["S1"] THEN Charge(b, "S1", e, path[b]["S1"])
                                           ELSE NoCharge
             afterS5 == SubCharge(res, s, chg5)
  <1>1. /\ s \in Slice /\ res \in Ledger /\ TypeOK /\ LedgerInv
        /\ S5IsShortest /\ WithinQuota /\ NoAssertFails
    BY ConstAssumption DEF ReserveInv, LedgerInv, TypeOK, Ledger
  <1>2. ~ho.on /\ st[b] = "stopped" /\ path' = path
    BY DEF DedicatedBearerRelease
  <1>3. S5IsShortest'
    BY <1>1, <1>2 DEF S5IsShortest, SrcDlSw
  <1>4. CASE agg[b]
    <2>1. res' = res /\ fault' = fault
      BY <1>4 DEF DedicatedBearerRelease
    <2> QED
      BY <1>1, <1>3, <2>1 DEF WithinQuota, NoAssertFails
  <1>5. CASE ~agg[b]
    <2>1. gwInst[b]
      BY <1>1, <1>2, <1>5 DEF LedgerInv, NothingLeftBehind
    <2>2. /\ res' = SubCharge(afterS5, s, chg1)
          /\ fault' = IF CanSubCharge(res, s, chg5) /\ CanSubCharge(afterS5, s, chg1)
                      THEN IF gwInst[b] THEN "none" ELSE "Rules not installed."
                      ELSE "Error when releasing bit rate."
      BY <1>5 DEF DedicatedBearerRelease
    <2>3. chg5 \in [Port -> Int] /\ chg1 \in [Port -> Int]
      BY ChargeFcn
    <2>4. ASSUME NEW q \in Port
          PROVE  /\ chg5[q] \in Nat /\ chg1[q] \in Nat /\ res[q][s] \in Nat
                 /\ chg5[q] + chg1[q] <= res[q][s]
      <3>1. EnbOf(b) = e
        BY <1>2 DEF EnbOf
      <3>2. /\ chg5[q] = IF gbrRes[b]["S5"]
                         THEN ChargeOn(q, b, "S5", e, path[b]["S5"]) ELSE 0
            /\ chg1[q] = IF gbrRes[b]["S1"]
                         THEN ChargeOn(q, b, "S1", e, path[b]["S1"]) ELSE 0
        BY ChargeFcn
      <3>3. "S5" \in Iface /\ "S1" \in Iface
        BY DEF Iface
      <3> HIDE DEF chg5, chg1, e
      <3>4. Holding(q)[b]["S5"] = chg5[q] /\ Holding(q)[b]["S1"] = chg1[q]
        BY <3>1, <3>2, <3>3, HoldingIs
      <3> QED
        BY <1>1, <3>4, HeldIsReserved
    <2> HIDE DEF s, chg5, chg1
    <2>5. /\ afterS5 \in Ledger
          /\ \A q \in Port, t \in SliceAll :
                afterS5[q][t] = res[q][t] - (IF t = s \/ t = "ALL" THEN chg5[q] ELSE 0)
      BY <1>1, <2>3, ChargeLedger
    <2> HIDE DEF afterS5
    <2>6. \A q \in Port, t \in SliceAll :
             res'[q][t] = afterS5[q][t] - (IF t = s \/ t = "ALL" THEN chg1[q] ELSE 0)
      <3>1. /\ s \in Slice /\ afterS5 \in Ledger /\ chg1 \in [Port -> Int]
            /\ res' = SubCharge(afterS5, s, chg1)
        BY <1>1, <2>2, <2>3, <2>5
      <3> QED
        BY <3>1, ChargeLedger
    <2>7. Slice \subseteq SliceAll
      BY DEF SliceAll
    <2>8. CanSubCharge(res, s, chg5) /\ CanSubCharge(afterS5, s, chg1)
      BY <1>1, <2>4, <2>5, <2>7 DEF CanSubCharge
    <2>9. NoAssertFails'
      BY <2>1, <2>2, <2>8 DEF NoAssertFails
    <2>10. WithinQuota'
      <3>1. ASSUME NEW q \in Port, NEW t \in Slice
            PROVE  res'[q][t] <= QuoBitRate[t]
        <4>1. /\ res[q][t] \in Int /\ QuoBitRate[t] \in Int
              /\ res[q][t] <= QuoBitRate[t]
          BY <1>1, <2>7, ConstAssumption DEF Ledger, WithinQuota
        <4>2. t # "ALL"
          BY DEF Slice
        <4> QED
          BY <2>4, <2>5, <2>6, <2>7, <4>1, <4>2
      <3> QED
        BY <3>1 DEF WithinQuota
    <2> QED
      BY <1>3, <2>9, <2>10
  <1> QED
    BY <1>4, <1>5

(***************************************************************************)
(* A handover's RulesUpdate gives back what is reserved and takes only       *)
(* what it has checked.                                                      *)
(***************************************************************************)
LEMMA UpdateReserve ==
    ASSUME ReserveInv, NEW b \in Bearer, BearerUpdate(b)
    PROVE  S5IsShortest' /\ WithinQuota' /\ NoAssertFails'
  <1> DEFINE s       == BearerSlice[b]
             old     == ueEnb[ho.ue]
             moves   == EnbSw[old] # EnbSw[ho.enb]
             newPath == IF moves THEN ShortestPath(b, "S1", ho.enb) ELSE path[b]["S1"]
             frees   == moves /\ gbrRes[b]["S1"]
             freeChg == IF frees THEN Charge(b, "S1", old, path[b]["S1"]) ELSE NoCharge
             freed   == SubCharge(res, s, freeChg)
             takes   == /\ moves /\ HasGbrBitRate(b)
                        /\ WalkBitRateRequest(freed, b, ho.enb, "S1", newPath, {})
             takeChg == IF takes THEN Charge(b, "S1", ho.enb, newPath) ELSE NoCharge
  <1>1. /\ s \in Slice /\ res \in Ledger /\ TypeOK /\ LedgerInv
        /\ S5IsShortest /\ WithinQuota
    BY ConstAssumption DEF ReserveInv, LedgerInv, TypeOK, Ledger
  <1>2. /\ ho.on /\ b \in ho.todo /\ BearerUe[b] = ho.ue
        /\ res' = AddCharge(freed, s, takeChg)
        /\ path' = [path EXCEPT ![b]["S1"] = newPath]
        /\ fault' = IF CanSubCharge(res, s, freeChg)
                    THEN IF CanAddCharge(freed, s, takeChg)
                         THEN "none" ELSE "Error when reserving bit rate."
                    ELSE "Error when releasing bit rate."
    BY DEF ReserveInv, LedgerInv, HandoverOK, BearerUpdate
  <1>3. freeChg \in [Port -> Int] /\ takeChg \in [Port -> Int]
    BY ChargeFcn
  <1>4. EnbOf(b) = old
    BY <1>2 DEF EnbOf
  <1>5. ASSUME NEW q \in Port
        PROVE  freeChg[q] \in Nat /\ res[q][s] \in Nat /\ freeChg[q] <= res[q][s]
    <2>1. Holding(q)[b]["S1"] =
             IF gbrRes[b]["S1"] THEN ChargeOn(q, b, "S1", old, path[b]["S1"]) ELSE 0
      BY <1>4, HoldingIs DEF Iface
    <2>2. freeChg[q] = IF frees THEN ChargeOn(q, b, "S1", old, path[b]["S1"]) ELSE 0
      BY ChargeFcn
    <2>3. frees => gbrRes[b]["S1"]
      OBVIOUS
    <2> HIDE DEF freeChg, frees, old
    <2>4. freeChg[q] = 0 \/ freeChg[q] = Holding(q)[b]["S1"]
      BY <2>1, <2>2, <2>3
    <2> QED
      BY <1>1, <2>4, HeldIsReserved
  <1>6. ASSUME NEW q \in Port
        PROVE  /\ takeChg[q] \in Nat
               /\ takeChg[q] = 0
                  \/ freed[q][s] + takeChg[q] <= QuoBitRate[s]
    <2>1. takeChg[q] = IF takes THEN ChargeOn(q, b, "S1", ho.enb, newPath) ELSE 0
      BY ChargeFcn
    <2>2. ChargeOn(q, b, "S1", ho.enb, newPath) \in Nat
      BY ChargeType, ConstAssumption
    <2>3. takes => WalkBitRateRequest(freed, b, ho.enb, "S1", newPath, {})
      OBVIOUS
    <2> HIDE DEF takeChg, takes, newPath, freed
    <2>4. CASE takes /\ q[1] \in Links(b, "S1", ho.enb, newPath)
      <3>1. takeChg[q] = Rate(b, q[2], newPath)
        BY <2>1, <2>4 DEF ChargeOn
      <3>2. freed[q][s] + Rate(b, q[2], newPath) <= QuoBitRate[s]
        BY <2>3, <2>4, WalkPromise
      <3> QED
        BY <2>1, <2>2, <3>1, <3>2
    <2>5. CASE ~(takes /\ q[1] \in Links(b, "S1", ho.enb, newPath))
      BY <2>1, <2>5 DEF ChargeOn
    <2> QED
      BY <2>4, <2>5
  <1> HIDE DEF s, newPath, takes, freeChg, takeChg
  <1>7. /\ freed \in Ledger
        /\ \A q \in Port, t \in SliceAll :
              freed[q][t] = res[q][t] - (IF t = s \/ t = "ALL" THEN freeChg[q] ELSE 0)
    BY <1>1, <1>3, ChargeLedger
  <1> HIDE DEF freed
  <1>8. \A q \in Port, t \in SliceAll :
           res'[q][t] = freed[q][t] + (IF t = s \/ t = "ALL" THEN takeChg[q] ELSE 0)
    <2>1. /\ s \in Slice /\ freed \in Ledger /\ takeChg \in [Port -> Int]
          /\ res' = AddCharge(freed, s, takeChg)
      BY <1>1, <1>2, <1>3, <1>7
    <2> QED
      BY <2>1, ChargeLedger
  <1>9. Slice \subseteq SliceAll /\ "ALL" \notin Slice
    BY DEF SliceAll, Slice
  <1>10. \A q \in Port, t \in Slice :
            /\ res[q][t] \in Int /\ QuoBitRate[t] \in Int
            /\ res[q][t] <= QuoBitRate[t]
    BY <1>1, <1>9, ConstAssumption DEF Ledger, WithinQuota
  <1>11. ASSUME NEW q \in Port PROVE freed[q][s] + takeChg[q] <= QuoBitRate[s]
    BY <1>1, <1>5, <1>6, <1>7, <1>9, <1>10
  <1>12. CanSubCharge(res, s, freeChg) /\ CanAddCharge(freed, s, takeChg)
    BY <1>5, <1>11 DEF CanSubCharge, CanAddCharge
  <1>13. NoAssertFails'
    BY <1>2, <1>12 DEF NoAssertFails
  <1>14. WithinQuota'
    <2>1. ASSUME NEW q \in Port, NEW t \in Slice PROVE res'[q][t] <= QuoBitRate[t]
      <3>1. CASE t = s
        BY <1>8, <1>9, <1>11, <3>1
      <3>2. CASE t # s
        <4>1. res'[q][t] = freed[q][t] + 0 /\ freed[q][t] = res[q][t] - 0
          BY <1>7, <1>8, <1>9, <3>2
        <4> QED
          BY <1>10, <4>1
      <3> QED
        BY <3>1, <3>2
    <2> QED
      BY <2>1 DEF WithinQuota
  <1>15. S5IsShortest'
    <2>1. /\ path \in [Bearer -> [Iface -> Path]]
          /\ path' = [path EXCEPT ![b]["S1"] = newPath]
      BY <1>1, <1>2 DEF TypeOK
    <2>2. \A d \in Bearer : path'[d]["S5"] = path[d]["S5"]
      BY <2>1 DEF Iface
    <2> QED
      BY <1>1, <2>2 DEF S5IsShortest, SrcDlSw
  <1> QED
    BY <1>13, <1>14, <1>15

(***************************************************************************)
(* The steps that reserve and release nothing keep what admission relies on. *)
(***************************************************************************)
LEMMA QuietReserve ==
    ASSUME ReserveInv, res' = res, fault' = fault,
           \A d \in Bearer : path'[d]["S5"] = path[d]["S5"]
    PROVE  S5IsShortest' /\ WithinQuota' /\ NoAssertFails'
  BY DEF ReserveInv, S5IsShortest, WithinQuota, NoAssertFails, SrcDlSw

(***************************************************************************)
(* A request without rules of its own leaves the S5 path under SPO.          *)
(***************************************************************************)
LEMMA SettleReserve ==
    ASSUME ReserveInv, NEW b \in Bearer, NEW c \in Checked,
           Strategy = "SPO" => c.path["S5"] = path[b]["S5"],
           res' = res, fault' = fault, path' = [path EXCEPT ![b] = c.path]
    PROVE  S5IsShortest' /\ WithinQuota' /\ NoAssertFails'
  <1>1. TypeOK
    BY DEF ReserveInv, LedgerInv
  <1>2. \A d \in Bearer : Strategy = "SPO" => path'[d]["S5"] = path[d]["S5"]
    BY <1>1 DEF TypeOK
  <1> QED
    BY <1>2 DEF ReserveInv, S5IsShortest, WithinQuota, NoAssertFails, SrcDlSw

(***************************************************************************)
(* The state after the attachment meets everything admission relies on.      *)
(***************************************************************************)
LEMMA InitReserve == Init => ReserveInv
  <1> SUFFICES ASSUME Init PROVE ReserveInv
    OBVIOUS
  <1>1. LedgerInv /\ NoAssertFails
    BY InitLedger DEF Init, NoAssertFails
  <1>2. S5IsShortest
    BY DEF Init, S5IsShortest, ShortestPath, SrcDlSw, DstDlSw, Iface
  <1>3. WithinQuota
    BY ConstAssumption DEF Init, WithinQuota, SliceAll
  <1> QED
    BY <1>1, <1>2, <1>3 DEF ReserveInv

(***************************************************************************)
(* Every step keeps it, and so no assertion of a reservation fails.          *)
(***************************************************************************)
LEMMA ReserveNext ==
    ASSUME ReserveInv, OverlapsAddUp, [Next]_vars
    PROVE  ReserveInv'
  <1>1. LedgerInv'
    BY LedgerNext DEF ReserveInv
  <1>2. ASSUME NEW b \in Bearer, NEW load \in Loads, DedicatedBearerRequest(b, load)
        PROVE  S5IsShortest' /\ WithinQuota' /\ NoAssertFails'
    <2>1. TypeOK /\ LedgerInv
      BY DEF ReserveInv, LedgerInv
    <2>2. /\ ~ho.on /\ st[b] = "idle"
          /\ \/ \E c \in Checked, ag \in BOOLEAN :
                    /\ c = CheckResources(b, path[b]["S5"], ag, load)
                    /\ ~ag
                    /\ c.blocked = {}
                    /\ Admit(b, c)
             \/ \E c \in Checked, ag \in BOOLEAN, newSt \in {"idle", "active"} :
                    /\ Strategy = "SPO" => c.path["S5"] = path[b]["S5"]
                    /\ newSt = "active" => ag
                    /\ Settle(b, c, ag, newSt)
      BY <1>2, <2>1, RequestOutcome
    <2>3. ASSUME NEW c \in Checked, NEW ag \in BOOLEAN, ~ag,
                 c = CheckResources(b, path[b]["S5"], ag, load),
                 c.blocked = {}, Admit(b, c)
          PROVE  S5IsShortest' /\ WithinQuota' /\ NoAssertFails'
      BY <2>2, <2>3, AdmitReserve
    <2>4. ASSUME NEW c \in Checked, NEW ag \in BOOLEAN, NEW newSt \in {"idle", "active"},
                 Strategy = "SPO" => c.path["S5"] = path[b]["S5"],
                 Settle(b, c, ag, newSt)
          PROVE  S5IsShortest' /\ WithinQuota' /\ NoAssertFails'
      BY <2>4, SettleReserve DEF Settle
    <2> QED
      BY <2>2, <2>3, <2>4
  <1>3. ASSUME NEW b \in Bearer, NotifyAppStop(b)
        PROVE  S5IsShortest' /\ WithinQuota' /\ NoAssertFails'
    BY <1>3, QuietReserve DEF NotifyAppStop
  <1>4. ASSUME NEW b \in Bearer, DedicatedBearerRelease(b)
        PROVE  S5IsShortest' /\ WithinQuota' /\ NoAssertFails'
    BY <1>4, ReleaseReserve
  <1>5. ASSUME NEW b \in Bearer, BearerUpdate(b)
        PROVE  S5IsShortest' /\ WithinQuota' /\ NoAssertFails'
    BY <1>5, UpdateReserve
  <1>6. ASSUME res' = res /\ fault' = fault /\ path' = path
        PROVE  S5IsShortest' /\ WithinQuota' /\ NoAssertFails'
    BY <1>6, QuietReserve
  <1>7. ASSUME NEW u \in Ue, NEW e \in Enb, ModifyBearerRequest(u, e)
        PROVE  S5IsShortest' /\ WithinQuota' /\ NoAssertFails'
    <2>1. res' = res /\ fault' = fault /\ path' = path
      BY <1>7 DEF ModifyBearerRequest, bearerVars
    <2> QED
      BY <1>6, <2>1
  <1>8. ASSUME SetEnbInfo
        PROVE  S5IsShortest' /\ WithinQuota' /\ NoAssertFails'
    <2>1. res' = res /\ fault' = fault /\ path' = path
      BY <1>8 DEF SetEnbInfo, bearerVars
    <2> QED
      BY <1>6, <2>1
  <1>9. ASSUME SlicingDynamicTimeout
        PROVE  S5IsShortest' /\ WithinQuota' /\ NoAssertFails'
    <2>1. res' = res /\ fault' = fault /\ path' = path
      BY <1>9 DEF SlicingDynamicTimeout, bearerVars
    <2> QED
      BY <1>6, <2>1
  <1>10. ASSUME UNCHANGED vars
         PROVE  S5IsShortest' /\ WithinQuota' /\ NoAssertFails'
    <2>1. res' = res /\ fault' = fault /\ path' = path
      BY <1>10 DEF vars, bearerVars
    <2> QED
      BY <1>6, <2>1
  <1> QED
    BY <1>1, <1>2, <1>3, <1>4, <1>5, <1>7, <1>8, <1>9, <1>10 DEF Next, ReserveInv

(***************************************************************************)
(* With SPO routing, or when every bearer asks the same bit rate of both     *)
(* directions, no NS_ASSERT of the reservations fails: an accepted request   *)
(* fits, and each release finds what it gives back.                          *)
(***************************************************************************)
THEOREM NoAssertFailsHolds ==
    ASSUME OverlapsAddUp
    PROVE  Spec => []NoAssertFails
  <1>1. ReserveInv /\ [Next]_vars => ReserveInv'
    BY ReserveNext
  <1>2. ReserveInv => NoAssertFails
    BY DEF ReserveInv
  <1> QED
    BY <1>1, <1>2, InitReserve, PTL DEF Spec
==============================================================================
