--------------------------- MODULE RingController ----------------------------
(***************************************************************************)
(* Admission of dedicated EPS bearers over the backhaul ring: what           *)
(* SliceController::DedicatedBearerRequest, DedicatedBearerRelease and       *)
(* DoModifyBearerRequest (X2 handover) do together with the RingController   *)
(* they call and the LinkInfo counters both share.                           *)
(*                                                                           *)
(* Every handler runs to its end within one simulator event, so each is one  *)
(* action; the handover handler, whose loop updates the bearers of the UE    *)
(* one after the other, is a sequence of actions that nothing interleaves.   *)
(* A failed NS_ASSERT stops the program: the model records which one in      *)
(* fault and takes no further step (what the failing step leaves in the      *)
(* other variables is then irrelevant).                                      *)
(*                                                                           *)
(* Init is the state after every UE has attached: its dedicated bearers have *)
(* their routing metadata (NotifyBearerCreated) and no application runs.     *)
(* OpenFlow rules are reduced to the flags RoutingInfo keeps about them.     *)
(* The meters that every reserved hop adjusts are InterSlice's: admission     *)
(* never reads them.                                                         *)
(***************************************************************************)
EXTENDS RingPaths, FiniteSets

CONSTANTS
    Strategy,         \* "SPO" or "SPF"               (attribute Routing)
    Aggregation,      \* [Slice -> {"OFF","ON","AUTO"}]
    AggBitRateCheck,  \* check the bit rate of aggregated bearers too
    SwBlockPolicy,    \* block on overloaded switch CPUs
    QuoBitRate,       \* [Slice -> Nat]: a link's bit rate for the slice
    GbrBlockThs,      \* [Slice -> 0..100]: block threshold, in percent
    Ue, Enb,
    EnbSw,            \* [Enb -> Switch]              (RingNetwork::GetEnbSwIdx)
    PgwSw, SgwSw,     \* [Slice -> Switch]
    Bearer,           \* dedicated bearers, named by TEID
    BearerUe,         \* [Bearer -> Ue]
    BearerSlice,      \* [Bearer -> Slice]
    GbrBearer,        \* bearers whose QCI is a GBR one
    GbrDl, GbrUl,     \* [Bearer -> 0..MaxBitRate]
    MaxBitRate,
    Loads,            \* loads the switches and gateways may report
    ExtProfiles       \* extra bit rates the inter-slice adjustment may set

Slice    == {"HTC", "MTC", "TMP"}
SliceAll == Slice \cup {"ALL"}
Iface    == {"S5", "S1"}
Port     == Link \X Dir                 \* one direction of one link

BackReason == {"BACKBAND", "BACKLOAD", "BACKTABLE"}
GwReason   == {"PGWTABLE", "PGWLOAD", "SGWTABLE", "SGWLOAD"}
Load       == [cpu : SUBSET Switch, tab : SUBSET Switch, gw : SUBSET GwReason]

Fault      == {"none", "Bit rate already reserved.", "Rules installed.",
               "Rules not installed.", "Error when reserving bit rate.",
               "Error when releasing bit rate."}

HasGbrBitRate(b) == GbrDl[b] # 0 \/ GbrUl[b] # 0

ASSUME ConstAssumption ==
    /\ Strategy \in {"SPO", "SPF"}
    /\ Aggregation \in [Slice -> {"OFF", "ON", "AUTO"}]
    /\ AggBitRateCheck \in BOOLEAN /\ SwBlockPolicy \in BOOLEAN
    /\ QuoBitRate \in [Slice -> Nat]
    /\ GbrBlockThs \in [Slice -> 0 .. 100]
    /\ Bearer \subseteq Nat /\ IsFiniteSet(Bearer)
    /\ Ue # {} /\ Enb # {}
    /\ EnbSw \in [Enb -> Switch]
    /\ PgwSw \in [Slice -> Switch] /\ SgwSw \in [Slice -> Switch]
    /\ BearerUe \in [Bearer -> Ue]
    /\ BearerSlice \in [Bearer -> Slice]
    /\ MaxBitRate \in Nat
    /\ GbrDl \in [Bearer -> 0 .. MaxBitRate]
    /\ GbrUl \in [Bearer -> 0 .. MaxBitRate]
    /\ GbrBearer \subseteq Bearer
    /\ \A b \in Bearer : HasGbrBitRate(b) => b \in GbrBearer
    /\ Loads \subseteq Load
    /\ ExtProfiles \subseteq [Port -> [Slice -> Nat]]

VARIABLES
    ueEnb,    \* [Ue -> Enb]: serving eNB (UeInfo)
    ho,       \* the handover the handler is in the middle of
    st,       \* [Bearer -> {"idle","active","stopped"}]: stopped = application
              \* gone, release scheduled (m_isActive and TrafficManager)
    agg,      \* m_isAggregated
    blocked,  \* m_blockReason, as a set
    path,     \* [Bearer -> [Iface -> Path]]: m_downPath of RingInfo
    gbrRes,   \* [Bearer -> [Iface -> BOOLEAN]]: m_isGbrRes
    gwInst,   \* m_isGwInst
    ifInst,   \* [Bearer -> [Iface -> BOOLEAN]]: m_isIfInst
    res,      \* [Port -> [SliceAll -> Nat]]: reserved bit rate of LinkInfo
    ext,      \* [Port -> [Slice -> Nat]]: extra bit rate of LinkInfo
    fault     \* the NS_ASSERT that failed, if any

Running == fault = "none"

bearerVars == <<st, agg, blocked, path, gbrRes, gwInst, ifInst>>
vars == <<ueEnb, ho, bearerVars, res, ext, fault>>
------------------------------------------------------------------------------
(* Where a bearer runs.  EnbOf is the eNB whose path the bearer's S1-U rules  *)
(* and reservation follow: during a handover, the target for the bearers that *)
(* the loop has already updated.                                              *)

NoHandover == [on |-> FALSE, ue |-> CHOOSE u \in Ue : TRUE,
               enb |-> CHOOSE e \in Enb : TRUE, todo |-> {}]

EnbOf(b) == IF ho.on /\ ho.ue = BearerUe[b] /\ b \notin ho.todo
            THEN ho.enb ELSE ueEnb[BearerUe[b]]

SrcDlSw(b, i)    == IF i = "S5" THEN PgwSw[BearerSlice[b]] ELSE SgwSw[BearerSlice[b]]
DstDlSw(b, i, e) == IF i = "S5" THEN SgwSw[BearerSlice[b]] ELSE EnbSw[e]

ShortestPath(b, i, e) == GetShortPath(SrcDlSw(b, i), DstDlSw(b, i, e))
Links(b, i, e, p)     == PathLinks(SrcDlSw(b, i), DstDlSw(b, i, e), p)
Switches(b, i, e, p)  == PathSwitches(SrcDlSw(b, i), DstDlSw(b, i, e), p)

(* The rate a bearer routed along p takes in direction d of a link, and what  *)
(* its interface i charges to every port.                                     *)
Rate(b, d, p) == IF d = LinkDir(p) THEN GbrDl[b] ELSE GbrUl[b]

ChargeOn(q, b, i, e, p) ==
    IF q[1] \in Links(b, i, e, p) THEN Rate(b, q[2], p) ELSE 0
Charge(b, i, e, p) == [q \in Port |-> ChargeOn(q, b, i, e, p)]
NoCharge == [q \in Port |-> 0]
------------------------------------------------------------------------------
(* LinkInfo *)

BlkBitRate(q, s) == ((QuoBitRate[s] + ext[q][s]) * GbrBlockThs[s]) \div 100

HasBitRate(r, q, s, rate) == /\ r[q][s] + rate <= BlkBitRate(q, s)
                             /\ r[q][s] + rate <= QuoBitRate[s]

(* Mutants: the slice or the ALL entry is forgotten; the directions of what is *)
(* released are swapped.                                                      *)
SubChargeSwapped(r, s, c) ==
    [q \in Port |-> LET d == IF q[2] = "FWD" THEN "BWD" ELSE "FWD"
                    IN [r[q] EXCEPT ![s] = @ - c[<<q[1], d>>],
                                    !["ALL"] = @ - c[<<q[1], d>>]]]
AddChargeSliceOnly(r, s, c) == [q \in Port |-> [r[q] EXCEPT ![s] = @ + c[q]]]
SubChargeAllOnly(r, s, c)   == [q \in Port |-> [r[q] EXCEPT !["ALL"] = @ - c[q]]]

(* UpdateResBitRate on every port of a walk, of the slice and of ALL.         *)
AddCharge(r, s, c) ==
    [q \in Port |-> [r[q] EXCEPT ![s] = @ + c[q], !["ALL"] = @ + c[q]]]
SubCharge(r, s, c) ==
    [q \in Port |-> [r[q] EXCEPT ![s] = @ - c[q], !["ALL"] = @ - c[q]]]
CanAddCharge(r, s, c) == \A q \in Port : r[q][s] + c[q] <= QuoBitRate[s]
CanSubCharge(r, s, c) == \A q \in Port : r[q][s] - c[q] >= 0
------------------------------------------------------------------------------
(* RingController *)

(* Mutant: overlapping links are checked as any other. *)
WalkBitRateRequestNoOverlap(r, b, e, i, p, overlap) ==
    \A l \in Links(b, i, e, p), d \in Dir :
        HasBitRate(r, <<l, d>>, BearerSlice[b], Rate(b, d, p))

(* The walk of BitRateRequest: a link that the S5 path of the same bearer     *)
(* also uses must have the sum of both rates in both directions.              *)
WalkBitRateRequest(r, b, e, i, p, overlap) ==
    LET s == BearerSlice[b]
    IN \A l \in Links(b, i, e, p) :
          IF l \in overlap
          THEN \A d \in Dir : HasBitRate(r, <<l, d>>, s, GbrDl[b] + GbrUl[b])
          ELSE \A d \in Dir : HasBitRate(r, <<l, d>>, s, Rate(b, d, p))

BitRateRequest(b, e, i, p, overlap, ag) ==
    \/ b \notin GbrBearer
    \/ p = "LOCAL"
    \/ ag /\ ~AggBitRateCheck
    \/ WalkBitRateRequest(res, b, e, i, p, overlap)

SwitchCpuRequest(b, e, i, p, cpu) ==
    SwBlockPolicy => Switches(b, i, e, p) \cap cpu = {}

SwitchTableRequest(b, e, i, p, ag, tab) ==
    ~ag => Switches(b, i, e, p) \cap tab = {}

(* What HasAvailableResources finds missing on path p. *)
Missing(b, e, i, p, overlap, ag, load) ==
    {x \in BackReason :
        \/ x = "BACKBAND"  /\ ~BitRateRequest(b, e, i, p, overlap, ag)
        \/ x = "BACKLOAD"  /\ ~SwitchCpuRequest(b, e, i, p, load.cpu)
        \/ x = "BACKTABLE" /\ ~SwitchTableRequest(b, e, i, p, ag, load.tab)}

(* The path HasAvailableResources leaves in the bearer's metadata. *)
TriedPath(b, e, i, p, overlap, ag, load) ==
    IF Missing(b, e, i, p, overlap, ag, load) # {} /\ Strategy = "SPF"
    THEN InvertPath(p) ELSE p

(* PgwBearerRequest and SgwBearerRequest: tables only matter to a bearer that *)
(* gets rules of its own.                                                     *)
GwMissing(ag, load) ==
    IF ag THEN load.gw \ {"PGWTABLE", "SGWTABLE"} ELSE load.gw

(* One round of checks: PgwBearerRequest, SgwBearerRequest and BearerRequest, *)
(* which restarts S1-U at its shortest path and S5 at the path it has.        *)
CheckResources(b, p5, ag, load) ==
    LET e     == ueEnb[BearerUe[b]]
        t5    == TriedPath(b, e, "S5", p5, {}, ag, load)
        links == Links(b, "S5", e, t5)
        t1    == TriedPath(b, e, "S1", ShortestPath(b, "S1", e), links, ag, load)
    IN [path    |-> [i \in Iface |-> IF i = "S5" THEN t5 ELSE t1],
        blocked |-> GwMissing(ag, load)
                    \cup Missing(b, e, "S5", t5, {}, ag, load)
                    \cup Missing(b, e, "S1", t1, links, ag, load)]
------------------------------------------------------------------------------
(* BearerReserve, BearerInstall and the SetActive of the traffic manager. *)
Admit(b, c) ==
    LET s       == BearerSlice[b]
        e       == ueEnb[BearerUe[b]]
        needs   == [i \in Iface |-> HasGbrBitRate(b) /\ c.path[i] # "LOCAL"]
        chg(i)  == IF needs[i] THEN Charge(b, i, e, c.path[i]) ELSE NoCharge
        afterS5 == AddCharge(res, s, chg("S5"))
    IN /\ res'     = AddCharge(afterS5, s, chg("S1"))
       /\ path'    = [path EXCEPT ![b] = c.path]
       /\ gbrRes'  = [gbrRes EXCEPT ![b] = needs]
       /\ gwInst'  = [gwInst EXCEPT ![b] = TRUE]
       /\ ifInst'  = [ifInst EXCEPT ![b] = [i \in Iface |-> c.path[i] # "LOCAL"]]
       /\ st'      = [st EXCEPT ![b] = "active"]
       /\ agg'     = [agg EXCEPT ![b] = FALSE]
       /\ blocked' = [blocked EXCEPT ![b] = {}]
       /\ fault'   =
            IF \E i \in Iface : gbrRes[b][i] THEN "Bit rate already reserved."
            ELSE IF ~(/\ CanAddCharge(res, s, chg("S5"))
                      /\ CanAddCharge(afterS5, s, chg("S1")))
            THEN "Error when reserving bit rate."
            ELSE IF gwInst[b] \/ \E i \in Iface : ifInst[b][i]
            THEN "Rules installed." ELSE "none"
       /\ UNCHANGED <<ueEnb, ho, ext>>

(* A request that ends without rules of its own: aggregated into the default  *)
(* bearer, or blocked.                                                        *)
Settle(b, c, ag, newSt) ==
    /\ path'    = [path EXCEPT ![b] = c.path]
    /\ st'      = [st EXCEPT ![b] = newSt]
    /\ agg'     = [agg EXCEPT ![b] = ag]
    /\ blocked' = [blocked EXCEPT ![b] = c.blocked]
    /\ UNCHANGED <<ueEnb, ho, gbrRes, gwInst, ifInst, res, ext, fault>>

DedicatedBearerRequest(b, load) ==
    LET on     == Aggregation[BearerSlice[b]] = "ON"
        auto   == Aggregation[BearerSlice[b]] = "AUTO"
        first  == CheckResources(b, path[b]["S5"], on, load)
        second == CheckResources(b, first.path["S5"], TRUE, load)
    IN /\ Running /\ ~ho.on /\ st[b] = "idle"
       /\ \/ first.blocked = {} /\ ~on /\ Admit(b, first)
          \/ first.blocked = {} /\ on /\ Settle(b, first, TRUE, "active")
          \/ first.blocked # {} /\ auto /\ second.blocked = {}
             /\ Settle(b, second, TRUE, "active")
          \/ first.blocked # {} /\ auto /\ second.blocked # {}
             /\ Settle(b, second, TRUE, "idle")
          \/ first.blocked # {} /\ ~auto /\ Settle(b, first, on, "idle")

(* TrafficManager::NotifyAppStop: the bearer is inactive and its release is   *)
(* scheduled.                                                                 *)
NotifyAppStop(b) ==
    /\ Running /\ ~ho.on /\ st[b] = "active"
    /\ st' = [st EXCEPT ![b] = "stopped"]
    /\ UNCHANGED <<ueEnb, ho, agg, blocked, path, gbrRes, gwInst, ifInst,
                   res, ext, fault>>

(* BearerRelease and BearerRemove; nothing to do for an aggregated bearer. *)
DedicatedBearerRelease(b) ==
    LET s       == BearerSlice[b]
        e       == ueEnb[BearerUe[b]]
        chg(i)  == IF gbrRes[b][i] THEN Charge(b, i, e, path[b][i]) ELSE NoCharge
        afterS5 == SubCharge(res, s, chg("S5"))
    IN /\ Running /\ ~ho.on /\ st[b] = "stopped"
       /\ st' = [st EXCEPT ![b] = "idle"]
       /\ \/ /\ agg[b]
             /\ UNCHANGED <<gbrRes, gwInst, ifInst, res, fault>>
          \/ /\ ~agg[b]
             /\ res'    = SubCharge(afterS5, s, chg("S1"))
             /\ gbrRes' = [gbrRes EXCEPT ![b] = [i \in Iface |-> FALSE]]
             /\ gwInst' = [gwInst EXCEPT ![b] = FALSE]
             /\ ifInst' = [ifInst EXCEPT ![b] = [i \in Iface |-> FALSE]]
             /\ fault'  = IF /\ CanSubCharge(res, s, chg("S5"))
                             /\ CanSubCharge(afterS5, s, chg("S1"))
                          THEN IF gwInst[b] THEN "none" ELSE "Rules not installed."
                          ELSE "Error when releasing bit rate."
       /\ UNCHANGED <<ueEnb, ho, agg, blocked, path, ext>>
------------------------------------------------------------------------------
(* X2 handover: DoModifyBearerRequest.  The UE changes its cell; the bearers  *)
(* with rules are updated in TEID order, then the UE's eNB.                   *)

(* Mutant: bearers without rules are updated too. *)
ModifyBearerRequestAll(u, e) ==
    /\ Running /\ ~ho.on /\ ueEnb[u] # e
    /\ ho' = [on |-> TRUE, ue |-> u, enb |-> e,
              todo |-> {b \in Bearer : BearerUe[b] = u}]
    /\ UNCHANGED <<ueEnb, bearerVars, res, ext, fault>>

ModifyBearerRequest(u, e) ==
    /\ Running /\ ~ho.on /\ ueEnb[u] # e
    /\ ho' = [on |-> TRUE, ue |-> u, enb |-> e,
              todo |-> {b \in Bearer : BearerUe[b] = u /\ gwInst[b]}]
    /\ UNCHANGED <<ueEnb, bearerVars, res, ext, fault>>

(* RulesUpdate for one bearer of the handover: rules move to the new path     *)
(* and, when the switch changes, the S1-U bit rate is released from the old   *)
(* shortest path and reserved on the new one if there is enough of it.        *)
BearerUpdate(b) ==
    LET s       == BearerSlice[b]
        old     == ueEnb[ho.ue]
        moves   == EnbSw[old] # EnbSw[ho.enb]
        newPath == IF moves THEN ShortestPath(b, "S1", ho.enb) ELSE path[b]["S1"]
        frees   == moves /\ gbrRes[b]["S1"]
        freeChg == IF frees THEN Charge(b, "S1", old, path[b]["S1"]) ELSE NoCharge
        freed   == SubCharge(res, s, freeChg)
        takes   == /\ moves /\ HasGbrBitRate(b)
                   /\ WalkBitRateRequest(freed, b, ho.enb, "S1", newPath, {})
        takeChg == IF takes THEN Charge(b, "S1", ho.enb, newPath) ELSE NoCharge
    IN /\ Running /\ ho.on /\ b \in ho.todo /\ \A c \in ho.todo : b <= c
       /\ res'    = AddCharge(freed, s, takeChg)
       /\ gbrRes' = [gbrRes EXCEPT ![b]["S1"] = IF moves THEN takes ELSE @]
       /\ path'   = [path EXCEPT ![b]["S1"] = newPath]
       /\ ifInst' = [ifInst EXCEPT ![b]["S1"] = newPath # "LOCAL"]
       /\ ho'     = [ho EXCEPT !.todo = @ \ {b}]
       /\ fault'  = IF CanSubCharge(res, s, freeChg)
                    THEN IF CanAddCharge(freed, s, takeChg)
                         THEN "none" ELSE "Error when reserving bit rate."
                    ELSE "Error when releasing bit rate."
       /\ UNCHANGED <<ueEnb, st, agg, blocked, gwInst, ext>>

SetEnbInfo ==
    /\ Running /\ ho.on /\ ho.todo = {}
    /\ ueEnb' = [ueEnb EXCEPT ![ho.ue] = ho.enb]
    /\ ho' = NoHandover
    /\ UNCHANGED <<bearerVars, res, ext, fault>>

(* SlicingDynamicTimeout may set another extra bit rate on any link. *)
SlicingDynamicTimeout ==
    /\ Running /\ ~ho.on
    /\ ext' \in ExtProfiles
    /\ ext' # ext
    /\ UNCHANGED <<ueEnb, ho, bearerVars, res, fault>>
------------------------------------------------------------------------------
Init ==
    /\ ueEnb \in [Ue -> Enb]
    /\ ho = NoHandover
    /\ st = [b \in Bearer |-> "idle"]
    /\ agg = [b \in Bearer |-> FALSE]
    /\ blocked = [b \in Bearer |-> {}]
    /\ path = [b \in Bearer |-> [i \in Iface |-> ShortestPath(b, i, ueEnb[BearerUe[b]])]]
    /\ gbrRes = [b \in Bearer |-> [i \in Iface |-> FALSE]]
    /\ gwInst = [b \in Bearer |-> FALSE]
    /\ ifInst = [b \in Bearer |-> [i \in Iface |-> FALSE]]
    /\ res = [q \in Port |-> [s \in SliceAll |-> 0]]
    /\ ext = [q \in Port |-> [s \in Slice |-> 0]]
    /\ fault = "none"

Next ==
    \/ \E b \in Bearer, load \in Loads : DedicatedBearerRequest(b, load)
    \/ \E b \in Bearer : NotifyAppStop(b)
    \/ \E b \in Bearer : DedicatedBearerRelease(b)
    \/ \E b \in Bearer : BearerUpdate(b)
    \/ \E u \in Ue, e \in Enb : ModifyBearerRequest(u, e)
    \/ SetEnbInfo
    \/ SlicingDynamicTimeout

Spec == Init /\ [][Next]_vars
------------------------------------------------------------------------------
TypeOK ==
    /\ ueEnb \in [Ue -> Enb]
    /\ ho \in [on : BOOLEAN, ue : Ue, enb : Enb, todo : SUBSET Bearer]
    /\ st \in [Bearer -> {"idle", "active", "stopped"}]
    /\ agg \in [Bearer -> BOOLEAN]
    /\ blocked \in [Bearer -> SUBSET (BackReason \cup GwReason)]
    /\ path \in [Bearer -> [Iface -> Path]]
    /\ gbrRes \in [Bearer -> [Iface -> BOOLEAN]]
    /\ gwInst \in [Bearer -> BOOLEAN]
    /\ ifInst \in [Bearer -> [Iface -> BOOLEAN]]
    /\ res \in [Port -> [SliceAll -> Nat]]
    /\ ext \in [Port -> [Slice -> Nat]]
    /\ fault \in Fault

(***************************************************************************)
(* What interface i of bearer b holds on every port, and the set of all the  *)
(* units of bit rate that the bearers of a slice hold under a holding        *)
(* function h: its cardinality is the sum of h over them.                    *)
(***************************************************************************)
Holding(q) ==
    [b \in Bearer |-> [i \in Iface |->
        IF gbrRes[b][i] THEN ChargeOn(q, b, i, EnbOf(b), path[b][i]) ELSE 0]]

Units(h, s) ==
    {u \in (Bearer \X Iface) \X (1 .. MaxBitRate) :
        BearerSlice[u[1][1]] = s /\ u[2] <= h[u[1][1]][u[1][2]]}

(***************************************************************************)
(* Conservation: on every link direction the reserved bit rate of a slice is *)
(* exactly what its bearers with the m_isGbrRes flag hold along their current *)
(* paths.  Requests, releases and handovers (which release and reserve along  *)
(* different paths while the UE still names the old eNB) neither leak nor     *)
(* lose a bit.                                                                *)
(***************************************************************************)
Conserved ==
    \A q \in Port, s \in Slice : res[q][s] = Cardinality(Units(Holding(q), s))

(***************************************************************************)
(* The ALL entry of LinkInfo is the sum of the slices' reserved bit rates.   *)
(***************************************************************************)
AllIsSum ==
    \A q \in Port :
        res[q]["ALL"] = res[q]["HTC"] + res[q]["MTC"] + res[q]["TMP"]

(***************************************************************************)
(* Rules and reservations follow the life of the bearer: the ones of an idle  *)
(* or aggregated bearer are gone, also after handovers between its stop and   *)
(* its release.                                                               *)
(***************************************************************************)
NothingLeftBehind ==
    \A b \in Bearer :
        /\ gwInst[b] <=> (st[b] # "idle" /\ ~agg[b])
        /\ \A i \in Iface : (gbrRes[b][i] \/ ifInst[b][i]) => gwInst[b]

(***************************************************************************)
(* No NS_ASSERT of these handlers fails: what BearerRequest accepts,         *)
(* BearerReserve can reserve ("To avoid errors when reserving bit rates,     *)
(* check for overlapping links"), every release finds what it gives back, and *)
(* rules are installed and removed once.                                      *)
(***************************************************************************)
NoAssertFails == fault = "none"

(***************************************************************************)
(* Inductive strengthening.  A reservation that the code accepts must fit    *)
(* what is left, which takes the exact accounting (Conserved), the bound it   *)
(* is compared with, the bearers the handover loop has left, and, under SPO,  *)
(* that the S5 path is the one NotifyBearerCreated chose.                     *)
(***************************************************************************)
WithinQuota == \A q \in Port, s \in Slice : res[q][s] <= QuoBitRate[s]

HandoverOK ==
    ho.on => \A b \in ho.todo : BearerUe[b] = ho.ue /\ gwInst[b]

S5IsShortest ==
    Strategy = "SPO" =>
        \A b \in Bearer : path[b]["S5"] = GetShortPath(SrcDlSw(b, "S5"),
                                                      SgwSw[BearerSlice[b]])

LedgerInv == TypeOK /\ HandoverOK /\ Conserved /\ AllIsSum /\ NothingLeftBehind

ReserveInv == LedgerInv /\ S5IsShortest /\ WithinQuota /\ NoAssertFails
==============================================================================
