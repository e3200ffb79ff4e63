------------------------------ MODULE FlowRules -------------------------------
(***************************************************************************)
(* The OpenFlow rules and MBR meters of one bearer on the S1-U interface: in  *)
(* the switches of the ring and in the S-GW.  A handover installs new rules    *)
(* with a higher priority at once and schedules the deletion of the old ones; *)
(* a switch tells the controllers of every rule that it deletes, and that      *)
(* message may take time.  Rules and meters name their bearer, so bearers do   *)
(* not meet in the switches.                                                 *)
(*                                                                           *)
(* Time goes by in ticks of TickMs milliseconds.  Commands reach the switches  *)
(* in the event that sends them.  The bit rate of bearers, the S5 interface    *)
(* and the P-GW are not here (RingController, TftBalancing).                  *)
(***************************************************************************)
EXTENDS RingPaths

CONSTANTS
    SgwSw,          \* index of the S-GW's switch
    Enb, EnbSw,     \* eNBs, and the index of the switch of each
    Metered,        \* sets of directions in which a bearer may have an MBR
    TickMs,         \* milliseconds of a tick
    Latency,        \* greatest delay of a flow-removed message, in ticks
    MaxPrio         \* bound: installations and handovers of a behaviour

Ticks(ms) == ms \div TickMs

(* Delays of the commands that a handover schedules, and others.             *)
OldRulesDelay  == Ticks(250)
(* Mutant: the meter is deleted before the rules that name it. *)
OldMetersDelayShort == Ticks(200)
OldMetersDelay == Ticks(300)
Sec            == Ticks(1000)
TimeToTrigger  == Ticks(512)

(* Ticks tell the delays apart, and a message takes less than a second.       *)
ASSUME ConstAssumption ==
    /\ SgwSw \in Switch /\ EnbSw \in [Enb -> Switch]
    /\ "sgw" \notin Enb /\ "pgw" \notin Enb
    /\ Metered \subseteq SUBSET {"DL", "UL"}
    /\ TickMs \in 1 .. 50 /\ Latency \in 0 .. Sec - 1 /\ MaxPrio \in Nat

Fault == {"none", "Gateway rules installed.", "Ring rules installed.",
          "Meter installed.", "Gateway rules not installed.",
          "Rule removed for active bearer."}

VARIABLES
    enb,        \* the UE's eNB
    st,         \* idle, active (m_isActive) or stopped (inactive, to be released)
    agg,        \* m_isAggregated
    prio,       \* m_priority, counted from the first one
    path,       \* downlink path of S1-U
    mbr,        \* directions in which the bearer has an MBR; never changes
    gwInst,     \* m_isInstGw
    ifInst,     \* m_isInstIf of S1-U
    mbrInst,    \* directions for which the flag of an installed meter is set
    ring,       \* rules in the ring's switches
    sgw,        \* rules in the S-GW: downlink to an eNB, uplink to the P-GW
    meters,     \* switches that hold the bearer's meter
    later,      \* commands of DpctlSchedule
    removed,    \* flow-removed messages on their way
    life,       \* ticks to the release, or before the next request
    camp,       \* ticks before the UE can be handed over again
    fault       \* the assertion that failed

vars == <<enb, st, agg, prio, path, mbr, gwInst, ifInst, mbrInst, ring, sgw,
          meters, later, removed, life, camp, fault>>
bearer   == <<gwInst, ifInst, mbrInst, prio>>
switches == <<ring, sgw, meters>>

Running == fault = "none"
Check(ok, msg) == IF ok THEN "none" ELSE msg
First(x, y)    == IF x # "none" THEN x ELSE y

(* The switch that meters a direction: the first one of its path.            *)
MeterSw(d, e) == IF d = "DL" THEN SgwSw ELSE EnbSw[e]
OnPath(e, p)  == PathSwitches(SgwSw, EnbSw[e], p)

(***************************************************************************)
(* A rule of the ring matches the outer destination address, dst, and the     *)
(* TEID; the last switch of a path needs none.                               *)
(***************************************************************************)
RulesOf(src, end, p, dst, pr, meter) ==
    {[sw |-> s, dst |-> dst, prio |-> pr, out |-> p, meter |-> meter /\ s = src] :
        s \in PathSwitches(src, end, p) \ {end}}

BothWays(e, p, pr, met) ==
    RulesOf(SgwSw, EnbSw[e], p, e, pr, "DL" \in met)
        \cup RulesOf(EnbSw[e], SgwSw, InvertPath(p), "sgw", pr, "UL" \in met)

(* OFPFF_CHECK_OVERLAP: a rule is refused where one of the same priority has  *)
(* the same match.                                                           *)
Add(rules, new) ==
    rules \cup {r \in new : ~\E q \in rules :
                   q.sw = r.sw /\ q.dst = r.dst /\ q.prio = r.prio}

(* OFPFF_SEND_FLOW_REM: a message for each rule that is deleted.             *)
Told(gone) == removed \cup {[left |-> Latency, prio |-> r.prio] : r \in gone}
------------------------------------------------------------------------------
(***************************************************************************)
(* SliceController::BearerInstall: gateway rules, then those of the ring,     *)
(* with a new priority.  A local path needs neither rules nor meters.        *)
(***************************************************************************)
BearerInstall(p) ==
    LET new == IF p = "LOCAL" THEN {} ELSE mbr
    IN /\ prio' = prio + 1
       /\ sgw' = sgw \cup {[dst |-> d, prio |-> prio'] : d \in {enb, "pgw"}}
       /\ gwInst' = TRUE
       /\ meters' = meters \cup {MeterSw(d, enb) : d \in new}
       /\ mbrInst' = mbrInst \cup new
       /\ ring' = IF p = "LOCAL" THEN ring
                  ELSE Add(ring, BothWays(enb, p, prio', mbrInst'))
       /\ ifInst' = (p # "LOCAL")
       /\ fault' = First(Check(~gwInst, "Gateway rules installed."),
                   First(Check(~ifInst, "Ring rules installed."),
                         Check(new \cap mbrInst = {}, "Meter installed.")))

(***************************************************************************)
(* DedicatedBearerRequest.  The request sets S1-U to the shortest path, and   *)
(* SPF routing may invert it.  It may be accepted, also as aggregated, which   *)
(* installs nothing, or blocked.                                             *)
(***************************************************************************)
Request(accepted, a) ==
    /\ Running /\ st = "idle" /\ life = 0 /\ prio < MaxPrio
    /\ agg' = a
    /\ LET short == GetShortPath(SgwSw, EnbSw[enb])
       IN path' \in {short, InvertPath(short)}
    /\ IF accepted THEN st' = "active" ELSE UNCHANGED st
    /\ IF accepted /\ ~a THEN BearerInstall(path')
                         ELSE UNCHANGED <<bearer, switches, fault>>
    /\ UNCHANGED <<enb, mbr, later, removed, life, camp>>

(* The application stops; the bearer is inactive and is released in a second. *)
Stop ==
    /\ Running /\ st = "active"
    /\ st' = "stopped" /\ life' = Sec
    /\ UNCHANGED <<enb, agg, path, mbr, bearer, switches, later, removed, camp, fault>>

(* RingController::RulesRemove: along the path of now, rules of any priority. *)
RulesRemove ==
    LET gone == {r \in ring : r.sw \in OnPath(enb, path)}
    IN IF ifInst
       THEN /\ ring' = ring \ gone
            /\ meters' = meters \ {MeterSw(d, enb) : d \in mbrInst}
            /\ mbrInst' = {} /\ ifInst' = FALSE
            /\ removed' = Told(gone \cup sgw)
       ELSE /\ UNCHANGED <<ring, meters, mbrInst, ifInst>>
            /\ removed' = Told(sgw)

(* DedicatedBearerRelease; the next request comes a second later or more      *)
(* (TimelineHolds of TrafficManager).                                       *)
Release ==
    /\ Running /\ st = "stopped" /\ life = 0
    /\ st' = "idle" /\ life' = Sec
    /\ IF agg THEN UNCHANGED <<bearer, switches, removed, fault>>
       ELSE /\ sgw' = {} /\ gwInst' = FALSE
            /\ RulesRemove
            /\ fault' = Check(gwInst, "Gateway rules not installed.")
            /\ UNCHANGED prio
    /\ UNCHANGED <<enb, agg, path, mbr, later, camp>>
------------------------------------------------------------------------------
Command(delay, cmd, sw) == [left |-> delay, cmd |-> cmd, sw |-> sw, prio |-> prio]

(* Mutant: the old rules are deleted at once. *)
OldRulesNow ==
    IF ifInst THEN {Command(0, "rules", s) : s \in OnPath(enb, path)} ELSE {}

(* Deletion of the rules with the old priority along the old path.           *)
OldRules ==
    IF ifInst THEN {Command(OldRulesDelay, "rules", s) : s \in OnPath(enb, path)}
              ELSE {}

(* Mutant: the downlink meter is forgotten when the path becomes local. *)
LostMetersUplink(e, p) ==
    IF EnbSw[enb] = EnbSw[e] THEN {} ELSE mbrInst \cap {"UL"}

(* Directions whose meter is no longer at the right switch.                  *)
LostMeters(e, p) ==
    IF EnbSw[enb] = EnbSw[e] THEN {}
    ELSE mbrInst \cap (IF p = "LOCAL" THEN {"DL", "UL"} ELSE {"UL"})

(* The shortest path to a new switch; an inverted one is kept otherwise.      *)
NewPath(e) ==
    IF EnbSw[enb] = EnbSw[e] THEN path ELSE GetShortPath(SgwSw, EnbSw[e])

(* Mutant: the priority stays. *)
NewPrioSame == prio
NewPrio == prio + 1

(***************************************************************************)
(* SliceController::BearerUpdate for a handover to e: SgwRulesUpdate, then    *)
(* RingController::RulesUpdate, which computes with the old eNB until the end. *)
(***************************************************************************)
BearerUpdate(e) ==
    LET p    == NewPath(e)
        kept == mbrInst \ LostMeters(e, p)
        new  == IF p = "LOCAL" THEN {} ELSE mbr \ kept
    IN /\ sgw' = sgw \cup {[dst |-> e, prio |-> NewPrio]}
       /\ later' = later
             \cup {Command(OldRulesDelay, "sgw", SgwSw)}
             \cup OldRules
             \cup {Command(OldMetersDelay, "meter", MeterSw(d, enb)) :
                      d \in LostMeters(e, p)}
       /\ path' = p
       /\ mbrInst' = kept \cup new
       /\ meters' = meters \cup {MeterSw(d, e) : d \in new}
       /\ ring' = IF p = "LOCAL" THEN ring
                  ELSE Add(ring, BothWays(e, p, NewPrio, mbrInst'))
       /\ ifInst' = (p # "LOCAL")
       /\ prio' = NewPrio
       /\ UNCHANGED gwInst

(* DoModifyBearerRequest after an X2 handover.  The next handover of the UE   *)
(* takes another TimeToTrigger.                                              *)
Handover(e) ==
    /\ Running /\ e # enb /\ camp = 0 /\ prio < MaxPrio
    /\ enb' = e /\ camp' = TimeToTrigger
    /\ IF gwInst THEN BearerUpdate(e)
                 ELSE UNCHANGED <<bearer, switches, later, path>>
    /\ UNCHANGED <<st, agg, mbr, removed, life, fault>>

(* Mutant: the cookie mask leaves the priority out. *)
StrictAny(rules, c) == rules

(* COOKIE_STRICT_MASK: rules of the priority that the command names.         *)
Strict(rules, c) == {r \in rules : r.prio = c.prio}

(* A scheduled command is executed.                                          *)
Execute(c) ==
    LET gone == CASE c.cmd = "rules" -> {r \in Strict(ring, c) : r.sw = c.sw}
                  [] c.cmd = "sgw"   -> {r \in Strict(sgw, c) : r.dst # "pgw"}
                  [] c.cmd = "meter" -> {}
    IN /\ Running /\ c.left = 0
       /\ later' = later \ {c}
       /\ ring' = IF c.cmd = "rules" THEN ring \ gone ELSE ring
       /\ sgw'  = IF c.cmd = "sgw" THEN sgw \ gone ELSE sgw
       /\ meters' = IF c.cmd = "meter" THEN meters \ {c.sw} ELSE meters
       /\ removed' = Told(gone)
       /\ UNCHANGED <<enb, st, agg, path, mbr, bearer, life, camp, fault>>

(* HandleFlowRemoved of either controller.                                   *)
HandleFlowRemoved(m) ==
    /\ Running
    /\ removed' = removed \ {m}
    /\ fault' = Check(st # "active" \/ prio > m.prio, "Rule removed for active bearer.")
    /\ UNCHANGED <<enb, st, agg, path, mbr, bearer, switches, later, life, camp>>

Less(n) == IF n > 0 THEN n - 1 ELSE 0
Sooner(events) == {[x EXCEPT !.left = @ - 1] : x \in events}

Tick ==
    /\ Running
    /\ \A x \in later \cup removed : x.left > 0
    /\ later' = Sooner(later) /\ removed' = Sooner(removed)
    /\ life' = Less(life) /\ camp' = Less(camp)
    /\ UNCHANGED <<enb, st, agg, path, mbr, bearer, switches, fault>>
------------------------------------------------------------------------------
(* After the attach.  A default bearer is one that is accepted and not stopped. *)
Init ==
    /\ enb \in Enb /\ mbr \in Metered
    /\ st = "idle" /\ agg = FALSE /\ prio = 0
    /\ path = GetShortPath(SgwSw, EnbSw[enb])
    /\ gwInst = FALSE /\ ifInst = FALSE /\ mbrInst = {}
    /\ ring = {} /\ sgw = {} /\ meters = {}
    /\ later = {} /\ removed = {}
    /\ life = 0 /\ camp = 0
    /\ fault = "none"

Next ==
    \/ \E accepted, a \in BOOLEAN : Request(accepted, a)
    \/ Stop \/ Release
    \/ \E e \in Enb : Handover(e)
    \/ \E c \in later : Execute(c)
    \/ \E m \in removed : HandleFlowRemoved(m)
    \/ Tick

Spec == Init /\ [][Next]_vars
------------------------------------------------------------------------------
Rule == [sw : Switch, dst : Enb \cup {"sgw"}, prio : 0 .. MaxPrio,
         out : RingPath, meter : BOOLEAN]

(* Types.  The path is LOCAL exactly when both ends are one switch, while the *)
(* bearer is installed.                                                      *)
TypeOK ==
    /\ enb \in Enb /\ mbr \in Metered
    /\ st \in {"idle", "active", "stopped"} /\ agg \in BOOLEAN
    /\ prio \in 0 .. MaxPrio /\ path \in Path
    /\ gwInst \in BOOLEAN /\ ifInst \in BOOLEAN /\ mbrInst \subseteq mbr
    /\ ring \subseteq Rule /\ meters \subseteq Switch
    /\ sgw \subseteq [dst : Enb \cup {"pgw"}, prio : 0 .. MaxPrio]
    /\ later \subseteq [left : 0 .. OldMetersDelay, cmd : {"rules", "sgw", "meter"},
                        sw : Switch, prio : 0 .. MaxPrio]
    /\ removed \subseteq [left : 0 .. Latency, prio : 0 .. MaxPrio]
    /\ life \in 0 .. Sec /\ camp \in 0 .. TimeToTrigger
    /\ fault \in Fault
    /\ gwInst => (path = "LOCAL") = (EnbSw[enb] = SgwSw)

(***************************************************************************)
(* No assertion fails, and no flow-removed message reaches the abort of       *)
(* HandleFlowRemoved: what a handover or a release deletes is never taken for *)
(* a rule that the bearer needs, however late the message within a second.    *)
(***************************************************************************)
NoAssertFails == fault = "none"

Lost == -1

(* The rule that a packet for dst follows at switch s.                       *)
Matching(s, dst) == {r \in ring : r.sw = s /\ r.dst = dst}
Best(s, dst) == CHOOSE r \in Matching(s, dst) :
                    \A q \in Matching(s, dst) : q.prio <= r.prio

(* A packet for dst that enters the ring at src leaves it at end.            *)
Reaches(src, dst, end) ==
    LET at[k \in 0 .. N] ==
            IF k = 0 THEN src
            ELSE IF at[k - 1] \in {end, Lost} THEN at[k - 1]
            ELSE IF Matching(at[k - 1], dst) = {} THEN Lost
            ELSE GetNextSwIdx(at[k - 1], Best(at[k - 1], dst).out)
    IN at[N] = end

(***************************************************************************)
(* While the bearer is installed, the S-GW sends its packets to the UE's eNB,  *)
(* and the switches carry them there and back, at every moment of handovers   *)
(* and deletions.                                                            *)
(***************************************************************************)
Served ==
    gwInst =>
        /\ \E r \in sgw : /\ r.dst = enb
                          /\ \A q \in sgw : q.dst # "pgw" => q.prio <= r.prio
        /\ Reaches(SgwSw, enb, EnbSw[enb])
        /\ Reaches(EnbSw[enb], "sgw", SgwSw)

(***************************************************************************)
(* Packets on their way when the UE is handed over still arrive: as long as   *)
(* the S-GW holds a rule that sends to an eNB, and as long as old rules wait  *)
(* for their deletion, the ring carries packets to that eNB and from it.     *)
(***************************************************************************)
InFlightServed ==
    (gwInst /\ \A c \in later : c.left > 0) =>
        /\ \A r \in sgw : r.dst \in Enb => Reaches(SgwSw, r.dst, EnbSw[r.dst])
        /\ \A c \in later : c.cmd = "rules" => Reaches(c.sw, "sgw", SgwSw)

(***************************************************************************)
(* No rule names a meter that its switch does not have, and the rules in use  *)
(* meter what has an MBR: the meter of an old rule outlives it, and no late    *)
(* deletion takes the meter of a new one.                                    *)
(***************************************************************************)
MetersInPlace ==
    /\ \A r \in ring : r.meter => r.sw \in meters
    /\ (gwInst /\ path # "LOCAL") =>
          /\ Best(SgwSw, enb).meter = ("DL" \in mbr)
          /\ Best(EnbSw[enb], "sgw").meter = ("UL" \in mbr)

(***************************************************************************)
(* Nothing is left behind: with no command pending, the switches hold rules   *)
(* of the last priority along the path of now and the meters the flags tell,  *)
(* and nothing if the bearer is not installed.                               *)
(***************************************************************************)
NothingStale ==
    later = {} =>
        /\ \A r \in ring : gwInst /\ r.prio = prio /\ r.sw \in OnPath(enb, path)
        /\ \A r \in sgw : gwInst /\ (r.dst # "pgw" => r.prio = prio)
        /\ meters = {MeterSw(d, enb) : d \in mbrInst}
        /\ ~gwInst => mbrInst = {}
==============================================================================
