----------------------------- MODULE TftBalancing -----------------------------
(***************************************************************************)
(* The P-GW of a slice: a main switch that spreads the downlink over up to     *)
(* 2^MaxLevel TFT switches, and PgwTftLoadBalancing, which changes the level   *)
(* while bearers carry traffic.  A change moves rules at random times within   *)
(* 250 ms, redirects the main switch after 500 ms and deletes the old rules     *)
(* 750 ms after each move; meanwhile bearers are requested and released.       *)
(*                                                                           *)
(* A bearer has one rule, which names it and serves until it is deleted; the   *)
(* priorities that handovers raise do not matter for this.  The load balancing *)
(* is AUTO; with ON and OFF the level never changes.                          *)
(***************************************************************************)
EXTENDS Integers, FiniteSets

CONSTANTS
    Bearer,
    Default,        \* the default bearers, always installed
    Addr,           \* [Bearer -> last bits of the address of its UE]
    MaxLevel,       \* log2 of the number of TFT switches
    TableSize,      \* rules that a TFT switch can hold
    CpuUses,        \* CPU use that a switch may report, in percent
    SplitThs, JoinThs, BlockThs,    \* thresholds in percent
    TickMs,         \* milliseconds of a tick
    TftTimeout      \* PgwTftTimeout, in ticks

Ticks(ms) == ms \div TickMs
Sec       == Ticks(1000)

(* The checkers of the attributes, and the assertion of PgwTftLoadBalancing.  *)
(* The delays of the code are whole numbers of ticks.                        *)
ASSUME ConstAssumption ==
    /\ Default \subseteq Bearer /\ IsFiniteSet(Bearer)
    /\ Addr \in [Bearer -> Nat]
    /\ MaxLevel \in Nat /\ TableSize \in Nat \ {0} /\ CpuUses \subseteq Nat
    /\ JoinThs \in Nat /\ SplitThs \in Nat /\ BlockThs \in Nat
    /\ SplitThs < BlockThs /\ SplitThs > 2 * JoinThs
    /\ TickMs \in 1 .. 250 /\ 250 % TickMs = 0
    /\ TftTimeout \in Nat /\ TftTimeout >= Sec

Level == 0 .. MaxLevel
Tft   == 1 .. 2 ^ MaxLevel

(* Powers of two, for the proofs.                                            *)
ASSUME PowerAssumption ==
    /\ \A lev \in Level : 2 ^ lev \in 1 .. 2 ^ MaxLevel
    /\ \A lev \in Level \ {0} : 2 ^ lev = 2 * 2 ^ (lev - 1)

VARIABLES
    level,      \* m_tftLevel
    table,      \* the level whose table the main switch sends packets to
    idx,        \* [Bearer -> m_pgwTftIdx]
    gwInst,     \* [Bearer -> m_isInstGw]
    rules,      \* [Tft -> bearers with a rule in the switch]
    moves,      \* PgwRulesMove events: [left, b, src, dst]
    deletes,    \* scheduled deletions in TFT switches: [left, b, tft]
    redirect,   \* scheduled changes of the main switch: [left, level]
    st,         \* [Bearer -> idle, waiting (requested), traffic, stopped]
    life,       \* [Bearer -> ticks to the end of the state, or its least end]
    balance     \* ticks to the next PgwTftLoadBalancing

vars == <<level, table, idx, gwInst, rules, moves, deletes, redirect, st, life, balance>>
apps == <<gwInst, st, life>>

(* GetTftIdx, for the number of switches that level uses.                    *)
GetTftIdx(b, lev) == 1 + (Addr[b] % (2 ^ lev))

(* The switch to which the tables of the main switch, which mask the address, *)
(* send the packets of a bearer.                                             *)
Route(b) == CHOOSE t \in 1 .. 2 ^ table : (t - 1) % (2 ^ table) = Addr[b] % (2 ^ table)

TableUse(t) == (100 * Cardinality(rules[t])) \div TableSize
------------------------------------------------------------------------------
(* Mutant: one threshold for both directions. *)
NextLevelNoBand(tab, cpu) ==
    IF level < MaxLevel /\ (tab >= SplitThs \/ cpu >= SplitThs) THEN level + 1
    ELSE IF level > 0 /\ tab < SplitThs /\ cpu < SplitThs THEN level - 1
    ELSE level

(* More switches at the split threshold, fewer below the join threshold.      *)
NextLevel(tab, cpu) ==
    IF level < MaxLevel /\ (tab >= SplitThs \/ cpu >= SplitThs) THEN level + 1
    ELSE IF level > 0 /\ tab < JoinThs /\ cpu < JoinThs THEN level - 1
    ELSE level

RedirectDelayNow == 0         \* mutant: the main switch changes at once
RedirectDelay == Ticks(500)

(* Mutant: bearers that are not installed are left out. *)
MovingInstalled(next) ==
    {b \in Bearer : gwInst[b] /\ next # level /\ GetTftIdx(b, next) # idx[b]}

(* Bearers that are to change their switch.                                  *)
Moving(next) == {b \in Bearer : next # level /\ GetTftIdx(b, next) # idx[b]}

(***************************************************************************)
(* PgwTftLoadBalancing, when the switches in use report the CPU use cpu at    *)
(* most.  Each installed bearer is moved when its random delay is over.       *)
(***************************************************************************)
PgwTftLoadBalancing(cpu, delay) ==
    LET used == {TableUse(t) : t \in 1 .. 2 ^ level}
        tab  == CHOOSE u \in used : \A v \in used : v <= u
        next == NextLevel(tab, cpu)
    IN /\ balance = 0
       /\ idx' = [b \in Bearer |->
                     IF b \in Moving(next) /\ ~gwInst[b] THEN GetTftIdx(b, next) ELSE idx[b]]
       /\ moves' = moves \cup
             {[left |-> delay[b], b |-> b, src |-> idx[b], dst |-> GetTftIdx(b, next)] :
                 b \in {x \in Moving(next) : gwInst[x]}}
       /\ redirect' = IF next = level THEN redirect
                      ELSE redirect \cup {[left |-> RedirectDelay, level |-> next]}
       /\ level' = next
       /\ balance' = TftTimeout
       /\ UNCHANGED <<table, rules, deletes, apps>>

DeleteDelay == Ticks(750)

(* Events of one instant run in the order in which they were scheduled: what  *)
(* was scheduled 750 ms ago comes before what was scheduled 250 ms ago.        *)
DeletesDone == \A d \in deletes : d.left > 0

(* Mutant: a bearer that was released meanwhile is installed again. *)
PgwRulesMoveAlways(m) ==
    /\ m.left = 0 /\ DeletesDone
    /\ moves' = moves \ {m}
    /\ idx' = [idx EXCEPT ![m.b] = m.dst]
    /\ rules' = [rules EXCEPT ![m.dst] = @ \cup {m.b}]
    /\ deletes' = deletes \cup {[left |-> DeleteDelay, b |-> m.b, tft |-> m.src]}
    /\ UNCHANGED <<level, table, redirect, apps, balance>>

(* PgwRulesMove.                                                             *)
PgwRulesMove(m) ==
    /\ m.left = 0 /\ DeletesDone
    /\ moves' = moves \ {m}
    /\ idx' = [idx EXCEPT ![m.b] = m.dst]
    /\ IF gwInst[m.b]
       THEN /\ rules' = [rules EXCEPT ![m.dst] = @ \cup {m.b}]
            /\ deletes' = deletes \cup {[left |-> DeleteDelay, b |-> m.b, tft |-> m.src]}
       ELSE UNCHANGED <<rules, deletes>>
    /\ UNCHANGED <<level, table, redirect, apps, balance>>

DeleteRules(d) ==
    /\ d.left = 0
    /\ deletes' = deletes \ {d}
    /\ rules' = [rules EXCEPT ![d.tft] = @ \ {d.b}]
    /\ UNCHANGED <<level, table, idx, moves, redirect, apps, balance>>

Redirect(r) ==
    /\ r.left = 0
    /\ redirect' = redirect \ {r}
    /\ table' = r.level
    /\ UNCHANGED <<level, idx, rules, moves, deletes, apps, balance>>
------------------------------------------------------------------------------
Become(b, state, ticks) ==
    /\ st' = [st EXCEPT ![b] = state]
    /\ life' = [life EXCEPT ![b] = ticks]

(* PgwBearerRequest turns a bearer down for the table or the CPU of its       *)
(* switch.  Other switches may turn it down, and it may be aggregated: then    *)
(* it does not concern the P-GW, as if it stayed idle.                        *)
PgwAccepts(b, cpu) == TableUse(idx[b]) < BlockThs /\ cpu < BlockThs

(* DedicatedBearerRequest, with PgwRulesInstall; the application starts in a   *)
(* second.                                                                   *)
Request(b, cpu) ==
    /\ st[b] = "idle" /\ life[b] = 0
    /\ PgwAccepts(b, cpu)
    /\ gwInst' = [gwInst EXCEPT ![b] = TRUE]
    /\ rules' = [rules EXCEPT ![idx[b]] = @ \cup {b}]
    /\ Become(b, "waiting", Sec)
    /\ UNCHANGED <<level, table, idx, moves, deletes, redirect, balance>>

Start(b) ==
    /\ st[b] = "waiting" /\ life[b] = 0
    /\ Become(b, "traffic", 0)
    /\ UNCHANGED <<level, table, idx, gwInst, rules, moves, deletes, redirect, balance>>

Stop(b) ==
    /\ b \notin Default
    /\ st[b] = "traffic"
    /\ Become(b, "stopped", Sec)
    /\ UNCHANGED <<level, table, idx, gwInst, rules, moves, deletes, redirect, balance>>

(* DedicatedBearerRelease, with PgwRulesRemove.  The next request comes a     *)
(* second later or more (TimelineHolds of TrafficManager).                  *)
Release(b) ==
    /\ st[b] = "stopped" /\ life[b] = 0
    /\ gwInst' = [gwInst EXCEPT ![b] = FALSE]
    /\ rules' = [rules EXCEPT ![idx[b]] = @ \ {b}]
    /\ Become(b, "idle", Sec)
    /\ UNCHANGED <<level, table, idx, moves, deletes, redirect, balance>>

Sooner(events) == {[x EXCEPT !.left = @ - 1] : x \in events}

Tick ==
    /\ balance > 0
    /\ \A x \in moves \cup deletes \cup redirect : x.left > 0
    /\ \A b \in Bearer : st[b] \in {"waiting", "stopped"} => life[b] > 0
    /\ moves' = Sooner(moves) /\ deletes' = Sooner(deletes)
    /\ redirect' = Sooner(redirect)
    /\ life' = [b \in Bearer |-> IF life[b] > 0 THEN life[b] - 1 ELSE 0]
    /\ balance' = balance - 1
    /\ UNCHANGED <<level, table, idx, gwInst, rules, st>>
------------------------------------------------------------------------------
(* The default bearers are installed by the attach.  The first level is 0, or *)
(* the highest (PgwTftStartMax).                                             *)
Init ==
    /\ level \in {0, MaxLevel} /\ table = level
    /\ idx = [b \in Bearer |-> GetTftIdx(b, level)]
    /\ gwInst = [b \in Bearer |-> b \in Default]
    /\ rules = [t \in Tft |-> {b \in Default : idx[b] = t}]
    /\ moves = {} /\ deletes = {} /\ redirect = {}
    /\ st = [b \in Bearer |-> IF b \in Default THEN "traffic" ELSE "idle"]
    /\ life = [b \in Bearer |-> 0]
    /\ balance = TftTimeout

Next ==
    \/ \E cpu \in CpuUses, delay \in [Bearer -> 0 .. Ticks(250)] :
          PgwTftLoadBalancing(cpu, delay)
    \/ \E m \in moves : PgwRulesMove(m)
    \/ \E d \in deletes : DeleteRules(d)
    \/ \E r \in redirect : Redirect(r)
    \/ \E b \in Bearer :
          \/ \E cpu \in CpuUses : Request(b, cpu)
          \/ Start(b) \/ Stop(b) \/ Release(b)
    \/ Tick

Spec == Init /\ [][Next]_vars
------------------------------------------------------------------------------
TypeOK ==
    /\ level \in Level /\ table \in Level
    /\ idx \in [Bearer -> Tft] /\ gwInst \in [Bearer -> BOOLEAN]
    /\ rules \in [Tft -> SUBSET Bearer]
    /\ moves \subseteq [left : 0 .. Ticks(250), b : Bearer, src : Tft, dst : Tft]
    /\ deletes \subseteq [left : 0 .. DeleteDelay, b : Bearer, tft : Tft]
    /\ redirect \subseteq [left : 0 .. RedirectDelay, level : Level]
    /\ st \in [Bearer -> {"idle", "waiting", "traffic", "stopped"}]
    /\ life \in [Bearer -> 0 .. Sec] /\ balance \in 0 .. TftTimeout

(***************************************************************************)
(* While a bearer carries traffic, the main switch sends its packets to a TFT *)
(* switch that has its rule, whatever the load balancing has moved, and with   *)
(* the moves, the redirection and the deletions of one change before those of *)
(* the next.                                                                 *)
(***************************************************************************)
TrafficFindsRule ==
    \A b \in Bearer : st[b] = "traffic" => b \in rules[Route(b)]

(***************************************************************************)
(* A bearer is where its index says, and nowhere else once its deletions are   *)
(* done: no scheduled deletion takes the rule in use, and no move brings back  *)
(* what was released.                                                        *)
(***************************************************************************)
RulesWhereIndexed ==
    \A b \in Bearer :
        LET stale == {d.tft : d \in {x \in deletes : x.b = b}}
        IN /\ gwInst[b] => b \in rules[idx[b]] /\ idx[b] \notin stale
           /\ \A t \in Tft : b \in rules[t] => (gwInst[b] /\ t = idx[b]) \/ t \in stale

(***************************************************************************)
(* Every bearer has come to its switch, and the main switch follows, before    *)
(* the next load balancing.                                                  *)
(***************************************************************************)
SettledInTime ==
    balance = 0 =>
        /\ moves = {} /\ redirect = {} /\ table = level
        /\ \A b \in Bearer : idx[b] = GetTftIdx(b, level)

(***************************************************************************)
(* A join does not make the next split: the switches that are joined stay      *)
(* below the split threshold together.                                       *)
(***************************************************************************)
JoinStays ==
    [][level' < level =>
          \A t \in 1 .. 2 ^ level' :
              100 * Cardinality({b \in Bearer : gwInst[b] /\ GetTftIdx(b, level') = t})
                  < SplitThs * TableSize]_vars
==============================================================================
