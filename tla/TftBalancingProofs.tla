-------------------------- MODULE TftBalancingProofs ---------------------------
(***************************************************************************)
(* For any bearers, number of TFT switches and sizes of tables: whatever the   *)
(* load balancing moves, traffic finds its rule, rules are where the index     *)
(* says, and a change of the level is over before the next.                  *)
(*                                                                           *)
(* A round goes from one PgwTftLoadBalancing to the next.  The invariant       *)
(* relates what is left to every scheduled event to what is left of the round. *)
(***************************************************************************)
EXTENDS TftBalancing, FiniteSetTheorems, TLAPS

Rand == Ticks(250)      \* greatest delay of a move

Home(b) == GetTftIdx(b, level)      \* where b belongs, and will be at the end
Old(b)  == GetTftIdx(b, table)      \* where the main switch sends its packets

Installed == \A b \in Bearer : gwInst[b] <=> st[b] # "idle"

(* Moves come first in a round, one for each bearer that is not at home.      *)
MovesOK ==
    /\ \A m \in moves :
          /\ m.src = idx[m.b] /\ m.dst = Home(m.b) /\ m.src # m.dst
          /\ m.left + TftTimeout <= balance + Rand
    /\ \A m, n \in moves : m.b = n.b => m = n
    /\ \A b \in Bearer : idx[b] = Home(b) \/ \E m \in moves : m.b = b

(* Then the main switch is redirected.                                       *)
RedirectOK ==
    /\ \A r \in redirect : /\ r.level = level
                          /\ r.left + TftTimeout = balance + RedirectDelay
    /\ redirect = {} => moves = {} /\ table = level

(* Deletions come last; those of the last round have no time left, and a      *)
(* bearer that is not installed is not requested before its own.             *)
DeletesOK ==
    \A d \in deletes :
        /\ d.left + TftTimeout <= balance + Rand + DeleteDelay
        /\ \A m \in moves : m.b = d.b => d.left = 0
        /\ ~gwInst[d.b] => life[d.b] > d.left

(* Before the redirection, a bearer is at its old switch, or has left a rule   *)
(* there that outlives the redirection, or does not have traffic so soon.     *)
OldServed ==
    \A r \in redirect, b \in Bearer :
        \/ idx[b] = Old(b)
        \/ /\ b \in rules[Old(b)]
           /\ \A d \in deletes : (d.b = b /\ d.tft = Old(b)) => d.left > r.left
        \/ st[b] = "waiting" /\ life[b] > r.left
        \/ st[b] \in {"idle", "stopped"}

(* RulesWhereIndexed, spelled out.                                           *)
Stale(b, t) == \E d \in deletes : d.b = b /\ d.tft = t

RuleOK(b) ==
    /\ gwInst[b] => b \in rules[idx[b]] /\ ~Stale(b, idx[b])
    /\ \A t \in Tft : b \in rules[t] => (gwInst[b] /\ t = idx[b]) \/ Stale(b, t)

RulesOK == \A b \in Bearer : RuleOK(b)

Inv ==
    /\ TypeOK /\ Installed /\ RulesOK
    /\ MovesOK /\ RedirectOK /\ DeletesOK /\ OldServed
------------------------------------------------------------------------------
LEMMA Delays ==
    /\ Rand \in Nat \ {0}
    /\ RedirectDelay = 2 * Rand /\ DeleteDelay = 3 * Rand /\ Sec = 4 * Rand
    /\ TftTimeout \in Nat /\ TftTimeout >= 4 * Rand
<1> DEFINE q == 250 \div TickMs
<1>1. TickMs \in 1 .. 250 /\ 250 % TickMs = 0
  BY ConstAssumption
<1>2. q \in Nat /\ 250 = TickMs * q
  BY <1>1
<1>3. q # 0
  <2>1. TickMs * 0 = 0
    BY <1>1
  <2> HIDE DEF q
  <2> QED
    BY <1>2, <2>1
<1>4. 500 \div TickMs = 2 * q
  BY <1>1, <1>2
<1>5. 750 \div TickMs = 3 * q
  BY <1>1, <1>2
<1>6. 1000 \div TickMs = 4 * q
  BY <1>1, <1>2
<1> QED
  BY <1>2, <1>3, <1>4, <1>5, <1>6, ConstAssumption
     DEF Rand, RedirectDelay, DeleteDelay, Sec, Ticks

LEMMA Remainder ==
    ASSUME NEW a \in Nat, NEW p \in Nat \ {0}
    PROVE  a % p \in 0 .. p - 1
OBVIOUS

(***************************************************************************)
(* GetTftIdx names a TFT switch, and the tables of the main switch send to it. *)
(***************************************************************************)
LEMMA TftIdx ==
    ASSUME NEW b \in Bearer, NEW lev \in Level
    PROVE  GetTftIdx(b, lev) \in Tft
<1>1. 2 ^ lev \in Nat \ {0} /\ 2 ^ lev <= 2 ^ MaxLevel /\ 2 ^ MaxLevel \in Nat
  <2>1. MaxLevel \in Level
    BY ConstAssumption DEF Level
  <2> HIDE DEF Level
  <2> QED
    BY <2>1, PowerAssumption
<1>2. Addr[b] \in Nat
  BY ConstAssumption
<1>3. Addr[b] % (2 ^ lev) \in 0 .. 2 ^ lev - 1
  BY <1>1, <1>2, Remainder
<1> QED
  BY <1>1, <1>3 DEF GetTftIdx, Tft

LEMMA RouteIsOld ==
    ASSUME NEW b \in Bearer, table \in Level
    PROVE  Route(b) = Old(b)
<1> DEFINE p == 2 ^ table
           r == Addr[b] % p
<1>1. p \in Nat \ {0} /\ Addr[b] \in Nat
  BY PowerAssumption, ConstAssumption
<1>2. r \in 0 .. p - 1
  BY <1>1, Remainder
<1>3. \A s \in 0 .. p - 1 : s % p = s
  BY <1>1
<1>4. ASSUME NEW t \in 1 .. p
      PROVE  (t - 1) % p = r <=> t = 1 + r
  <2>1. t - 1 \in 0 .. p - 1
    BY <1>1
  <2>2. (t - 1) % p = t - 1
    BY <1>3, <2>1
  <2> HIDE DEF r, p
  <2> QED
    BY <1>1, <1>2, <2>1, <2>2
<1>5. 1 + r \in 1 .. p
  BY <1>1, <1>2
<1>6. (CHOOSE t \in 1 .. p : (t - 1) % p = r) = 1 + r
  BY <1>4, <1>5
<1> QED
  BY <1>6 DEF Route, Old, GetTftIdx

LEMMA RulesForm == RulesOK <=> RulesWhereIndexed
BY DEF RulesOK, RuleOK, RulesWhereIndexed, Stale

LEMMA InitInv == Init => Inv
<1> SUFFICES ASSUME Init PROVE Inv
  OBVIOUS
<1>1. level \in Level /\ table = level
  BY ConstAssumption DEF Init, Level
<1>2. \A b \in Bearer : GetTftIdx(b, level) \in Tft
  BY <1>1, TftIdx
<1>3. idx \in [Bearer -> Tft] /\ \A b \in Bearer : idx[b] = GetTftIdx(b, level)
  BY <1>2 DEF Init
<1>4. TypeOK
  <2>1. rules \in [Tft -> SUBSET Bearer]
    BY ConstAssumption DEF Init
  <2>2. Sec \in Nat /\ TftTimeout \in Nat
    BY Delays
  <2> QED
    BY <1>1, <1>3, <2>1, <2>2 DEF TypeOK, Init
<1>5. Installed
  BY DEF Installed, Init
<1>6. RulesOK
  <2>1. \A b \in Bearer, s \in Tft : b \in rules[s] <=> gwInst[b] /\ s = idx[b]
    BY ConstAssumption DEF Init
  <2>2. deletes = {}
    BY DEF Init
  <2> QED
    BY <1>3, <2>1, <2>2 DEF RulesOK, RuleOK, Stale
<1>7. MovesOK /\ RedirectOK /\ DeletesOK /\ OldServed
  BY <1>1, <1>3 DEF MovesOK, RedirectOK, DeletesOK, OldServed, Home, Init
<1> QED
  BY <1>4, <1>5, <1>6, <1>7 DEF Inv

(***************************************************************************)
(* At the end of a round nothing but deletions that are due is left of it,    *)
(* and every bearer is at home.                                              *)
(***************************************************************************)
LEMMA RoundEnd ==
    ASSUME Inv, balance = 0
    PROVE  /\ moves = {} /\ redirect = {} /\ table = level
           /\ \A b \in Bearer : idx[b] = Home(b)
           /\ \A d \in deletes : d.left = 0
<1> USE Delays
<1>1. \A m \in moves : FALSE
  <2> SUFFICES ASSUME NEW m \in moves PROVE FALSE
    OBVIOUS
  <2>1. m.left \in Nat
    BY DEF Inv, TypeOK, Rand
  <2> QED
    BY <2>1 DEF Inv, MovesOK
<1>2. \A r \in redirect : FALSE
  <2> SUFFICES ASSUME NEW r \in redirect PROVE FALSE
    OBVIOUS
  <2>1. r.left \in Nat
    BY DEF Inv, TypeOK
  <2> QED
    BY <2>1 DEF Inv, RedirectOK
<1>3. ASSUME NEW d \in deletes
      PROVE  d.left = 0
  <2>1. d.left \in Nat
    BY DEF Inv, TypeOK
  <2> QED
    BY <2>1 DEF Inv, DeletesOK
<1> QED
  BY <1>1, <1>2, <1>3 DEF Inv, MovesOK, RedirectOK

LEMMA LoadBalancingInv ==
    ASSUME NEW cpu \in CpuUses, NEW delay \in [Bearer -> 0 .. Ticks(250)], Inv,
           PgwTftLoadBalancing(cpu, delay)
    PROVE  Inv'
<1> USE Delays
<1> DEFINE n == level'
           away == {x \in Moving(n) : gwInst[x]}
           Move(b) == [left |-> delay[b], b |-> b, src |-> idx[b], dst |-> GetTftIdx(b, n)]
<1>1. TypeOK /\ balance = 0
  BY DEF Inv, PgwTftLoadBalancing
<1>2. n \in Level
  BY <1>1, ConstAssumption DEF PgwTftLoadBalancing, NextLevel, TypeOK, Level
<1>3. /\ idx' = [b \in Bearer |->
                     IF b \in Moving(n) /\ ~gwInst[b] THEN GetTftIdx(b, n) ELSE idx[b]]
      /\ moves' = moves \cup {Move(b) : b \in away}
      /\ redirect' = IF n = level THEN redirect
                     ELSE redirect \cup {[left |-> RedirectDelay, level |-> n]}
      /\ balance' = TftTimeout
      /\ UNCHANGED <<table, rules, deletes, gwInst, st, life>>
  BY DEF PgwTftLoadBalancing, apps
<1>4. /\ moves = {} /\ redirect = {} /\ table = level
      /\ \A b \in Bearer : idx[b] = GetTftIdx(b, level)
      /\ \A d \in deletes : d.left = 0
  BY <1>1, RoundEnd DEF Home
<1>5. \A b \in Bearer : GetTftIdx(b, n) \in Tft
  BY <1>2, TftIdx
<1>6. ASSUME NEW b \in Bearer
      PROVE  b \in away <=> (gwInst[b] /\ n # level /\ GetTftIdx(b, n) # idx[b])
  BY DEF Moving
<1>7. ASSUME NEW b \in away
      PROVE  /\ b \in Bearer /\ gwInst[b] /\ Move(b).b = b /\ idx'[b] = idx[b]
             /\ Move(b) \in [left : 0 .. Ticks(250), b : Bearer, src : Tft, dst : Tft]
  <2>1. b \in Bearer /\ gwInst[b]
    BY <1>7 DEF Moving
  <2>2. delay[b] \in 0 .. Ticks(250) /\ idx[b] \in Tft /\ GetTftIdx(b, n) \in Tft
    BY <1>1, <1>5, <2>1 DEF TypeOK
  <2> QED
    BY <1>3, <2>1, <2>2
<1>8. TypeOK'
  <2>1. idx' \in [Bearer -> Tft]
    BY <1>1, <1>3, <1>5 DEF TypeOK
  <2>2. moves' \subseteq [left : 0 .. Ticks(250), b : Bearer, src : Tft, dst : Tft]
    BY <1>3, <1>4, <1>7
  <2>3. redirect' \subseteq [left : 0 .. RedirectDelay, level : Level]
    BY <1>2, <1>3, <1>4
  <2>4. balance' \in 0 .. TftTimeout
    BY <1>3
  <2> QED
    BY <1>1, <1>2, <1>3, <2>1, <2>2, <2>3, <2>4 DEF TypeOK
<1>9. Installed'
  BY <1>3 DEF Inv, Installed
<1>10. DeletesOK'
  BY <1>1, <1>3, <1>4 DEF Inv, DeletesOK
<1>11. RulesOK'
  <2>1. ASSUME NEW b \in Bearer
        PROVE  Stale(b, idx[b])' = Stale(b, idx'[b]) /\ \A s : Stale(b, s)' = Stale(b, s)
    BY <1>3 DEF Stale
  <2>2. ASSUME NEW b \in Bearer, gwInst[b]
        PROVE  idx'[b] = idx[b]
    BY <1>3, <2>2
  <2> QED
    BY <1>3, <2>2 DEF Inv, RulesOK, RuleOK, Stale
<1>12. MovesOK'
  <2>1. ASSUME NEW m \in moves'
        PROVE  \E b \in away : m = Move(b)
    BY <1>3, <1>4
  <2>2. ASSUME NEW b \in away
        PROVE  /\ Move(b).src = idx'[b] /\ Move(b).dst = GetTftIdx(b, n)
               /\ Move(b).src # Move(b).dst
               /\ Move(b).left + TftTimeout <= balance' + Rand
    <3>1. delay[b] \in 0 .. Rand
      BY <1>7 DEF Rand
    <3> QED
      BY <1>3, <1>6, <1>7, <3>1
  <2>3. ASSUME NEW b \in Bearer
        PROVE  idx'[b] = GetTftIdx(b, n) \/ \E m \in moves' : m.b = b
    <3>1. CASE b \in away
      <4>1. Move(b) \in moves' /\ Move(b).b = b
        BY <1>3, <3>1
      <4> HIDE DEF Move
      <4> QED
        BY <4>1
    <3>2. CASE b \notin away
      BY <1>3, <1>4, <1>6, <3>2 DEF Moving
    <3> QED
      BY <3>1, <3>2
  <2> QED
    BY <1>7, <2>1, <2>2, <2>3 DEF MovesOK, Home
<1>13. RedirectOK'
  <2>1. CASE n = level
    <3>1. away = {}
      BY <2>1 DEF Moving
    <3>2. moves' = {} /\ redirect' = {} /\ table' = level'
      BY <1>3, <1>4, <2>1, <3>1
    <3> QED
      BY <3>2 DEF RedirectOK
  <2>2. CASE n # level
    <3> DEFINE R == [left |-> RedirectDelay, level |-> n]
    <3>1. redirect' = {R} /\ R.left = RedirectDelay /\ R.level = level'
      BY <1>3, <1>4, <2>2
    <3>2. balance' = TftTimeout
      BY <1>3
    <3> HIDE DEF R
    <3>3. \A r \in redirect' : r = R
      BY <3>1
    <3>4. redirect' # {}
      BY <3>1
    <3>5. R.left + TftTimeout = balance' + RedirectDelay
      BY <3>1, <3>2
    <3> QED
      BY <3>1, <3>3, <3>4, <3>5 DEF RedirectOK
  <2> QED
    BY <2>1, <2>2
<1>14. OldServed'
  <2>1. ASSUME NEW b \in Bearer, gwInst[b]
        PROVE  idx'[b] = Old(b)'
    BY <1>3, <1>4, <2>1 DEF Old
  <2> QED
    BY <1>3, <2>1 DEF Inv, OldServed, Installed
<1> QED
  BY <1>8, <1>9, <1>10, <1>11, <1>12, <1>13, <1>14 DEF Inv

LEMMA MoveInv ==
    ASSUME NEW m \in moves, Inv, PgwRulesMove(m)
    PROVE  Inv'
<1> USE Delays
<1> DEFINE b == m.b
           del == [left |-> DeleteDelay, b |-> m.b, tft |-> m.src]
<1>1. /\ TypeOK /\ m.left = 0 /\ b \in Bearer /\ m.src \in Tft /\ m.dst \in Tft
      /\ level \in Level /\ balance \in 0 .. TftTimeout
  BY DEF Inv, TypeOK, PgwRulesMove
<1>2. /\ m.src = idx[b] /\ m.dst = Home(b) /\ m.src # m.dst
      /\ TftTimeout <= balance + Rand
      /\ \A k \in moves \ {m} : k.b # b
  BY <1>1 DEF Inv, MovesOK
<1>3. /\ moves' = moves \ {m}
      /\ idx' = [idx EXCEPT ![b] = m.dst]
      /\ gwInst[b] => /\ rules' = [rules EXCEPT ![m.dst] = @ \cup {b}]
                      /\ deletes' = deletes \cup {del}
      /\ ~gwInst[b] => UNCHANGED <<rules, deletes>>
      /\ UNCHANGED <<level, table, redirect, gwInst, st, life, balance>>
  BY DEF PgwRulesMove, apps
<1>4. \A d \in deletes : d.b # b
  <2> SUFFICES ASSUME NEW d \in deletes, d.b = b PROVE FALSE
    OBVIOUS
  <2>1. d.left = 0
    BY DEF Inv, DeletesOK
  <2> QED
    BY <2>1 DEF PgwRulesMove, DeletesDone
<1>5. \A c \in Bearer \ {b} : idx'[c] = idx[c]
  BY <1>1, <1>3 DEF TypeOK
<1>6. idx'[b] = m.dst
  BY <1>1, <1>3 DEF TypeOK
<1>7. TypeOK'
  <2>1. idx' \in [Bearer -> Tft]
    BY <1>1, <1>3 DEF TypeOK
  <2>2. rules' \in [Tft -> SUBSET Bearer]
    BY <1>1, <1>3 DEF TypeOK
  <2>3. deletes' \subseteq [left : 0 .. DeleteDelay, b : Bearer, tft : Tft]
    <3>1. del \in [left : 0 .. DeleteDelay, b : Bearer, tft : Tft]
      BY <1>1
    <3> QED
      BY <1>1, <1>3, <3>1 DEF TypeOK
  <2> QED
    BY <1>1, <1>3, <2>1, <2>2, <2>3 DEF TypeOK
<1>8. Installed'
  BY <1>3 DEF Inv, Installed
<1>9. RulesOK'
  <2>1. ASSUME NEW c \in Bearer, c # b
        PROVE  /\ \A s : Stale(c, s)' <=> Stale(c, s)
               /\ \A s \in Tft : c \in rules'[s] <=> c \in rules[s]
    BY <1>1, <1>3, <2>1 DEF Stale, TypeOK
  <2>2. CASE gwInst[b]
    <3>1. \A s : Stale(b, s)' <=> s = m.src
      <4>1. del \in deletes' /\ del.b = b /\ del.tft = m.src
        BY <1>3, <2>2
      <4>2. \A d \in deletes' : d.b = b => d = del
        BY <1>3, <1>4, <2>2
      <4> HIDE DEF del
      <4> QED
        BY <4>1, <4>2 DEF Stale
    <3>2. \A s \in Tft : b \in rules'[s] <=> b \in rules[s] \/ s = m.dst
      BY <1>1, <1>3, <2>2 DEF TypeOK
    <3>3. \A s \in Tft : b \in rules[s] => s = m.src
      BY <1>1, <1>2, <1>4 DEF Inv, RulesOK, RuleOK, Stale
    <3>4. ASSUME NEW c \in Bearer, c # b
          PROVE  RuleOK(c)'
      <4>1. idx'[c] = idx[c] /\ idx[c] \in Tft
        BY <1>1, <1>5, <3>4 DEF TypeOK
      <4>2. Stale(c, idx[c])' <=> Stale(c, idx[c])
        BY <1>3, <2>2, <3>4, <4>1 DEF Stale
      <4>3. RuleOK(c)
        BY DEF Inv, RulesOK
      <4> QED
        BY <1>3, <2>1, <3>4, <4>1, <4>2, <4>3 DEF RuleOK
    <3>5. RuleOK(b)'
      <4>1. ~Stale(b, idx[b])'
        BY <1>2, <1>3, <1>4, <1>6, <2>2 DEF Stale
      <4>2. b \in rules'[idx'[b]]
        BY <1>1, <1>6, <3>2
      <4>3. ASSUME NEW t \in Tft, b \in rules'[t]
            PROVE  t = idx'[b] \/ Stale(b, t)'
        BY <1>2, <1>6, <3>1, <3>2, <3>3, <4>3
      <4> HIDE DEF b
      <4> QED
        BY <1>3, <2>2, <4>1, <4>2, <4>3 DEF RuleOK, Stale
    <3> QED
      BY <3>4, <3>5 DEF RulesOK
  <2>3. CASE ~gwInst[b]
    <3>1. rules' = rules /\ \A c \in Bearer, s \in Tft : Stale(c, s)' <=> Stale(c, s)
      BY <1>3, <2>3 DEF Stale
    <3>2. \A c \in Bearer : gwInst[c] => idx'[c] = idx[c]
      BY <1>5, <2>3
    <3>3. \A c \in Bearer : idx[c] \in Tft
      BY <1>1 DEF TypeOK
    <3> QED
      BY <1>3, <3>1, <3>2, <3>3 DEF Inv, RulesOK, RuleOK
  <2> QED
    BY <2>2, <2>3
<1>10. MovesOK'
  <2>1. ASSUME NEW k \in moves'
        PROVE  k \in moves /\ k.b \in Bearer /\ k.b # b /\ k.src = idx'[k.b]
    BY <1>1, <1>2, <1>3, <1>5 DEF Inv, MovesOK, TypeOK
  <2>2. ASSUME NEW c \in Bearer
        PROVE  idx'[c] = Home(c) \/ \E k \in moves' : k.b = c
    BY <1>2, <1>3, <1>5, <1>6 DEF Inv, MovesOK
  <2> QED
    BY <1>3, <2>1, <2>2 DEF Inv, MovesOK, Home
<1>11. RedirectOK'
  BY <1>3 DEF Inv, RedirectOK
<1>12. DeletesOK'
  <2>1. ASSUME NEW d \in deletes'
        PROVE  d \in deletes \/ (gwInst[b] /\ d = del)
    BY <1>3
  <2>2. del.left = DeleteDelay /\ del.b = b
    OBVIOUS
  <2>3. \A k \in moves' : k \in moves /\ k.b # b
    BY <1>2, <1>3
  <2> QED
    BY <1>1, <1>2, <1>3, <2>1, <2>2, <2>3 DEF Inv, DeletesOK
<1>13. OldServed'
  <2> SUFFICES ASSUME NEW r \in redirect, NEW c \in Bearer
               PROVE  \/ idx'[c] = Old(c)
                      \/ /\ c \in rules'[Old(c)]
                         /\ \A d \in deletes' : (d.b = c /\ d.tft = Old(c)) => d.left > r.left
                      \/ st[c] = "waiting" /\ life[c] > r.left
                      \/ st[c] \in {"idle", "stopped"}
    BY <1>3 DEF OldServed, Old
  <2>1. Old(c) \in Tft
    BY <1>1, TftIdx DEF Old, TypeOK
  <2>2. CASE c # b
    <3>1. c \in rules'[Old(c)] <=> c \in rules[Old(c)]
      BY <1>1, <1>3, <2>1, <2>2 DEF TypeOK
    <3>2. \A d \in deletes' : d.b = c => d \in deletes
      BY <1>3, <2>2
    <3> QED
      BY <1>5, <2>2, <3>1, <3>2 DEF Inv, OldServed
  <2>3. CASE c = b /\ gwInst[b] /\ idx[b] = Old(b)
    <3>1. b \in rules[m.src]
      BY <1>1, <1>2, <2>3 DEF Inv, RulesOK, RuleOK
    <3>2. b \in rules'[m.src]
      BY <1>1, <1>2, <1>3, <2>3, <3>1 DEF TypeOK
    <3>3. r.left \in Nat /\ r.left < DeleteDelay
      BY <1>1 DEF TypeOK
    <3>4. \A d \in deletes' : d.b = b => d.left > r.left
      BY <1>3, <1>4, <2>3, <3>3
    <3> QED
      BY <1>2, <2>3, <3>2, <3>4
  <2>4. CASE c = b /\ gwInst[b] /\ idx[b] # Old(b)
    <3>1. b \in rules[Old(b)] => FALSE
      BY <1>1, <1>4, <2>1, <2>4 DEF Inv, RulesOK, RuleOK, Stale
    <3> QED
      BY <2>4, <3>1 DEF Inv, OldServed
  <2>5. CASE c = b /\ ~gwInst[b]
    BY <1>1, <2>5 DEF Inv, Installed
  <2> QED
    BY <2>2, <2>3, <2>4, <2>5
<1> QED
  BY <1>7, <1>8, <1>9, <1>10, <1>11, <1>12, <1>13 DEF Inv

LEMMA DeleteInv ==
    ASSUME NEW d \in deletes, Inv, DeleteRules(d)
    PROVE  Inv'
<1> DEFINE b == d.b
<1>1. TypeOK /\ d.left = 0 /\ b \in Bearer /\ d.tft \in Tft
  BY DEF Inv, TypeOK, DeleteRules
<1>2. /\ deletes' = deletes \ {d}
      /\ rules' = [rules EXCEPT ![d.tft] = @ \ {b}]
      /\ UNCHANGED <<level, table, idx, moves, redirect, gwInst, st, life, balance>>
  BY DEF DeleteRules, apps
<1>3. rules' \in [Tft -> SUBSET Bearer]
  BY <1>1, <1>2 DEF TypeOK
<1>4. \A c \in Bearer, s \in Tft : c \in rules'[s] <=> c \in rules[s] /\ ~(c = b /\ s = d.tft)
  BY <1>1, <1>2 DEF TypeOK
<1>5. TypeOK' /\ Installed' /\ MovesOK' /\ RedirectOK' /\ DeletesOK'
  <2>1. TypeOK'
    BY <1>1, <1>2, <1>3 DEF TypeOK
  <2>2. Installed' /\ MovesOK' /\ RedirectOK' /\ DeletesOK'
    BY <1>2 DEF Inv, Installed, MovesOK, Home, RedirectOK, DeletesOK
  <2> QED
    BY <2>1, <2>2
<1>6. RulesOK'
  <2> SUFFICES ASSUME NEW c \in Bearer PROVE RuleOK(c)'
    BY DEF RulesOK
  <2>1. RuleOK(c) /\ idx[c] \in Tft
    BY <1>1 DEF Inv, RulesOK, TypeOK
  <2>2. ASSUME NEW s, Stale(c, s), ~(c = b /\ s = d.tft)
        PROVE  Stale(c, s)'
    BY <1>2, <2>2 DEF Stale
  <2>3. ASSUME NEW s, ~Stale(c, s)
        PROVE  ~Stale(c, s)' /\ ~(c = b /\ s = d.tft)
    BY <1>2, <2>3 DEF Stale
  <2> HIDE DEF b
  <2>4. gwInst[c] => c \in rules'[idx[c]] /\ ~Stale(c, idx[c])'
    BY <1>2, <1>4, <2>1, <2>3 DEF RuleOK, Stale
  <2>5. \A s \in Tft : c \in rules'[s] => (gwInst[c] /\ s = idx[c]) \/ Stale(c, s)'
    BY <1>4, <2>1, <2>2 DEF RuleOK
  <2> QED
    BY <1>2, <2>4, <2>5 DEF RuleOK, Stale
<1>7. OldServed'
  <2> SUFFICES ASSUME NEW r \in redirect, NEW c \in Bearer, c \in rules[Old(c)],
                      \A e \in deletes : (e.b = c /\ e.tft = Old(c)) => e.left > r.left
               PROVE  c \in rules'[Old(c)]
    BY <1>2 DEF Inv, OldServed, Old
  <2>1. Old(c) \in Tft /\ r.left \in Nat
    BY <1>1, TftIdx DEF Old, TypeOK
  <2> QED
    BY <1>1, <1>4, <2>1
<1> QED
  BY <1>5, <1>6, <1>7 DEF Inv

(***************************************************************************)
(* The redirection comes when all moves are done, and there is but one.       *)
(***************************************************************************)
LEMMA RedirectInv ==
    ASSUME NEW r \in redirect, Inv, Redirect(r)
    PROVE  Inv'
<1> USE Delays
<1>1. TypeOK /\ r.left = 0 /\ r.level = level /\ TftTimeout = balance + RedirectDelay
  BY DEF Inv, RedirectOK, Redirect
<1>2. /\ redirect' = redirect \ {r} /\ table' = level
      /\ UNCHANGED <<level, idx, rules, moves, deletes, gwInst, st, life, balance>>
  BY <1>1 DEF Redirect, apps
<1>3. ASSUME NEW q \in redirect
      PROVE  q = r
  <2>1. q.left = 0 /\ q.level = r.level
    <3>1. q.left \in Nat /\ q.left + TftTimeout = balance + RedirectDelay /\ q.level = level
      BY <1>1 DEF Inv, RedirectOK, TypeOK
    <3> QED
      BY <1>1, <3>1
  <2>2. /\ q \in [left : 0 .. RedirectDelay, level : Level]
        /\ r \in [left : 0 .. RedirectDelay, level : Level]
    BY <1>1 DEF TypeOK
  <2> QED
    BY <1>1, <2>1, <2>2
<1>4. \A m \in moves : FALSE
  <2> SUFFICES ASSUME NEW m \in moves PROVE FALSE
    OBVIOUS
  <2>1. m.left \in Nat /\ m.left + TftTimeout <= balance + Rand /\ balance \in Nat
    BY <1>1 DEF Inv, MovesOK, TypeOK, Rand
  <2> QED
    BY <1>1, <2>1
<1>5. redirect' = {} /\ moves' = {}
  BY <1>2, <1>3, <1>4
<1>6. TypeOK'
  BY <1>1, <1>2, <1>5 DEF TypeOK
<1>7. Installed' /\ MovesOK' /\ DeletesOK'
  BY <1>2 DEF Inv, Installed, MovesOK, Home, DeletesOK
<1>8. RulesOK'
  BY <1>2 DEF Inv, RulesOK, RuleOK, Stale
<1>9. RedirectOK' /\ OldServed'
  BY <1>2, <1>5 DEF RedirectOK, OldServed
<1> QED
  BY <1>6, <1>7, <1>8, <1>9 DEF Inv

(***************************************************************************)
(* What the requests and the releases of bearers do to the other bearers.      *)
(***************************************************************************)
LEMMA RequestInv ==
    ASSUME NEW b \in Bearer, NEW cpu \in CpuUses, Inv, Request(b, cpu)
    PROVE  Inv'
<1> USE Delays
<1>1. TypeOK /\ st[b] = "idle" /\ life[b] = 0 /\ ~gwInst[b] /\ idx[b] \in Tft
  BY DEF Inv, Installed, Request, TypeOK
<1>2. /\ gwInst' = [gwInst EXCEPT ![b] = TRUE]
      /\ rules' = [rules EXCEPT ![idx[b]] = @ \cup {b}]
      /\ st' = [st EXCEPT ![b] = "waiting"] /\ life' = [life EXCEPT ![b] = Sec]
      /\ UNCHANGED <<level, table, idx, moves, deletes, redirect, balance>>
  BY DEF Request, Become
<1>3. \A d \in deletes : d.b # b
  <2> SUFFICES ASSUME NEW d \in deletes, d.b = b PROVE FALSE
    OBVIOUS
  <2>1. d.left \in Nat
    BY <1>1 DEF TypeOK
  <2> QED
    BY <1>1, <2>1 DEF Inv, DeletesOK
<1>4. TypeOK'
  <2>1. rules' \in [Tft -> SUBSET Bearer] /\ gwInst' \in [Bearer -> BOOLEAN]
    BY <1>1, <1>2 DEF TypeOK
  <2>2. /\ st' \in [Bearer -> {"idle", "waiting", "traffic", "stopped"}]
        /\ life' \in [Bearer -> 0 .. Sec]
    BY <1>1, <1>2 DEF TypeOK
  <2> QED
    BY <1>1, <1>2, <2>1, <2>2 DEF TypeOK
<1>5. Installed'
  BY <1>1, <1>2 DEF Inv, Installed, TypeOK
<1>6. MovesOK' /\ RedirectOK'
  BY <1>2 DEF Inv, MovesOK, Home, RedirectOK
<1>7. DeletesOK'
  <2>1. \A d \in deletes : d.b \in Bearer /\ gwInst'[d.b] = gwInst[d.b] /\ life'[d.b] = life[d.b]
    BY <1>1, <1>2, <1>3 DEF TypeOK
  <2> QED
    BY <1>2, <2>1 DEF Inv, DeletesOK
<1>8. RulesOK'
  <2>1. \A c \in Bearer, s \in Tft : c \in rules'[s] <=> c \in rules[s] \/ (c = b /\ s = idx[b])
    BY <1>1, <1>2 DEF TypeOK
  <2>2. ASSUME NEW c \in Bearer, c # b
        PROVE  RuleOK(c)'
    <3>1. RuleOK(c) /\ gwInst'[c] = gwInst[c] /\ idx[c] \in Tft
      BY <1>1, <1>2, <2>2 DEF Inv, RulesOK, TypeOK
    <3> QED
      BY <1>2, <2>1, <2>2, <3>1 DEF RuleOK, Stale
  <2>3. RuleOK(b)'
    <3>1. RuleOK(b)
      BY DEF Inv, RulesOK
    <3>2. \A s \in Tft : b \notin rules[s]
      BY <1>1, <1>3, <3>1 DEF RuleOK, Stale
    <3>3. gwInst'[b]
      BY <1>1, <1>2 DEF TypeOK
    <3> QED
      BY <1>1, <1>2, <1>3, <2>1, <3>2, <3>3 DEF RuleOK, Stale
  <2> QED
    BY <2>2, <2>3 DEF RulesOK
<1>9. OldServed'
  <2> SUFFICES ASSUME NEW r \in redirect, NEW c \in Bearer
               PROVE  \/ idx[c] = Old(c)
                      \/ /\ c \in rules'[Old(c)]
                         /\ \A d \in deletes : (d.b = c /\ d.tft = Old(c)) => d.left > r.left
                      \/ st'[c] = "waiting" /\ life'[c] > r.left
                      \/ st'[c] \in {"idle", "stopped"}
    BY <1>2 DEF OldServed, Old
  <2>1. CASE c = b
    <3>1. r.left \in 0 .. RedirectDelay
      BY <1>1 DEF TypeOK
    <3>2. st'[b] = "waiting" /\ life'[b] = Sec
      BY <1>1, <1>2 DEF TypeOK
    <3> QED
      BY <2>1, <3>1, <3>2
  <2>2. CASE c # b
    <3>1. st'[c] = st[c] /\ life'[c] = life[c] /\ Old(c) \in Tft
      BY <1>1, <1>2, <2>2, TftIdx DEF TypeOK, Old
    <3>2. c \in rules[Old(c)] => c \in rules'[Old(c)]
      BY <1>1, <1>2, <3>1 DEF TypeOK
    <3> QED
      BY <3>1, <3>2 DEF Inv, OldServed
  <2> QED
    BY <2>1, <2>2
<1> QED
  BY <1>4, <1>5, <1>6, <1>7, <1>8, <1>9 DEF Inv

LEMMA ReleaseInv ==
    ASSUME NEW b \in Bearer, Inv, Release(b)
    PROVE  Inv'
<1> USE Delays
<1>1. TypeOK /\ st[b] = "stopped" /\ life[b] = 0 /\ gwInst[b] /\ idx[b] \in Tft
  BY DEF Inv, Installed, Release, TypeOK
<1>2. /\ gwInst' = [gwInst EXCEPT ![b] = FALSE]
      /\ rules' = [rules EXCEPT ![idx[b]] = @ \ {b}]
      /\ st' = [st EXCEPT ![b] = "idle"] /\ life' = [life EXCEPT ![b] = Sec]
      /\ UNCHANGED <<level, table, idx, moves, deletes, redirect, balance>>
  BY DEF Release, Become
<1>3. TypeOK'
  <2>1. rules' \in [Tft -> SUBSET Bearer] /\ gwInst' \in [Bearer -> BOOLEAN]
    BY <1>1, <1>2 DEF TypeOK
  <2>2. /\ st' \in [Bearer -> {"idle", "waiting", "traffic", "stopped"}]
        /\ life' \in [Bearer -> 0 .. Sec]
    BY <1>1, <1>2 DEF TypeOK
  <2> QED
    BY <1>1, <1>2, <2>1, <2>2 DEF TypeOK
<1>4. Installed'
  BY <1>1, <1>2 DEF Inv, Installed, TypeOK
<1>5. MovesOK' /\ RedirectOK'
  BY <1>2 DEF Inv, MovesOK, Home, RedirectOK
<1>6. DeletesOK'
  <2> SUFFICES ASSUME NEW d \in deletes, ~gwInst'[d.b]
               PROVE  life'[d.b] > d.left
    BY <1>2 DEF Inv, DeletesOK
  <2>1. d.b \in Bearer /\ d.left \in 0 .. DeleteDelay
    BY <1>1 DEF TypeOK
  <2>2. CASE d.b = b
    BY <1>1, <1>2, <2>1, <2>2 DEF TypeOK
  <2>3. CASE d.b # b
    <3>1. gwInst'[d.b] = gwInst[d.b] /\ life'[d.b] = life[d.b]
      BY <1>1, <1>2, <2>1, <2>3 DEF TypeOK
    <3> QED
      BY <3>1 DEF Inv, DeletesOK
  <2> QED
    BY <2>2, <2>3
<1>7. \A c \in Bearer, s \in Tft : c \in rules'[s] <=> c \in rules[s] /\ ~(c = b /\ s = idx[b])
  BY <1>1, <1>2 DEF TypeOK
<1>8. RulesOK'
  <2>1. ASSUME NEW c \in Bearer, c # b
        PROVE  RuleOK(c)'
    <3>1. RuleOK(c) /\ gwInst'[c] = gwInst[c] /\ idx[c] \in Tft
      BY <1>1, <1>2, <2>1 DEF Inv, RulesOK, TypeOK
    <3> QED
      BY <1>2, <1>7, <2>1, <3>1 DEF RuleOK, Stale
  <2>2. RuleOK(b)'
    <3>1. RuleOK(b) /\ ~gwInst'[b]
      BY <1>1, <1>2 DEF Inv, RulesOK, TypeOK
    <3> QED
      BY <1>2, <1>7, <3>1 DEF RuleOK, Stale
  <2> QED
    BY <2>1, <2>2 DEF RulesOK
<1>9. OldServed'
  <2> SUFFICES ASSUME NEW r \in redirect, NEW c \in Bearer
               PROVE  \/ idx[c] = Old(c)
                      \/ /\ c \in rules'[Old(c)]
                         /\ \A d \in deletes : (d.b = c /\ d.tft = Old(c)) => d.left > r.left
                      \/ st'[c] = "waiting" /\ life'[c] > r.left
                      \/ st'[c] \in {"idle", "stopped"}
    BY <1>2 DEF OldServed, Old
  <2>1. CASE c = b
    BY <1>1, <1>2, <2>1 DEF TypeOK
  <2>2. CASE c # b
    <3>1. st'[c] = st[c] /\ life'[c] = life[c] /\ Old(c) \in Tft
      BY <1>1, <1>2, <2>2, TftIdx DEF TypeOK, Old
    <3> QED
      BY <1>7, <2>2, <3>1 DEF Inv, OldServed
  <2> QED
    BY <2>1, <2>2
<1> QED
  BY <1>3, <1>4, <1>5, <1>6, <1>8, <1>9 DEF Inv

(***************************************************************************)
(* The start and the stop of the traffic touch no rule.                        *)
(***************************************************************************)
LEMMA StartStopInv ==
    ASSUME NEW b \in Bearer, Inv, Start(b) \/ Stop(b)
    PROVE  Inv'
<1> USE Delays
<1>1. TypeOK /\ gwInst[b]
  BY DEF Inv, Installed, Start, Stop
<1>2. PICK s \in {"traffic", "stopped"}, n \in {0, Sec} :
          st' = [st EXCEPT ![b] = s] /\ life' = [life EXCEPT ![b] = n]
  BY DEF Start, Stop, Become
<1>3. UNCHANGED <<level, table, idx, gwInst, rules, moves, deletes, redirect, balance>>
  BY DEF Start, Stop
<1>4. TypeOK'
  <2>1. /\ st' \in [Bearer -> {"idle", "waiting", "traffic", "stopped"}]
        /\ life' \in [Bearer -> 0 .. Sec]
    BY <1>1, <1>2 DEF TypeOK
  <2> QED
    BY <1>1, <1>3, <2>1 DEF TypeOK
<1>5. Installed'
  BY <1>1, <1>2, <1>3 DEF Inv, Installed, TypeOK
<1>6. MovesOK' /\ RedirectOK'
  BY <1>3 DEF Inv, MovesOK, Home, RedirectOK
<1>7. RulesOK'
  BY <1>3 DEF Inv, RulesOK, RuleOK, Stale
<1>8. DeletesOK'
  <2>1. \A c \in Bearer : ~gwInst[c] => life'[c] = life[c]
    BY <1>1, <1>2 DEF TypeOK
  <2>2. \A d \in deletes : d.b \in Bearer
    BY <1>1 DEF TypeOK
  <2> QED
    BY <1>3, <2>1, <2>2 DEF Inv, DeletesOK
<1>9. OldServed'
  <2> SUFFICES ASSUME NEW r \in redirect, NEW c \in Bearer
               PROVE  \/ idx[c] = Old(c)
                      \/ /\ c \in rules[Old(c)]
                         /\ \A d \in deletes : (d.b = c /\ d.tft = Old(c)) => d.left > r.left
                      \/ st'[c] = "waiting" /\ life'[c] > r.left
                      \/ st'[c] \in {"idle", "stopped"}
    BY <1>3 DEF OldServed, Old
  <2>1. CASE c # b
    <3>1. st'[c] = st[c] /\ life'[c] = life[c]
      BY <1>1, <1>2, <2>1 DEF TypeOK
    <3> QED
      BY <3>1 DEF Inv, OldServed
  <2>2. CASE c = b
    <3>1. r.left \in Nat
      BY <1>1 DEF TypeOK
    <3>2. \/ st[b] = "waiting" /\ life[b] = 0
          \/ st'[b] = "stopped"
      BY <1>1 DEF Start, Stop, Become, TypeOK
    <3>3. ~(st[b] = "waiting" /\ life[b] > r.left) \/ st'[b] = "stopped"
      BY <3>1, <3>2
    <3>4. st[b] \notin {"idle", "stopped"}
      BY DEF Start, Stop
    <3> QED
      BY <2>2, <3>3, <3>4 DEF Inv, OldServed
  <2> QED
    BY <2>1, <2>2
<1> QED
  BY <1>4, <1>5, <1>6, <1>7, <1>8, <1>9 DEF Inv

(***************************************************************************)
(* Time shortens every delay and the round alike.                             *)
(***************************************************************************)
LEMMA TickInv ==
    ASSUME Inv, Tick
    PROVE  Inv'
<1> USE Delays
<1> DEFINE Less(x) == [x EXCEPT !.left = @ - 1]
<1>1. /\ TypeOK /\ balance > 0
      /\ \A x \in moves \cup deletes \cup redirect : x.left > 0
      /\ \A b \in Bearer : st[b] \in {"waiting", "stopped"} => life[b] > 0
  BY DEF Inv, Tick
<1>2. /\ moves' = {Less(x) : x \in moves} /\ deletes' = {Less(x) : x \in deletes}
      /\ redirect' = {Less(x) : x \in redirect}
  BY DEF Tick, Sooner
<1>3. /\ life' = [b \in Bearer |-> IF life[b] > 0 THEN life[b] - 1 ELSE 0]
      /\ balance' = balance - 1
      /\ UNCHANGED <<level, table, idx, gwInst, rules, st>>
  BY DEF Tick
<1>4. ASSUME NEW m \in moves
      PROVE  /\ Less(m) \in [left : 0 .. Rand, b : Bearer, src : Tft, dst : Tft]
             /\ Less(m).left = m.left - 1 /\ Less(m).b = m.b
             /\ Less(m).src = m.src /\ Less(m).dst = m.dst
  <2>1. m \in [left : 0 .. Rand, b : Bearer, src : Tft, dst : Tft] /\ m.left > 0
    BY <1>1 DEF TypeOK, Rand
  <2> QED
    BY <2>1
<1>5. ASSUME NEW d \in deletes
      PROVE  /\ Less(d) \in [left : 0 .. DeleteDelay, b : Bearer, tft : Tft]
             /\ Less(d).left = d.left - 1 /\ Less(d).b = d.b /\ Less(d).tft = d.tft
             /\ d.left \in Nat /\ d.left > 0 /\ d.b \in Bearer
  <2>1. d \in [left : 0 .. DeleteDelay, b : Bearer, tft : Tft] /\ d.left > 0
    BY <1>1 DEF TypeOK
  <2> QED
    BY <2>1
<1>6. ASSUME NEW r \in redirect
      PROVE  /\ Less(r) \in [left : 0 .. RedirectDelay, level : Level]
             /\ Less(r).left = r.left - 1 /\ Less(r).level = r.level
             /\ r.left \in Nat /\ r.left > 0
  <2>1. r \in [left : 0 .. RedirectDelay, level : Level] /\ r.left > 0
    BY <1>1 DEF TypeOK
  <2> QED
    BY <2>1
<1> HIDE DEF Less
<1>7. \A b \in Bearer : life[b] \in 0 .. Sec /\ (life[b] > 0 => life'[b] = life[b] - 1)
  BY <1>1, <1>3 DEF TypeOK
<1>8. TypeOK'
  <2>1. life' \in [Bearer -> 0 .. Sec]
    BY <1>3, <1>7
  <2>2. balance' \in 0 .. TftTimeout
    BY <1>1, <1>3 DEF TypeOK
  <2>3. moves' \subseteq [left : 0 .. Ticks(250), b : Bearer, src : Tft, dst : Tft]
    BY <1>2, <1>4 DEF Rand
  <2>4. deletes' \subseteq [left : 0 .. DeleteDelay, b : Bearer, tft : Tft]
    BY <1>2, <1>5
  <2>5. redirect' \subseteq [left : 0 .. RedirectDelay, level : Level]
    BY <1>2, <1>6
  <2> QED
    BY <1>1, <1>3, <2>1, <2>2, <2>3, <2>4, <2>5 DEF TypeOK
<1>9. Installed'
  BY <1>3 DEF Inv, Installed
<1>10. \A c, s : Stale(c, s)' <=> Stale(c, s)
  BY <1>2, <1>5 DEF Stale
<1>11. RulesOK'
  <2> SUFFICES ASSUME NEW c \in Bearer PROVE RuleOK(c)'
    BY DEF RulesOK
  <2>1. RuleOK(c)
    BY DEF Inv, RulesOK
  <2>2. Stale(c, idx[c])' <=> Stale(c, idx[c])
    BY <1>2, <1>3, <1>5 DEF Stale
  <2> QED
    BY <1>3, <1>10, <2>1, <2>2 DEF RuleOK
<1>12. balance \in Nat
  BY <1>1 DEF TypeOK
<1>13. MovesOK'
  <2>1. ASSUME NEW m \in moves
        PROVE  /\ Less(m).src = idx'[Less(m).b] /\ Less(m).dst = GetTftIdx(Less(m).b, level)
               /\ Less(m).src # Less(m).dst
               /\ Less(m).left + TftTimeout <= balance' + Rand
    <3>1. m.left \in Nat
      BY <1>1 DEF TypeOK, Rand
    <3> QED
      BY <1>3, <1>4, <1>12, <3>1 DEF Inv, MovesOK, Home
  <2>2. \A m, n \in moves : Less(m).b = Less(n).b => Less(m) = Less(n)
    BY <1>4 DEF Inv, MovesOK
  <2>3. \A b \in Bearer : idx[b] = GetTftIdx(b, level) \/ \E m \in moves : Less(m).b = b
    BY <1>4 DEF Inv, MovesOK, Home
  <2> QED
    BY <1>2, <1>3, <2>1, <2>2, <2>3 DEF MovesOK, Home
<1>14. RedirectOK'
  <2>1. ASSUME NEW r \in redirect
        PROVE  Less(r).level = level /\ Less(r).left + TftTimeout = balance' + RedirectDelay
    BY <1>3, <1>6, <1>12 DEF Inv, RedirectOK
  <2>2. redirect' = {} => redirect = {}
    BY <1>2
  <2>3. moves = {} => moves' = {}
    BY <1>2
  <2> QED
    BY <1>2, <1>3, <2>1, <2>2, <2>3 DEF Inv, RedirectOK
<1>15. DeletesOK'
  <2> SUFFICES ASSUME NEW d \in deletes
               PROVE  /\ Less(d).left + TftTimeout <= balance' + Rand + DeleteDelay
                      /\ \A m \in moves : Less(m).b = Less(d).b => Less(d).left = 0
                      /\ ~gwInst[Less(d).b] => life'[Less(d).b] > Less(d).left
    BY <1>2, <1>3 DEF DeletesOK
  <2>1. Less(d).left + TftTimeout <= balance' + Rand + DeleteDelay
    BY <1>3, <1>5, <1>12 DEF Inv, DeletesOK
  <2>2. \A m \in moves : m.b # d.b
    BY <1>5 DEF Inv, DeletesOK
  <2>3. ~gwInst[d.b] => life[d.b] > d.left
    BY DEF Inv, DeletesOK
  <2>4. life[d.b] > d.left => life'[d.b] > Less(d).left
    BY <1>5, <1>7
  <2> QED
    BY <1>4, <1>5, <2>1, <2>2, <2>3, <2>4
<1>16. OldServed'
  <2> SUFFICES ASSUME NEW r \in redirect, NEW b \in Bearer
               PROVE  \/ idx[b] = Old(b)
                      \/ /\ b \in rules[Old(b)]
                         /\ \A d \in deletes : (Less(d).b = b /\ Less(d).tft = Old(b))
                                                   => Less(d).left > Less(r).left
                      \/ st[b] = "waiting" /\ life'[b] > Less(r).left
                      \/ st[b] \in {"idle", "stopped"}
    BY <1>2, <1>3 DEF OldServed, Old
  <2>1. life[b] > r.left => life'[b] > Less(r).left
    BY <1>6, <1>7
  <2>2. \A d \in deletes : d.left > r.left => Less(d).left > Less(r).left
    BY <1>5, <1>6
  <2> QED
    BY <1>5, <2>1, <2>2 DEF Inv, OldServed
<1> QED
  BY <1>8, <1>9, <1>11, <1>13, <1>14, <1>15, <1>16 DEF Inv

LEMMA InvHolds == Spec => []Inv
<1>1. Inv /\ [Next]_vars => Inv'
  <2> SUFFICES ASSUME Inv, [Next]_vars PROVE Inv'
    OBVIOUS
  <2>1. ASSUME NEW cpu \in CpuUses, NEW delay \in [Bearer -> 0 .. Ticks(250)],
               PgwTftLoadBalancing(cpu, delay)
        PROVE  Inv'
    BY <2>1, LoadBalancingInv
  <2>2. ASSUME NEW m \in moves, PgwRulesMove(m) PROVE Inv'
    BY <2>2, MoveInv
  <2>3. ASSUME NEW d \in deletes, DeleteRules(d) PROVE Inv'
    BY <2>3, DeleteInv
  <2>4. ASSUME NEW r \in redirect, Redirect(r) PROVE Inv'
    BY <2>4, RedirectInv
  <2>5. ASSUME NEW b \in Bearer, NEW cpu \in CpuUses, Request(b, cpu) PROVE Inv'
    BY <2>5, RequestInv
  <2>6. ASSUME NEW b \in Bearer, Start(b) \/ Stop(b) PROVE Inv'
    BY <2>6, StartStopInv
  <2>7. ASSUME NEW b \in Bearer, Release(b) PROVE Inv'
    BY <2>7, ReleaseInv
  <2>8. CASE Tick
    BY <2>8, TickInv
  <2>9. CASE UNCHANGED vars
    BY <2>9 DEF vars, Inv, TypeOK, Installed, RulesOK, RuleOK, Stale, MovesOK, RedirectOK,
                DeletesOK, OldServed, Home, Old
  <2> QED
    BY <2>1, <2>2, <2>3, <2>4, <2>5, <2>6, <2>7, <2>8, <2>9 DEF Next
<1> QED
  BY InitInv, <1>1, PTL DEF Spec
------------------------------------------------------------------------------
(***************************************************************************)
(* Every variable of the P-GW keeps its range: at most the delays of the code  *)
(* are ahead of every event.                                                 *)
(***************************************************************************)
THEOREM TypeOKHolds == Spec => []TypeOK
<1>1. Inv => TypeOK
  BY DEF Inv
<1> QED
  BY InvHolds, <1>1, PTL

(***************************************************************************)
(* A bearer has its rule where its index says, and nowhere else once the       *)
(* deletions that PgwRulesMove scheduled are done.                            *)
(***************************************************************************)
THEOREM RulesWhereIndexedHolds == Spec => []RulesWhereIndexed
<1>1. Inv => RulesWhereIndexed
  BY RulesForm DEF Inv
<1> QED
  BY InvHolds, <1>1, PTL

(***************************************************************************)
(* The changes of one PgwTftLoadBalancing are over before the next.           *)
(***************************************************************************)
THEOREM SettledInTimeHolds == Spec => []SettledInTime
<1>1. Inv => SettledInTime
  BY RoundEnd DEF SettledInTime, Home
<1> QED
  BY InvHolds, <1>1, PTL

(***************************************************************************)
(* The main switch sends the traffic of a bearer to a TFT switch with its      *)
(* rule, before, during and after every change of the level.                 *)
(***************************************************************************)
THEOREM TrafficFindsRuleHolds == Spec => []TrafficFindsRule
<1>1. Inv => TrafficFindsRule
  <2> SUFFICES ASSUME Inv, NEW b \in Bearer, st[b] = "traffic"
               PROVE  b \in rules[Old(b)]
    BY RouteIsOld DEF TrafficFindsRule, Inv, TypeOK
  <2>1. gwInst[b]
    BY DEF Inv, Installed
  <2>2. b \in rules[idx[b]]
    BY <2>1 DEF Inv, RulesOK, RuleOK
  <2>3. CASE redirect = {}
    <3>1. moves = {} /\ table = level
      BY <2>3 DEF Inv, RedirectOK
    <3>2. idx[b] = Old(b)
      BY <3>1 DEF Inv, MovesOK, Home, Old
    <3> QED
      BY <2>2, <3>2
  <2>4. CASE redirect # {}
    BY <2>2, <2>4 DEF Inv, OldServed
  <2> QED
    BY <2>3, <2>4
<1> QED
  BY InvHolds, <1>1, PTL
------------------------------------------------------------------------------
(* The level is lowered only when every table is below the join threshold.     *)

(* The greatest of a bounded set of numbers: the one with the least above it.  *)
LEMMA Greatest ==
    ASSUME NEW n \in Nat, NEW S \in SUBSET (0 .. n), S # {}
    PROVE  \E u \in S : \A v \in S : v <= u
<1> DEFINE Above(u) == u + 1 .. n
           T == {Above(u) : u \in S}
           R == StrictSubsetOrdering(Nat)
<1>1. T \subseteq FiniteSubsetsOf(Nat) /\ T # {}
  <2>1. ASSUME NEW u \in S
        PROVE  Above(u) \in FiniteSubsetsOf(Nat)
    <3>1. IsFiniteSet(Above(u))
      BY FS_Interval, u + 1 \in Int, n \in Int
    <3>2. Above(u) \in SUBSET Nat
      OBVIOUS
    <3> QED
      BY <3>1, <3>2 DEF FiniteSubsetsOf
  <2> QED
    BY <2>1
<1>2. IsWellFoundedOn(R, FiniteSubsetsOf(Nat))
  BY FS_StrictSubsetOrderingWellFounded
<1>3. \A u, v \in S : u < v => <<Above(v), Above(u)>> \in R
  <2> SUFFICES ASSUME NEW u \in S, NEW v \in S, u < v
               PROVE  <<Above(v), Above(u)>> \in R
    OBVIOUS
  <2>1. Above(v) \subseteq Above(u) /\ v \in Above(u) /\ v \notin Above(v)
    OBVIOUS
  <2>2. Above(u) \in SUBSET Nat /\ Above(v) \in SUBSET Nat
    OBVIOUS
  <2> QED
    BY <2>1, <2>2 DEF StrictSubsetOrdering
<1> HIDE DEF R
<1>4. PICK X \in T : \A Y \in T : ~ (<<Y, X>> \in R)
  BY <1>1, <1>2, WFMin
<1>5. PICK u \in S : X = Above(u)
  BY <1>4
<1>6. \A v \in S : ~ (u < v)
  BY <1>3, <1>4, <1>5
<1> QED
  BY <1>6

LEMMA Quotient ==
    ASSUME NEW a \in Nat, NEW k \in Nat \ {0}
    PROVE  a \div k \in 0 .. a /\ a < k * (a \div k) + k
<1>1. a \div k \in Nat /\ k * (a \div k) <= a /\ a < k * (a \div k) + k
  OBVIOUS
<1>2. \A q \in Nat : q <= k * q
  OBVIOUS
<1> QED
  BY <1>1, <1>2

(* Each table is below a threshold that the greatest use is below.            *)
LEMMA TablesBelow ==
    ASSUME TypeOK, NEW ths \in Nat, NEW used, used = {TableUse(t) : t \in 1 .. 2 ^ level},
           (CHOOSE u \in used : \A v \in used : v <= u) < ths, NEW t \in 1 .. 2 ^ level
    PROVE  100 * Cardinality(rules[t]) < ths * TableSize
<1> DEFINE bound == 100 * Cardinality(Bearer)
<1>1. 2 ^ level \in 1 .. 2 ^ MaxLevel /\ TableSize \in Nat \ {0} /\ IsFiniteSet(Bearer)
      /\ 1 .. 2 ^ level \subseteq Tft
  BY PowerAssumption, ConstAssumption DEF TypeOK, Tft
<1>2. ASSUME NEW s \in 1 .. 2 ^ level
      PROVE  /\ Cardinality(rules[s]) \in Nat
             /\ TableUse(s) \in 0 .. bound
             /\ 100 * Cardinality(rules[s]) < TableSize * TableUse(s) + TableSize
  <2>1. rules[s] \subseteq Bearer
    BY <1>1, <1>2 DEF TypeOK
  <2>2. Cardinality(rules[s]) \in Nat /\ Cardinality(Bearer) \in Nat
        /\ Cardinality(rules[s]) <= Cardinality(Bearer)
    BY <1>1, <2>1, FS_Subset, FS_CardinalityType
  <2> DEFINE a == 100 * Cardinality(rules[s])
  <2>3. a \in Nat /\ a <= bound /\ bound \in Nat
    BY <2>2
  <2>4. a \div TableSize \in 0 .. a /\ a < TableSize * (a \div TableSize) + TableSize
    <3> HIDE DEF a
    <3> QED
      BY <1>1, <2>3, Quotient
  <2> QED
    BY <2>2, <2>3, <2>4 DEF TableUse
<1>3. used \in SUBSET (0 .. bound) /\ used # {} /\ TableUse(t) \in used /\ bound \in Nat
  <2>1. bound \in Nat
    BY <1>1, FS_CardinalityType
  <2> QED
    BY <1>2, <2>1
<1> HIDE DEF bound
<1>4. \E u \in used : \A v \in used : v <= u
  BY <1>3, Greatest
<1>5. TableUse(t) < ths /\ TableUse(t) \in Nat
  <2> DEFINE top == CHOOSE u \in used : \A v \in used : v <= u
  <2>1. top \in used /\ TableUse(t) <= top /\ top < ths
    BY <1>3, <1>4
  <2> HIDE DEF top
  <2> QED
    BY <1>3, <2>1
<1>6. TableSize * TableUse(t) + TableSize <= ths * TableSize
  <2>1. \A k, x, y \in Nat : x < y => k * x + k <= y * k
    OBVIOUS
  <2> QED
    BY <1>1, <1>5, <2>1
<1>7. /\ 100 * Cardinality(rules[t]) \in Nat /\ TableSize * TableUse(t) + TableSize \in Nat
      /\ ths * TableSize \in Nat
  <2>1. \A x, y \in Nat : x * y \in Nat
    OBVIOUS
  <2>2. TableSize * TableUse(t) \in Nat /\ ths * TableSize \in Nat
    BY <1>1, <1>5, <2>1
  <2> QED
    BY <1>1, <1>2, <2>2
<1> QED
  BY <1>2, <1>6, <1>7

LEMMA Division ==
    ASSUME NEW a \in Int, NEW k \in Int, k > 0
    PROVE  a = k * (a \div k) + (a % k) /\ a \div k \in Int
OBVIOUS

(* A remainder of the double is one of the half, or that and the half.         *)
LEMMA Halves ==
    ASSUME NEW a \in Nat, NEW p \in Nat \ {0}, NEW k \in Nat \ {0}, k = p + p
    PROVE  a % k = a % p \/ a % k = (a % p) + p
<1> DEFINE q == a \div p
           d == a \div k
           r == a % p
           s == a % k
<1>1. q \in Int /\ d \in Int /\ a = p * q + r /\ a = k * d + s
  <2>1. a \in Int /\ p \in Int /\ p > 0 /\ k \in Int /\ k > 0
    OBVIOUS
  <2> QED
    BY ONLY <2>1, Division
<1>2. r \in 0 .. p - 1 /\ s \in 0 .. k - 1
  BY Remainder
<1> HIDE DEF q, d, r, s
<1>3. p * (q - (d + d)) = s - r
  <2>1. \A x, y \in Int : p * (x - (y + y)) = p * x - (p + p) * y
    OBVIOUS
  <2>2. p * (q - (d + d)) = p * q - k * d
    BY <1>1, <2>1
  <2>3. p * q \in Int /\ k * d \in Int
    BY <1>1
  <2> QED
    BY <1>1, <1>2, <2>2, <2>3
<1> DEFINE w == q - (d + d)
<1>4. w \in Int /\ p * w = s - r
  BY <1>1, <1>3
<1> HIDE DEF w
<1>5. w = 0 => p * w = 0
  OBVIOUS
<1>6. w = 1 => p * w = p
  OBVIOUS
<1>7. w >= 2 => p * w >= p + p
  <2>1. \A x \in Int : x >= 2 => p * x >= p + p
    OBVIOUS
  <2> QED
    BY <1>4, <2>1
<1>8. w <= -1 => p * w <= -p
  <2>1. \A x \in Int : x <= -1 => p * x <= -p
    OBVIOUS
  <2> QED
    BY <1>4, <2>1
<1>9. w = 0 \/ w = 1
  BY <1>2, <1>4, <1>7, <1>8
<1>10. s = r \/ s = r + p
  BY <1>2, <1>4, <1>5, <1>6, <1>9
<1> QED
  BY <1>10 DEF r, s

(* The bearers of a switch come from two switches of the level above.         *)
LEMMA HalfOfTwo ==
    ASSUME NEW b \in Bearer, NEW lev \in Level, lev # 0,
           NEW t, GetTftIdx(b, lev - 1) = t
    PROVE  GetTftIdx(b, lev) \in {t, t + 2 ^ (lev - 1)}
<1> DEFINE p == 2 ^ (lev - 1)
           k == 2 ^ lev
           a == Addr[b]
<1>1. p \in Nat \ {0} /\ k = p + p /\ a \in Nat
  <2>1. lev - 1 \in Level
    BY ConstAssumption DEF Level
  <2>2. p \in Nat \ {0} /\ k = 2 * p
    BY <2>1, PowerAssumption
  <2>3. a \in Nat
    BY ConstAssumption
  <2> HIDE DEF p, k, a
  <2> QED
    BY <2>2, <2>3
<1>2. t = 1 + (a % p) /\ GetTftIdx(b, lev) = 1 + (a % k)
  <2>1. GetTftIdx(b, lev) = 1 + (a % k) /\ GetTftIdx(b, lev - 1) = 1 + (a % p)
    BY Zenon DEF GetTftIdx
  <2> QED
    BY <2>1
<1> HIDE DEF p, k, a
<1>3. a % k = a % p \/ a % k = (a % p) + p
  <2>1. k \in Nat \ {0}
    BY <1>1
  <2> QED
    BY <1>1, <2>1, Halves
<1>4. a % p \in Int
  BY <1>1, Remainder
<1>5. GetTftIdx(b, lev) \in {t, t + p}
  BY <1>1, <1>2, <1>3, <1>4
<1> QED
  BY <1>5 DEF p

(***************************************************************************)
(* A change to fewer switches does not cause the next change to more: the      *)
(* switches that are joined stay below the split threshold together.          *)
(***************************************************************************)
THEOREM JoinStaysHolds == Spec => JoinStays
<1> DEFINE Step == level' < level =>
                      \A t \in 1 .. 2 ^ level' :
                          100 * Cardinality({b \in Bearer : gwInst[b] /\ GetTftIdx(b, level') = t})
                              < SplitThs * TableSize
<1>1. ASSUME Inv, [Next]_vars PROVE Step
  <2> SUFFICES ASSUME level' < level, NEW t \in 1 .. 2 ^ level'
               PROVE  100 * Cardinality({b \in Bearer : gwInst[b] /\ GetTftIdx(b, level') = t})
                          < SplitThs * TableSize
    OBVIOUS
  <2>1. level \in Level /\ level \in Int
    BY <1>1, ConstAssumption DEF Inv, TypeOK, Level
  <2>2. PICK cpu \in CpuUses, delay \in [Bearer -> 0 .. Ticks(250)] : PgwTftLoadBalancing(cpu, delay)
    <3>1. level' # level
      BY <2>1
    <3> QED
      BY <1>1, <3>1 DEF Next, vars, PgwRulesMove, DeleteRules, Redirect, Request, Start, Stop,
                        Release, Tick
  <2> DEFINE used == {TableUse(s) : s \in 1 .. 2 ^ level}
             tab  == CHOOSE u \in used : \A v \in used : v <= u
             two  == rules[t] \cup rules[t + 2 ^ level']
             here == {b \in Bearer : gwInst[b] /\ GetTftIdx(b, level') = t}
  <2>3. level' = NextLevel(tab, cpu)
    BY <2>2 DEF PgwTftLoadBalancing
  <2>4. level' = level - 1 /\ level # 0 /\ tab < JoinThs
    <3> HIDE DEF tab
    <3> QED
      BY <2>1, <2>3 DEF NextLevel
  <2>5. TypeOK /\ RulesOK /\ \A b \in Bearer : idx[b] = GetTftIdx(b, level)
    BY <1>1, <2>2, RoundEnd DEF Inv, Home, PgwTftLoadBalancing
  <2>6. level' \in Level /\ 2 ^ level = 2 * 2 ^ level' /\ 2 ^ level' \in Nat
        /\ 2 ^ level \in 1 .. 2 ^ MaxLevel
    <3>1. level - 1 \in Level
      BY <2>1, <2>4, ConstAssumption DEF Level
    <3> QED
      BY <2>1, <2>4, <3>1, PowerAssumption
  <2>7. /\ t \in 1 .. 2 ^ level /\ t + 2 ^ level' \in 1 .. 2 ^ level
        /\ t \in Tft /\ t + 2 ^ level' \in Tft
    <3> DEFINE half == 2 ^ level'
               full == 2 ^ level
               all  == 2 ^ MaxLevel
    <3>1. full = 2 * half /\ half \in Nat /\ full \in 1 .. all /\ t \in 1 .. half /\ all \in Nat
      <4>1. MaxLevel \in Level
        BY ConstAssumption DEF Level
      <4> QED
        BY <2>6, <4>1, PowerAssumption
    <3> HIDE DEF half, full, all
    <3>2. t \in 1 .. full /\ t + half \in 1 .. full /\ t \in 1 .. all /\ t + half \in 1 .. all
      BY <3>1
    <3> QED
      BY <3>2 DEF half, full, all, Tft
  <2>8. here \subseteq two
    <3> SUFFICES ASSUME NEW b \in Bearer, gwInst[b], GetTftIdx(b, level') = t
                 PROVE  b \in two
      OBVIOUS
    <3>1. idx[b] \in {t, t + 2 ^ level'}
      BY <2>1, <2>4, <2>5, HalfOfTwo
    <3>2. b \in rules[idx[b]]
      BY <2>5 DEF RulesOK, RuleOK
    <3> QED
      BY <3>1, <3>2
  <2>9. /\ 100 * Cardinality(rules[t]) < JoinThs * TableSize
        /\ 100 * Cardinality(rules[t + 2 ^ level']) < JoinThs * TableSize
    <3> HIDE DEF used
    <3>1. JoinThs \in Nat
      BY ConstAssumption
    <3> QED
      BY <2>4, <2>5, <2>7, <3>1, TablesBelow DEF used
  <2>10. /\ Cardinality(here) \in Nat /\ Cardinality(rules[t]) \in Nat
         /\ Cardinality(rules[t + 2 ^ level']) \in Nat
         /\ Cardinality(here) <= Cardinality(rules[t]) + Cardinality(rules[t + 2 ^ level'])
    <3>1. IsFiniteSet(Bearer) /\ rules[t] \subseteq Bearer /\ rules[t + 2 ^ level'] \subseteq Bearer
      BY <2>5, <2>7, ConstAssumption DEF TypeOK
    <3> DEFINE A == rules[t]
               B == rules[t + 2 ^ level']
    <3>2. IsFiniteSet(A) /\ IsFiniteSet(B)
      BY <3>1, FS_Subset
    <3> HIDE DEF A, B
    <3>3. /\ IsFiniteSet(A \cup B) /\ Cardinality(A) \in Nat /\ Cardinality(B) \in Nat
          /\ Cardinality(A \cap B) \in Nat
          /\ Cardinality(A \cup B) = Cardinality(A) + Cardinality(B) - Cardinality(A \cap B)
      BY <3>2, FS_Union, FS_CardinalityType, FS_Intersection
    <3>4. Cardinality(here) \in Nat /\ Cardinality(here) <= Cardinality(A \cup B)
          /\ Cardinality(A \cup B) \in Nat
      <4> HIDE DEF here
      <4> QED
        BY <2>8, <3>3, FS_Subset, FS_CardinalityType DEF A, B
    <3> QED
      BY <3>3, <3>4 DEF A, B
  <2>11. 2 * (JoinThs * TableSize) <= SplitThs * TableSize
         /\ JoinThs * TableSize \in Nat /\ SplitThs * TableSize \in Nat
    <3>1. JoinThs \in Nat /\ SplitThs \in Nat /\ TableSize \in Nat /\ SplitThs > 2 * JoinThs
      BY ConstAssumption
    <3>2. \A x, y, k \in Nat : x > 2 * y => /\ 2 * (y * k) <= x * k
                                            /\ y * k \in Nat /\ x * k \in Nat
      OBVIOUS
    <3> QED
      BY <3>1, <3>2
  <2> HIDE DEF here
  <2>12. 100 * Cardinality(here) < SplitThs * TableSize
    BY <2>9, <2>10, <2>11
  <2> QED
    BY <2>12 DEF here
<1> QED
  BY InvHolds, <1>1, PTL DEF JoinStays, Spec
==============================================================================
