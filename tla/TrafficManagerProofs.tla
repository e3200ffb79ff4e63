------------------------- MODULE TrafficManagerProofs --------------------------
(***************************************************************************)
(* For any applications and inter-arrival times, with or without restarts and *)
(* a stop time: no assertion of the applications' life fails, the timeline     *)
(* holds, and the bearers make no step that the contract does not allow.      *)
(*                                                                           *)
(* The invariant says in which of four phases an application is, what is       *)
(* scheduled in each, and how much of the interval to the next try is left.   *)
(***************************************************************************)
EXTENDS TrafficManager, TLAPS

(* Nothing but the events in E may be scheduled for application a.            *)
Only(a, E) == \A e \in Event \ E : timer[a][e] = Off

(* The state of the bearer while the application uses it.                     *)
InUse(a) == st[a] = IF a \in Dedicated THEN "active" ELSE "idle"

(* Between a stop, or the beginning, and the next authorised try.             *)
Waiting(a) ==
    /\ ~active[a] /\ Only(a, {"try", "release"})
    /\ st[a] = "idle" \/ (a \in Dedicated /\ st[a] = "stopped")
    /\ st[a] = "stopped" <=> timer[a]["release"] # Off
    /\ (st[a] = "stopped" /\ timer[a]["try"] # Off)
           => timer[a]["try"] >= timer[a]["release"] + Sec
    /\ (st[a] = "stopped" /\ a \in Udp) => timer[a]["release"] < nextTry[a]

Starting(a) ==
    /\ ~active[a] /\ Only(a, {"start"}) /\ timer[a]["start"] # Off /\ InUse(a)
    /\ maxOnTime[a] >= 3 * Sec
    /\ timer[a]["start"] + maxOnTime[a] + 4 * Sec <= nextTry[a]

Playing(a) ==
    /\ active[a] /\ ~forced[a] /\ Only(a, {"maxOn"}) /\ timer[a]["maxOn"] # Off
    /\ InUse(a)
    /\ timer[a]["maxOn"] + 4 * Sec <= nextTry[a]

(* A UDP application reports its stop; TCP may still deliver.                 *)
Stopping(a) ==
    /\ active[a] /\ forced[a] /\ Only(a, {"report"}) /\ InUse(a)
    /\ a \in Udp <=> timer[a]["report"] # Off
    /\ a \in Udp => timer[a]["report"] + 3 * Sec <= nextTry[a]

Phase(a) == Waiting(a) \/ Starting(a) \/ Playing(a) \/ Stopping(a)

Inv ==
    /\ TypeOK
    /\ fault = "none"
    /\ \A a \in App : Phase(a)
------------------------------------------------------------------------------
(***************************************************************************)
(* The delays that are computed, not scheduled as they stand.                 *)
(***************************************************************************)
LEMMA Delays ==
    /\ Sec \in Nat \ {0}
    /\ \A r \in InterArrivals : NextTry(r) \in Nat /\ NextTry(r) >= 8 * Sec
    /\ TypeOK => \A a \in App : /\ RestartDelay(a) \in Nat
                              /\ RestartDelay(a) >= 2 * Sec
BY ConstAssumption DEF NextTry, MinTry, RestartDelay, TypeOK

(***************************************************************************)
(* An event of application a leaves the phases of the others alone.           *)
(***************************************************************************)
LEMMA OneApplication ==
    ASSUME NEW a \in App, Inv, TypeOK', fault' = "none",
           \A b \in App \ {a} : /\ timer'[b] = timer[b] /\ nextTry'[b] = nextTry[b]
                              /\ maxOnTime'[b] = maxOnTime[b] /\ st'[b] = st[b]
                              /\ active'[b] = active[b] /\ forced'[b] = forced[b],
           Phase(a)'
    PROVE  Inv'
<1>1. ASSUME NEW b \in App, b # a
      PROVE  Phase(b)'
  <2>1. Phase(b)
    BY DEF Inv
  <2> QED
    BY <2>1, <1>1 DEF Phase, Waiting, Starting, Playing, Stopping, Only, InUse
<1> QED
  BY <1>1 DEF Inv

(***************************************************************************)
(* Scheduling and cancelling keep the type of the timers.                     *)
(***************************************************************************)
LEMMA TimerType ==
    ASSUME TypeOK, NEW a \in App, NEW t \in [Event -> Int],
           \A e \in Event : t[e] >= Off,
           timer' = [timer EXCEPT ![a] = t]
    PROVE  /\ timer' \in [App -> [Event -> Int]]
           /\ \A b \in App : \A e \in Event : timer'[b][e] >= Off
           /\ timer'[a] = t
           /\ \A b \in App \ {a} : timer'[b] = timer[b]
BY DEF TypeOK

LEMMA InitInv == Init => Inv
<1> SUFFICES ASSUME Init PROVE Inv
  OBVIOUS
<1> USE Delays
<1>1. PICK first \in [App -> InterArrivals] :
          timer = [a \in App |-> [e \in Event |-> IF e = "try" THEN Sec + first[a] ELSE Off]]
  BY DEF Init
<1>2. \A a \in App : first[a] \in Nat
  BY <1>1, ConstAssumption
<1>3. timer \in [App -> [Event -> Int]] /\ \A a \in App : \A e \in Event : timer[a][e] >= Off
  BY <1>1, <1>2 DEF Off
<1>4. stopTime \in Nat
  BY ConstAssumption DEF Init
<1>5. TypeOK
  BY <1>3, <1>4 DEF TypeOK, Init, Fault
<1>6. ASSUME NEW a \in App
      PROVE  Waiting(a)
  BY <1>1, <1>6 DEF Waiting, Only, Init, Event
<1> QED
  BY <1>5, <1>6 DEF Inv, Phase, Init

(***************************************************************************)
(* An application whose try is due waits, and its bearer has been released.   *)
(***************************************************************************)
LEMMA TryFindsIdle ==
    ASSUME NEW a \in App, Inv, Due(a, "try")
    PROVE  /\ Waiting(a) /\ st[a] = "idle"
           /\ timer[a]["start"] = Off /\ timer[a]["maxOn"] = Off
           /\ timer[a]["report"] = Off /\ timer[a]["release"] = Off
<1> USE Delays
<1>1. timer[a]["try"] = 0 /\ TypeOK
  BY DEF Due, Inv
<1>2. Waiting(a)
  BY <1>1 DEF Inv, Phase, Starting, Playing, Stopping, Only, Event, Off
<1>3. timer[a]["release"] \in Int /\ timer[a]["release"] >= Off
  BY <1>1 DEF TypeOK, Event
<1>4. st[a] # "stopped"
  BY <1>1, <1>2, <1>3 DEF Waiting, Off
<1> QED
  BY <1>2, <1>4 DEF Waiting, Only, Event

(***************************************************************************)
(* AppStartTry: the application waits for the next try, or starts.            *)
(***************************************************************************)
LEMMA AppStartTryInv ==
    ASSUME NEW a \in App, NEW rand \in InterArrivals, NEW outcome \in Outcome,
           Inv, AppStartTry(a, rand, outcome)
    PROVE  Inv'
<1> USE Delays
<1>1. timer[a]["try"] = 0 /\ TypeOK
  BY DEF AppStartTry, Due, Inv
<1>2. /\ Waiting(a) /\ st[a] = "idle"
      /\ timer[a]["start"] = Off /\ timer[a]["maxOn"] = Off
      /\ timer[a]["report"] = Off /\ timer[a]["release"] = Off
  BY TryFindsIdle DEF AppStartTry
<1> DEFINE t == [timer[a] EXCEPT !["try"] = Off]
<1>3. /\ nextTry' = [nextTry EXCEPT ![a] = NextTry(rand)]
      /\ maxOnTime' = [maxOnTime EXCEPT ![a] = NextTry(rand) - 5 * Sec]
      /\ UNCHANGED <<stopTime, active, forced, now>>
  BY DEF AppStartTry, MaxOnTime
<1>4. fault' = "none"
  BY <1>2, <1>1 DEF AppStartTry, First, Check, Once, Waiting, Off
<1>5. nextTry' \in [App -> Nat] /\ maxOnTime' \in [App -> Nat]
  BY <1>1, <1>3 DEF TypeOK
<1>6. CASE timer' = [timer EXCEPT ![a] = t] /\ st' = st
  <2>1. /\ t \in [Event -> Int]
        /\ \A e \in Event : t[e] >= Off
    BY <1>1, <1>5 DEF TypeOK, Event, Off
  <2>2. /\ timer' \in [App -> [Event -> Int]]
        /\ \A b \in App : \A e \in Event : timer'[b][e] >= Off
    BY <1>1, <1>6, <2>1, TimerType
  <2>3. TypeOK'
    BY <1>1, <1>3, <1>4, <1>5, <1>6, <2>2 DEF TypeOK, Fault
  <2>4. Waiting(a)'
    BY <1>1, <1>2, <1>3, <1>6 DEF Waiting, Only, TypeOK, Event
  <2> QED
    BY <1>3, <1>4, <1>6, <2>3, <2>4, OneApplication DEF Phase, TypeOK, Inv
<1>7. CASE timer' = [timer EXCEPT ![a] = [t EXCEPT !["try"] = nextTry'[a]]] /\ st' = st
  <2>1. /\ [t EXCEPT !["try"] = nextTry'[a]] \in [Event -> Int]
        /\ \A e \in Event : ([t EXCEPT !["try"] = nextTry'[a]])[e] >= Off
    BY <1>1, <1>5 DEF TypeOK, Event, Off
  <2>2. /\ timer' \in [App -> [Event -> Int]]
        /\ \A b \in App : \A e \in Event : timer'[b][e] >= Off
    BY <1>1, <1>7, <2>1, TimerType
  <2>3. TypeOK'
    BY <1>1, <1>3, <1>4, <1>5, <1>7, <2>2 DEF TypeOK, Fault
  <2>4. Waiting(a)'
    BY <1>1, <1>2, <1>3, <1>7 DEF Waiting, Only, TypeOK, Event
  <2> QED
    BY <1>3, <1>4, <1>7, <2>3, <2>4, OneApplication DEF Phase, TypeOK, Inv
<1>8. CASE /\ timer' = [timer EXCEPT ![a] = [t EXCEPT !["start"] = Sec]]
           /\ st' = IF a \in Dedicated THEN [st EXCEPT ![a] = "active"] ELSE st
  <2>1. /\ [t EXCEPT !["start"] = Sec] \in [Event -> Int]
        /\ \A e \in Event : ([t EXCEPT !["start"] = Sec])[e] >= Off
    BY <1>1, <1>5 DEF TypeOK, Event, Off
  <2>2. /\ timer' \in [App -> [Event -> Int]]
        /\ \A b \in App : \A e \in Event : timer'[b][e] >= Off
    BY <1>1, <1>8, <2>1, TimerType
  <2>3. TypeOK'
    BY <1>1, <1>3, <1>4, <1>5, <1>8, <2>2 DEF TypeOK, Fault
  <2>4. Starting(a)'
    <3>1. timer'[a]["start"] = Sec /\ \A e \in Event \ {"start"} : timer'[a][e] = Off
      BY <1>1, <1>2, <1>8 DEF TypeOK, Event
    <3>2. nextTry'[a] = NextTry(rand) /\ maxOnTime'[a] = NextTry(rand) - 5 * Sec
      BY <1>1, <1>3 DEF TypeOK
    <3>3. Sec # Off /\ maxOnTime'[a] >= 3 * Sec
          /\ Sec + maxOnTime'[a] + 4 * Sec <= nextTry'[a]
      BY <3>2 DEF Off
    <3>4. InUse(a)' /\ ~active'[a]
      BY <1>1, <1>2, <1>3, <1>8 DEF InUse, TypeOK, Waiting
    <3> QED
      BY <3>1, <3>3, <3>4 DEF Starting, Only
  <2> QED
    BY <1>3, <1>4, <1>8, <2>3, <2>4, OneApplication DEF Phase, TypeOK, Inv
<1> QED
  BY <1>6, <1>7, <1>8 DEF AppStartTry, Set, Retry

(***************************************************************************)
(* Start, when nothing else is scheduled.                                     *)
(***************************************************************************)
LEMMA StartInv ==
    ASSUME NEW a \in App, Inv, Start(a)
    PROVE  Inv'
<1> USE Delays
<1>1. timer[a]["start"] = 0 /\ TypeOK
  BY DEF Start, Due, Inv
<1>2. Starting(a) /\ timer[a]["maxOn"] = Off
  BY <1>1 DEF Inv, Phase, Waiting, Starting, Playing, Stopping, Only, Event, Off
<1> DEFINE t == [[timer[a] EXCEPT !["start"] = Off] EXCEPT !["maxOn"] = maxOnTime[a]]
<1>3. /\ timer' = [timer EXCEPT ![a] = t]
      /\ active' = [active EXCEPT ![a] = TRUE]
      /\ forced' = [forced EXCEPT ![a] = FALSE]
      /\ fault' = "none"
      /\ UNCHANGED <<stopTime, nextTry, maxOnTime, st, now>>
  BY <1>1, <1>2 DEF Start, Set, First, Check, Once, Starting
<1>4. t \in [Event -> Int] /\ \A e \in Event : t[e] >= Off
  BY <1>1 DEF TypeOK, Event, Off
<1>5. /\ timer' \in [App -> [Event -> Int]]
      /\ \A b \in App : \A e \in Event : timer'[b][e] >= Off
  BY <1>1, <1>3, <1>4, TimerType
<1>6. TypeOK'
  BY <1>1, <1>3, <1>5 DEF TypeOK, Fault
<1>7. Playing(a)'
  <2>1. timer'[a]["maxOn"] = maxOnTime[a] /\ \A e \in Event \ {"maxOn"} : timer'[a][e] = Off
    BY <1>1, <1>2, <1>3 DEF TypeOK, Event, Starting, Only
  <2>2. maxOnTime[a] \in Nat /\ maxOnTime[a] + 4 * Sec <= nextTry[a]
    BY <1>1, <1>2 DEF TypeOK, Starting
  <2>3. active'[a] /\ ~forced'[a] /\ InUse(a)' /\ nextTry'[a] = nextTry[a]
    BY <1>1, <1>2, <1>3 DEF TypeOK, InUse, Starting
  <2> QED
    BY <2>1, <2>2, <2>3 DEF Playing, Only, Off
<1> QED
  BY <1>1, <1>3, <1>6, <1>7, OneApplication DEF Phase, TypeOK

(***************************************************************************)
(* ForceStop of an application that plays: MaxOnTime is cancelled, and a UDP   *)
(* application has at least three seconds left after its report.              *)
(***************************************************************************)
LEMMA ForceStopInv ==
    ASSUME NEW a \in App, Inv, Playing(a), ForceStop(a)
    PROVE  Inv'
<1> USE Delays
<1>1. TypeOK
  BY DEF Inv
<1>2. timer[a]["report"] = Off
  BY DEF Playing, Only, Event
<1> DEFINE c == [timer[a] EXCEPT !["maxOn"] = Off]
           t == IF a \in Udp THEN [c EXCEPT !["report"] = Sec] ELSE c
<1>3. /\ timer' = [timer EXCEPT ![a] = t]
      /\ forced' = [forced EXCEPT ![a] = TRUE]
      /\ fault' = "none"
      /\ UNCHANGED <<stopTime, nextTry, maxOnTime, active, st, now>>
  BY <1>1, <1>2 DEF ForceStop, Set, First, Check, Once, Playing
<1>4. t \in [Event -> Int] /\ \A e \in Event : t[e] >= Off
  BY <1>1 DEF TypeOK, Event, Off
<1>5. /\ timer' \in [App -> [Event -> Int]]
      /\ \A b \in App : \A e \in Event : timer'[b][e] >= Off
  BY <1>1, <1>3, <1>4, TimerType
<1>6. TypeOK'
  BY <1>1, <1>3, <1>5 DEF TypeOK, Fault
<1>7. Stopping(a)'
  <2>1. /\ timer'[a]["report"] = IF a \in Udp THEN Sec ELSE Off
        /\ \A e \in Event \ {"report"} : timer'[a][e] = Off
    BY <1>1, <1>2, <1>3 DEF TypeOK, Event, Playing, Only
  <2>2. 4 * Sec <= nextTry[a]
    <3>1. timer[a]["maxOn"] \in Int /\ timer[a]["maxOn"] >= 0
      BY <1>1 DEF TypeOK, Event, Playing, Off
    <3> QED
      BY <1>1, <3>1 DEF Playing, TypeOK
  <2>3. active'[a] /\ forced'[a] /\ InUse(a)' /\ nextTry'[a] = nextTry[a]
    BY <1>1, <1>3 DEF TypeOK, InUse, Playing
  <2> QED
    BY <2>1, <2>2, <2>3, <1>1 DEF Stopping, Only, Off, TypeOK
<1> QED
  BY <1>1, <1>3, <1>6, <1>7, OneApplication DEF Phase, TypeOK

(***************************************************************************)
(* The report of a stop: the release is a second away, the next try two.      *)
(***************************************************************************)
LEMMA NotifyAppStopInv ==
    ASSUME NEW a \in App, Inv, NotifyAppStop(a),
           Playing(a) \/ Stopping(a), a \in Udp => 3 * Sec <= nextTry[a]
    PROVE  Inv'
<1> USE Delays
<1>1. TypeOK
  BY DEF Inv
<1>2. /\ active[a] /\ InUse(a)
      /\ timer[a]["try"] = Off /\ timer[a]["start"] = Off /\ timer[a]["release"] = Off
  BY DEF Playing, Stopping, Only, Event
<1> DEFINE c == [[timer[a] EXCEPT !["maxOn"] = Off] EXCEPT !["report"] = Off]
           r == IF a \in Dedicated THEN [c EXCEPT !["release"] = Sec] ELSE c
           t == IF RestartApps THEN [r EXCEPT !["try"] = RestartDelay(a)] ELSE r
<1>3. /\ timer' = [timer EXCEPT ![a] = t]
      /\ active' = [active EXCEPT ![a] = FALSE]
      /\ st' = IF a \in Dedicated THEN [st EXCEPT ![a] = "stopped"] ELSE st
      /\ fault' = "none"
      /\ UNCHANGED <<stopTime, nextTry, maxOnTime, forced, now>>
  BY <1>1, <1>2 DEF NotifyAppStop, Set, First, Check, Once
<1>4. t \in [Event -> Int] /\ \A e \in Event : t[e] >= Off
  BY <1>1 DEF TypeOK, Event, Off
<1>5. /\ timer' \in [App -> [Event -> Int]]
      /\ \A b \in App : \A e \in Event : timer'[b][e] >= Off
      /\ timer'[a] = t
  BY <1>1, <1>3, <1>4, TimerType
<1>6. TypeOK'
  <2>1. st' \in [App -> {"idle", "active", "stopped"}]
    BY <1>1, <1>3 DEF TypeOK
  <2> QED
    BY <1>1, <1>3, <1>5, <2>1 DEF TypeOK, Fault
<1>7. Waiting(a)'
  <2>1. /\ timer'[a]["start"] = Off /\ timer'[a]["maxOn"] = Off /\ timer'[a]["report"] = Off
        /\ timer'[a]["release"] = IF a \in Dedicated THEN Sec ELSE Off
        /\ timer'[a]["try"] = IF RestartApps THEN RestartDelay(a) ELSE Off
    BY <1>1, <1>2, <1>5 DEF TypeOK, Event
  <2>2. st'[a] = (IF a \in Dedicated THEN "stopped" ELSE "idle") /\ ~active'[a]
    BY <1>1, <1>2, <1>3 DEF TypeOK, InUse
  <2>3. nextTry'[a] = nextTry[a] /\ nextTry[a] \in Nat
    BY <1>1, <1>3 DEF TypeOK
  <2>4. Only(a, {"try", "release"})'
    BY <2>1 DEF Only, Event
  <2> QED
    BY <1>1, <2>1, <2>2, <2>3, <2>4 DEF Waiting, Off
<1> QED
  BY <1>1, <1>3, <1>6, <1>7, OneApplication DEF Phase, TypeOK

(***************************************************************************)
(* The release, while the application waits.                                  *)
(***************************************************************************)
LEMMA ReleaseInv ==
    ASSUME NEW a \in App, Inv, DedicatedBearerRelease(a)
    PROVE  Inv' /\ a \in Dedicated /\ st[a] = "stopped"
<1>1. timer[a]["release"] = 0 /\ TypeOK
  BY DEF DedicatedBearerRelease, Due, Inv
<1>2. Waiting(a) /\ st[a] = "stopped" /\ a \in Dedicated
  BY <1>1 DEF Inv, Phase, Waiting, Starting, Playing, Stopping, Only, Event, Off
<1> DEFINE t == [timer[a] EXCEPT !["release"] = Off]
<1>3. /\ timer' = [timer EXCEPT ![a] = t]
      /\ st' = [st EXCEPT ![a] = "idle"]
      /\ fault' = "none"
      /\ UNCHANGED <<stopTime, nextTry, maxOnTime, active, forced, now>>
  BY <1>2 DEF DedicatedBearerRelease, Set, Check
<1>4. t \in [Event -> Int] /\ \A e \in Event : t[e] >= Off
  BY <1>1 DEF TypeOK, Event, Off
<1>5. /\ timer' \in [App -> [Event -> Int]]
      /\ \A b \in App : \A e \in Event : timer'[b][e] >= Off
      /\ timer'[a] = t
  BY <1>1, <1>3, <1>4, TimerType
<1>6. TypeOK'
  BY <1>1, <1>3, <1>5 DEF TypeOK, Fault
<1>7. Waiting(a)'
  BY <1>1, <1>2, <1>3, <1>5 DEF Waiting, Only, TypeOK, Event
<1> QED
  BY <1>1, <1>2, <1>3, <1>6, <1>7, OneApplication DEF Phase, TypeOK

(***************************************************************************)
(* Time passes only when nothing is due, and takes one from all that is       *)
(* compared.                                                                 *)
(***************************************************************************)
LEMMA TickInv ==
    ASSUME Inv, Tick
    PROVE  Inv'
<1> USE Delays
<1>1. TypeOK
  BY DEF Inv
<1>2. timer' \in [App -> [Event -> Int]] /\ \A a \in App : \A e \in Event : timer'[a][e] >= Off
  BY <1>1 DEF Tick, TypeOK, Off
<1>3. TypeOK'
  <2>1. nextTry' \in [App -> Nat]
    BY <1>1 DEF Tick, TypeOK
  <2>2. now' \in 0 .. stopTime' + 1
    BY <1>1, ConstAssumption DEF Tick, TypeOK
  <2> QED
    BY <1>1, <1>2, <2>1, <2>2 DEF Tick, TypeOK
<1>4. ASSUME NEW a \in App
      PROVE  Phase(a)'
  <2>1. \A e \in Event : /\ timer[a][e] \in Int /\ timer[a][e] >= Off /\ timer[a][e] # 0
                        /\ timer'[a][e] = IF timer[a][e] = Off THEN Off ELSE timer[a][e] - 1
    BY <1>1 DEF TypeOK, Tick
  <2>2. /\ nextTry[a] \in Nat
        /\ nextTry'[a] = IF nextTry[a] > 0 THEN nextTry[a] - 1 ELSE 0
    BY <1>1 DEF TypeOK, Tick
  <2>3. UNCHANGED <<maxOnTime, active, forced, st>>
    BY DEF Tick
  <2>4. \A E \in SUBSET Event : Only(a, E) => Only(a, E)'
    BY <2>1 DEF Only
  <2>5. \A e \in Event : timer[a][e] = Off <=> timer'[a][e] = Off
    BY <2>1 DEF Off
  <2>6. CASE Waiting(a)
    <3>1. Only(a, {"try", "release"})'
      BY <2>4, <2>6 DEF Waiting, Event
    <3> QED
      BY <2>1, <2>2, <2>3, <2>5, <2>6, <3>1 DEF Waiting, Phase, Event, Off
  <2>7. CASE Starting(a)
    <3>1. Only(a, {"start"})' /\ InUse(a)'
      BY <2>3, <2>4, <2>7 DEF Starting, Event, InUse
    <3>2. maxOnTime[a] \in Nat
      BY <1>1 DEF TypeOK
    <3> QED
      BY <2>1, <2>2, <2>3, <2>5, <2>7, <3>1, <3>2 DEF Starting, Phase, Event, Off
  <2>8. CASE Playing(a)
    <3>1. Only(a, {"maxOn"})' /\ InUse(a)'
      BY <2>3, <2>4, <2>8 DEF Playing, Event, InUse
    <3> QED
      BY <2>1, <2>2, <2>3, <2>5, <2>8, <3>1 DEF Playing, Phase, Event, Off
  <2>9. CASE Stopping(a)
    <3>1. Only(a, {"report"})' /\ InUse(a)'
      BY <2>3, <2>4, <2>9 DEF Stopping, Event, InUse
    <3> QED
      BY <2>1, <2>2, <2>3, <2>5, <2>9, <3>1 DEF Stopping, Phase, Event, Off
  <2> QED
    BY <2>6, <2>7, <2>8, <2>9 DEF Inv, Phase
<1> QED
  BY <1>3, <1>4 DEF Inv, Tick, Running
------------------------------------------------------------------------------
(***************************************************************************)
(* A step of one application that is neither a try nor a start; what phase a   *)
(* stop finds it in.                                                         *)
(***************************************************************************)
LEMMA StopInv ==
    ASSUME NEW a \in App, Inv,
           MaxOnTimeOver(a) \/ TrafficEnds(a) \/ UdpStop(a) \/ TcpStop(a)
    PROVE  Inv'
<1>1. TypeOK /\ Phase(a) /\ Sec \in Nat \ {0}
  BY Delays DEF Inv
<1>2. nextTry[a] \in Nat /\ \A e \in Event : timer[a][e] \in Int /\ timer[a][e] >= Off
  BY <1>1 DEF TypeOK
<1>3. CASE MaxOnTimeOver(a)
  <2>1. Playing(a) /\ ForceStop(a)
    BY <1>1, <1>3 DEF MaxOnTimeOver, Due, Phase, Waiting, Starting, Stopping, Only, Event, Off
  <2> QED
    BY <2>1, ForceStopInv
<1>4. CASE TrafficEnds(a)
  <2>1. Playing(a) /\ ForceStop(a)
    BY <1>1, <1>4 DEF TrafficEnds, Phase, Waiting, Starting, Stopping
  <2> QED
    BY <2>1, ForceStopInv
<1>5. CASE UdpStop(a)
  <2>1. Stopping(a) /\ timer[a]["report"] = 0 /\ NotifyAppStop(a)
    BY <1>1, <1>5 DEF UdpStop, Due, Phase, Waiting, Starting, Playing, Only, Event, Off
  <2>2. 3 * Sec <= nextTry[a]
    BY <1>1, <1>2, <2>1 DEF Stopping, Off
  <2> QED
    BY <2>1, <2>2, NotifyAppStopInv
<1>6. CASE TcpStop(a)
  BY <1>1, <1>6, NotifyAppStopInv DEF TcpStop, Phase, Waiting, Starting
<1> QED
  BY <1>3, <1>4, <1>5, <1>6

LEMMA NextInv == Inv /\ [Next]_vars => Inv'
<1> SUFFICES ASSUME Inv, [Next]_vars PROVE Inv'
  OBVIOUS
<1>1. CASE UNCHANGED vars
  BY <1>1 DEF vars, Inv, TypeOK, Phase, Waiting, Starting, Playing, Stopping, Only, InUse
<1>2. CASE Tick
  BY <1>2, TickInv
<1>3. ASSUME NEW a \in App, NEW rand \in InterArrivals, NEW outcome \in Outcome,
             AppStartTry(a, rand, outcome)
      PROVE  Inv'
  BY <1>3, AppStartTryInv
<1>4. ASSUME NEW a \in App,
             MaxOnTimeOver(a) \/ TrafficEnds(a) \/ UdpStop(a) \/ TcpStop(a)
      PROVE  Inv'
  BY <1>4, StopInv
<1>5. ASSUME NEW a \in App, Start(a) PROVE Inv'
  BY <1>5, StartInv
<1>6. ASSUME NEW a \in App, DedicatedBearerRelease(a) PROVE Inv'
  BY <1>6, ReleaseInv
<1> QED
  BY <1>1, <1>2, <1>3, <1>4, <1>5, <1>6 DEF Next

LEMMA InvHolds == Spec => []Inv
BY InitInv, NextInv, PTL DEF Spec

(***************************************************************************)
(* Applications have their types, and every scheduled event is due in a        *)
(* natural number of ticks.                                                  *)
(***************************************************************************)
THEOREM TypeOKHolds == Spec => []TypeOK
<1>1. Inv => TypeOK
  BY DEF Inv
<1> QED
  BY <1>1, InvHolds, PTL

(***************************************************************************)
(* No assertion of AppStartTry, Start, ForceStop, NotifyStop, NotifyAppStop    *)
(* and DedicatedBearerRelease fails, and no event is scheduled twice.          *)
(***************************************************************************)
THEOREM NoAssertFailsHolds == Spec => []NoAssertFails
<1>1. Inv => NoAssertFails
  BY DEF Inv, NoAssertFails
<1> QED
  BY <1>1, InvHolds, PTL

(***************************************************************************)
(* The intervals that the timeline in SetNextAppStartTry promises hold,        *)
(* whatever the inter-arrival times.                                         *)
(***************************************************************************)
THEOREM TimelineAlwaysHolds == Spec => []TimelineHolds
<1>1. ASSUME Inv
      PROVE  TimelineHolds
  <2>1. TypeOK /\ Sec \in Nat \ {0} /\ Udp \subseteq App
    BY <1>1, Delays, ConstAssumption DEF Inv
  <2>2. ASSUME NEW a \in App
        PROVE  /\ Phase(a) /\ nextTry[a] \in Nat /\ maxOnTime[a] \in Nat
               /\ \A e \in Event : timer[a][e] \in Int /\ timer[a][e] >= Off
    BY <1>1, <2>1 DEF Inv, TypeOK
  <2>3. ASSUME NEW a \in App, st[a] = "stopped"
        PROVE  Waiting(a)
    BY <2>2, <2>3 DEF Phase, Starting, Playing, Stopping, InUse
  <2>4. ASSUME NEW a \in Udp, active[a]
        PROVE  nextTry[a] >= 2 * Sec
    <3>1. Playing(a) \/ Stopping(a)
      BY <2>1, <2>2, <2>4 DEF Phase, Waiting, Starting
    <3>2. /\ Playing(a) => timer[a]["maxOn"] >= 0
          /\ Stopping(a) => timer[a]["report"] >= 0
      BY <2>1, <2>2 DEF Playing, Stopping, Event, Off
    <3> QED
      BY <2>1, <2>2, <3>1, <3>2 DEF Playing, Stopping, Event
  <2>5. ASSUME NEW a \in Udp, active[a], ~forced[a]
        PROVE  timer[a]["maxOn"] + 4 * Sec <= nextTry[a]
    BY <2>1, <2>2, <2>5 DEF Phase, Waiting, Starting, Playing, Stopping
  <2>6. ASSUME NEW a \in Udp, "start" \in Pending(a)
        PROVE  maxOnTime[a] >= 3 * Sec
    BY <2>1, <2>2, <2>6 DEF Pending, Phase, Waiting, Starting, Playing, Stopping, Only, Event
  <2> QED
    BY <2>1, <2>3, <2>4, <2>5, <2>6 DEF TimelineHolds, Waiting
<1> QED
  BY <1>1, InvHolds, PTL
------------------------------------------------------------------------------
(***************************************************************************)
(* The bearers start idle and only make the steps of BearerLife: a bearer is   *)
(* requested when idle, and released once after each stop.  (That it is        *)
(* released in the end is a matter of fairness, and checked.)                *)
(***************************************************************************)
Bearers == [a \in Dedicated |-> st[a]]

THEOREM ContractSteps == Spec => Life!Init /\ [][Life!Next]_Bearers
<1>1. Init => Life!Init
  BY ConstAssumption DEF Init, Life!Init
<1>2. ASSUME Inv, [Next]_vars
      PROVE  [Life!Next]_Bearers
  <2>1. TypeOK /\ Dedicated \subseteq App
    BY <1>2, ConstAssumption DEF Inv
  <2>2. ASSUME NEW a \in App, NEW from, NEW to,
               a \in Dedicated, st[a] = from, st' = [st EXCEPT ![a] = to]
        PROVE  Life!Become(a, from, to)
    <3>1. Bearers' = [Bearers EXCEPT ![a] = to]
      BY <2>1, <2>2 DEF Bearers, TypeOK
    <3> QED
      BY <2>2, <3>1 DEF Life!Become, Bearers
  <2>3. CASE UNCHANGED st
    BY <2>3 DEF Bearers
  <2>4. ASSUME NEW a \in App, NEW rand \in InterArrivals, NEW outcome \in Outcome,
               AppStartTry(a, rand, outcome)
        PROVE  [Life!Next]_Bearers
    <3>1. CASE a \in Dedicated /\ st' = [st EXCEPT ![a] = "active"]
      <4>1. st[a] = "idle"
        BY <1>2, <2>4, TryFindsIdle DEF AppStartTry
      <4> QED
        BY <2>2, <3>1, <4>1 DEF Life!Next, Life!Request
    <3> QED
      BY <2>3, <2>4, <3>1 DEF AppStartTry
  <2>5. ASSUME NEW a \in App, active[a], NotifyAppStop(a)
        PROVE  [Life!Next]_Bearers
    <3>1. CASE a \in Dedicated
      <4>1. st[a] = "active" /\ st' = [st EXCEPT ![a] = "stopped"]
        BY <1>2, <2>5, <3>1 DEF Inv, Phase, Waiting, Starting, Playing, Stopping,
                                InUse, NotifyAppStop
      <4> QED
        BY <2>2, <3>1, <4>1 DEF Life!Next, Life!Stop
    <3> QED
      BY <2>3, <2>5, <3>1 DEF NotifyAppStop
  <2>6. ASSUME NEW a \in App, DedicatedBearerRelease(a)
        PROVE  [Life!Next]_Bearers
    <3>1. a \in Dedicated /\ st[a] = "stopped" /\ st' = [st EXCEPT ![a] = "idle"]
      BY <1>2, <2>6, ReleaseInv DEF DedicatedBearerRelease
    <3> QED
      BY <2>2, <3>1 DEF Life!Next, Life!Release
  <2>7. ASSUME NEW a \in App, UdpStop(a)
        PROVE  active[a] /\ NotifyAppStop(a)
    BY <1>2, <2>7 DEF UdpStop, Due, Inv, Phase, Waiting, Starting, Playing, Stopping,
                      Only, Event, Off
  <2>8. ASSUME NEW a \in App, Start(a) \/ MaxOnTimeOver(a) \/ TrafficEnds(a)
        PROVE  UNCHANGED st
    BY <2>8 DEF Start, MaxOnTimeOver, TrafficEnds, ForceStop
  <2> QED
    BY <1>2, <2>3, <2>4, <2>5, <2>6, <2>7, <2>8 DEF Next, vars, Tick, TcpStop
<1> QED
  BY <1>1, <1>2, InvHolds, PTL DEF Spec
==============================================================================
