---------------------------- MODULE TrafficManager ----------------------------
(***************************************************************************)
(* When applications start and stop, and when the bearers of those that use   *)
(* a dedicated one are requested and released: TrafficManager and the life of *)
(* a client application (Uni5onClient, Uni5onUdpClient).                      *)
(*                                                                           *)
(* Time goes by in ticks, Sec of them in a second.  timer[a] holds the time   *)
(* left to each event that the simulator has scheduled for application a;     *)
(* time does not pass while an event is due.                                  *)
(***************************************************************************)
EXTENDS Integers

CONSTANTS
    App,
    Udp,            \* applications over UDP: they report their stop 1 s after it
    Dedicated,      \* applications over a dedicated bearer
    Sec,            \* ticks of a second
    InterArrivals,  \* inter-arrival times, in ticks
    RestartApps,    \* restart applications after stop events
    StopTimes       \* possible stop times: no starts after this tick; 0 for none

MinTry == 8 * Sec
NextTry(rand) == IF rand > MinTry THEN rand ELSE MinTry

ASSUME ConstAssumption ==
    /\ Udp \subseteq App /\ Dedicated \subseteq App
    /\ Sec \in Nat \ {0}
    /\ InterArrivals \subseteq Nat /\ InterArrivals # {}
    /\ RestartApps \in BOOLEAN
    /\ StopTimes \subseteq Nat /\ StopTimes # {}

(* try: AppStartTry; start: Start; maxOn: ForceStop; report: NotifyStop of    *)
(* a UDP client; release: DedicatedBearerRelease.                            *)
Event == {"try", "start", "maxOn", "report", "release"}
Off   == -1

(* What becomes of a try before the stop time: the start probability may turn *)
(* it down, and so may the controllers, which only decide dedicated bearers.  *)
Outcome == {"unlucky", "blocked", "authorized"}

Fault == {"none", "Can't start an active application.", "Bearer should be inactive.",
          "Can't stop an inactive application.",
          "Can't start an already active application.", "Scheduled twice."}

VARIABLES
    stopTime,   \* m_stopTime
    timer,      \* [App -> [Event -> Off or ticks left]]
    nextTry,    \* [App -> ticks left to the time in m_timeByApp, not below 0]
    maxOnTime,  \* [App -> MaxOnTime attribute of the application]
    active,     \* m_active of the application
    forced,     \* m_forceStopFlag of the application
    st,         \* the bearer: idle, active (m_isActive), stopped (to be released)
    now,        \* ticks since the start, stopTime + 1 at most
    fault       \* the NS_ASSERT that failed, or an event that was pending already

vars == <<stopTime, timer, nextTry, maxOnTime, active, forced, st, now, fault>>
Running == fault = "none"
Due(a, e) == Running /\ timer[a][e] = 0

(* Schedule and cancel events of an application. *)
Pending(a)      == {e \in Event : timer[a][e] # Off}
Set(t, e, left) == [t EXCEPT ![e] = left]
First(x, y)     == IF x # "none" THEN x ELSE y
Check(ok, msg)  == IF ok THEN "none" ELSE msg
Once(a, e)      == Check(timer[a][e] \in {Off, 0}, "Scheduled twice.")
------------------------------------------------------------------------------
(* Mutants: restart at the time of the Poisson process whatever is pending;   *)
(* MaxOnTime without room for the release; no retry.                          *)
RestartDelayNone(a) == nextTry[a]
MaxOnTimeLong(try)  == try
RetryNever(a, t)    == Set(t, "try", Off)

(* Time to the next try after a stop: at least two seconds from now.          *)
RestartDelay(a) == IF nextTry[a] < 2 * Sec THEN 2 * Sec ELSE nextTry[a]

(* SetNextAppStartTry: MaxOnTime is five seconds shorter than the interval.   *)
MaxOnTime(try) == try - 5 * Sec

(* After a try that did not start the application. *)
Retry(a, t) == Set(t, "try", nextTry'[a])

TooLate == stopTime # 0 /\ now > stopTime

(* AppStartTry.  After the stop time the application is given up.             *)
AppStartTry(a, rand, outcome) ==
    LET t == Set(timer[a], "try", Off)
    IN /\ Due(a, "try")
       /\ outcome = "blocked" => a \in Dedicated
       /\ nextTry' = [nextTry EXCEPT ![a] = NextTry(rand)]
       /\ maxOnTime' = [maxOnTime EXCEPT ![a] = MaxOnTime(NextTry(rand))]
       /\ \/ /\ TooLate
             /\ timer' = [timer EXCEPT ![a] = t]
             /\ UNCHANGED st
          \/ /\ ~TooLate /\ outcome # "authorized"
             /\ timer' = [timer EXCEPT ![a] = Retry(a, t)]
             /\ UNCHANGED st
          \/ /\ ~TooLate /\ outcome = "authorized"
             /\ timer' = [timer EXCEPT ![a] = Set(t, "start", Sec)]
             /\ st' = IF a \in Dedicated THEN [st EXCEPT ![a] = "active"] ELSE st
       /\ fault' = First(Check(~active[a], "Can't start an active application."),
                   First(Check(TooLate \/ outcome = "unlucky" \/ a \notin Dedicated
                                  \/ st[a] # "active", "Bearer should be inactive."),
                         IF TooLate \/ outcome # "authorized" THEN "none"
                         ELSE Once(a, "start")))
       /\ UNCHANGED <<stopTime, active, forced, now>>

(* Uni5onClient::Start; ForceStop is due MaxOnTime later.                     *)
Start(a) ==
    /\ Due(a, "start")
    /\ active' = [active EXCEPT ![a] = TRUE]
    /\ forced' = [forced EXCEPT ![a] = FALSE]
    /\ timer' = [timer EXCEPT ![a] = Set(Set(@, "start", Off), "maxOn", maxOnTime[a])]
    /\ fault' = First(Check(~active[a], "Can't start an already active application."),
                      Once(a, "maxOn"))
    /\ UNCHANGED <<stopTime, nextTry, maxOnTime, st, now>>

(* Mutant: the MaxOnTime event stays scheduled. *)
ForceStopNoCancel(a) ==
    /\ forced' = [forced EXCEPT ![a] = TRUE]
    /\ timer' = [timer EXCEPT ![a] = IF a \in Udp THEN Set(@, "report", Sec) ELSE @]
    /\ fault' = First(Check(active[a], "Can't stop an inactive application."),
                      IF a \in Udp THEN Once(a, "report") ELSE "none")
    /\ UNCHANGED <<stopTime, nextTry, maxOnTime, active, st, now>>

(* ForceStop: a UDP client reports its stop one second later.                 *)
ForceStop(a) ==
    LET t == Set(timer[a], "maxOn", Off)
    IN /\ forced' = [forced EXCEPT ![a] = TRUE]
       /\ timer' = [timer EXCEPT ![a] = IF a \in Udp THEN Set(t, "report", Sec) ELSE t]
       /\ fault' = First(Check(active[a], "Can't stop an inactive application."),
                         IF a \in Udp THEN Once(a, "report") ELSE "none")
       /\ UNCHANGED <<stopTime, nextTry, maxOnTime, active, st, now>>

(* The maximum duration is over, or the traffic length is (m_stopEvent).      *)
MaxOnTimeOver(a) == Due(a, "maxOn") /\ ForceStop(a)
TrafficEnds(a)   == Running /\ active[a] /\ ~forced[a] /\ ForceStop(a)

(* NotifyStop of the application, and NotifyAppStop of the traffic manager.   *)
NotifyAppStop(a) ==
    LET t == Set(Set(timer[a], "maxOn", Off), "report", Off)
        r == IF a \in Dedicated THEN Set(t, "release", Sec) ELSE t
    IN /\ active' = [active EXCEPT ![a] = FALSE]
       /\ st' = IF a \in Dedicated THEN [st EXCEPT ![a] = "stopped"] ELSE st
       /\ timer' = [timer EXCEPT ![a] =
                       IF RestartApps THEN Set(r, "try", RestartDelay(a)) ELSE r]
       /\ fault' = First(Check(active[a], "Can't stop an inactive application."),
                   First(Once(a, "release"), Once(a, "try")))
       /\ UNCHANGED <<stopTime, nextTry, maxOnTime, forced, now>>

UdpStop(a) == Due(a, "report") /\ NotifyAppStop(a)
(* When TCP has delivered its last bytes, forced or not. *)
TcpStop(a) == Running /\ a \notin Udp /\ active[a] /\ NotifyAppStop(a)

DedicatedBearerRelease(a) ==
    /\ Due(a, "release")
    /\ timer' = [timer EXCEPT ![a] = Set(@, "release", Off)]
    /\ st' = [st EXCEPT ![a] = "idle"]
    /\ fault' = Check(st[a] # "active", "Bearer should be inactive.")
    /\ UNCHANGED <<stopTime, nextTry, maxOnTime, active, forced, now>>

Tick ==
    /\ Running
    /\ \A a \in App : \A e \in Event : timer[a][e] # 0
    /\ timer' = [a \in App |-> [e \in Event |->
                    IF timer[a][e] = Off THEN Off ELSE timer[a][e] - 1]]
    /\ nextTry' = [a \in App |-> IF nextTry[a] > 0 THEN nextTry[a] - 1 ELSE 0]
    /\ now' = IF now <= stopTime THEN now + 1 ELSE now
    /\ UNCHANGED <<stopTime, maxOnTime, active, forced, st, fault>>
------------------------------------------------------------------------------
(* AddUni5onClient: the first try.  (Its delay is one of the inter-arrival    *)
(* times; a later start time only shifts the clock.)                         *)
Init ==
    /\ stopTime \in StopTimes
    /\ \E first \in [App -> InterArrivals] :
          timer = [a \in App |-> [e \in Event |-> IF e = "try" THEN Sec + first[a]
                                                             ELSE Off]]
    /\ nextTry = [a \in App |-> 0]
    /\ maxOnTime = [a \in App |-> 0]
    /\ active = [a \in App |-> FALSE] /\ forced = [a \in App |-> FALSE]
    /\ st = [a \in App |-> "idle"]
    /\ now = 0
    /\ fault = "none"

Next ==
    \/ \E a \in App :
          \/ \E rand \in InterArrivals, outcome \in Outcome :
                AppStartTry(a, rand, outcome)
          \/ Start(a)
          \/ MaxOnTimeOver(a) \/ TrafficEnds(a)
          \/ UdpStop(a) \/ TcpStop(a)
          \/ DedicatedBearerRelease(a)
    \/ Tick

(* The simulator goes on, and TCP delivers in the end.                        *)
Fairness ==
    /\ WF_vars(Tick)
    /\ \A a \in App :
          /\ WF_vars(\E rand \in InterArrivals, outcome \in Outcome :
                        AppStartTry(a, rand, outcome))
          /\ WF_vars(Start(a)) /\ WF_vars(MaxOnTimeOver(a))
          /\ WF_vars(UdpStop(a)) /\ WF_vars(DedicatedBearerRelease(a))
          /\ WF_vars(forced[a] /\ TcpStop(a))

Spec == Init /\ [][Next]_vars /\ Fairness
------------------------------------------------------------------------------
TypeOK ==
    /\ stopTime \in StopTimes
    /\ timer \in [App -> [Event -> Int]]
    /\ \A a \in App : \A e \in Event : timer[a][e] >= Off
    /\ nextTry \in [App -> Nat]
    /\ maxOnTime \in [App -> Nat]
    /\ active \in [App -> BOOLEAN] /\ forced \in [App -> BOOLEAN]
    /\ st \in [App -> {"idle", "active", "stopped"}]
    /\ now \in 0 .. stopTime + 1
    /\ fault \in Fault

(***************************************************************************)
(* No NS_ASSERT fails, and no event is scheduled while it is pending: the     *)
(* applications are started, stopped and released in order although each      *)
(* handler only schedules the next ones.                                     *)
(***************************************************************************)
NoAssertFails == fault = "none"

(***************************************************************************)
(* The timeline of SetNextAppStartTry.  "E-F: at least 1 sec": a bearer is    *)
(* released at least a second before the next try of its application.  "B-C:  *)
(* at least 3 secs" and the rest: an application that is not kept by TCP has   *)
(* stopped, and its bearer is released, before the time that the Poisson      *)
(* process set for its next try.                                             *)
(***************************************************************************)
TimelineHolds ==
    /\ \A a \in App :
          st[a] = "stopped" =>
              /\ timer[a]["release"] # Off
              /\ timer[a]["try"] # Off => timer[a]["try"] >= timer[a]["release"] + Sec
    /\ \A a \in Udp :
          /\ active[a] => nextTry[a] >= 2 * Sec
          /\ (active[a] /\ ~forced[a]) => timer[a]["maxOn"] + 4 * Sec <= nextTry[a]
          /\ st[a] = "stopped" => timer[a]["release"] < nextTry[a]
          /\ "start" \in Pending(a) => maxOnTime[a] >= 3 * Sec

(***************************************************************************)
(* Every application is tried again and again, unless it may not restart or   *)
(* there is a stop time.                                                     *)
(***************************************************************************)
TriedAgain ==
    (RestartApps /\ stopTime = 0) => \A a \in App : []<>(timer[a]["try"] = 0)

(***************************************************************************)
(* The bearers live as the contract with the controllers says.               *)
(***************************************************************************)
Life == INSTANCE BearerLife WITH Bearer <- Dedicated,
                                 st <- [a \in Dedicated |-> st[a]]
KeepsContract == Life!Spec
==============================================================================
