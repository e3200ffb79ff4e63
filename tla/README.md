# UNI5ON in TLA+

UNI5ON is a simulation scenario for ns-3: an LTE network whose backhaul is a ring of OpenFlow switches, sliced between services, with an SDN controller that admits traffic, reserves bit rate along the ring and moves it when phones move. The repository holds all of ns-3; the project's own code is `src/scratch/uni5on` (83 files, about 24,000 lines), and that is what these modules are about. File names below are relative to it.

The simulator is single-threaded: every event runs to its end before the next. The hard behaviour is therefore not in data races but between events: seconds pass between a request, a start, a stop and a release; a handover, a timeout or another client's data falls in between; and counters that two controllers share must come out exact at the end.

## 1. Inventory

| Part | State it keeps | Operations | Interacts with |
|---|---|---|---|
| Ring routing (`ring-controller.cc`, `ring-info.cc`, `ring-network.cc`) | number of switches, the path of each bearer and interface | shortest path, inversion, hop-by-hop walk | every check and reservation walks it |
| Ring controller (`ring-controller.cc`, `link-info.cc`, `routing-info.cc`) | flags of each bearer; reserved, extra and metered bit rate of each link, direction and slice | `BearerRequest`, `BearerReserve`, `BearerRelease`, `BearerInstall`, `BearerUpdate`, `BearerRemove` | called by the slice controllers; shares `LinkInfo` with inter-slicing |
| Inter-slicing (`backhaul-controller.cc`) | extra bit rates and meters in `LinkInfo` | `SlicingDynamicTimeout`, `SlicingExtraAdjust`, `SlicingMeterAdjust` | reads throughput, writes meters; called after each reservation |
| Slice controllers (`slice-controller.cc`, `pgw-info.cc`, `sgw-info.cc`) | sessions, gateways, aggregation, P-GW TFT level | sessions, `DedicatedBearerRequest/Release`, `DoModifyBearerRequest`, TFT load balancing | traffic managers call it, it calls the ring controller |
| Traffic managers (`traffic-manager.cc`) | time of the next try of each application | `AppStartTry`, `NotifyAppStop` | the applications' trace sources, the slice controller |
| Applications (`applications/`) | active and force-stop flags, scheduled events, connections | start, stop, force stop, exchange of messages | traffic managers, TCP and UDP |
| MME, eNB application, radio network | UE tables, TEIDs | attach, X2 handover | relay to the slice controllers |
| QoS queue, GTP tunnels | queue tokens; none | packets | the switches |
| Statistics, helpers, `main.cc` | output files; none | observe; build the scenario | trace sources |

What is hard, and what would be correct:

* *Ring walks.* Index arithmetic that wraps, a loop repeated in nine places. Correct: it ends, never meets a link twice, visits what the path promises.
* *Admission and accounting.* A bearer holds bit rate on two interfaces whose paths may overlap, may be rerouted, and may move to another eNB while it is reserved or while its release is pending. Correct: the counters are the sum of what is held, what was accepted can be reserved, what is gone left nothing.
* *Inter-slicing.* Nested loops with iterators that jump back, over counters that other handlers also change. Correct: they end, relieve a congested link, respect priorities, and the meters follow.
* *Timed application life.* Five kinds of scheduled events per application. Correct: they happen in an order that no assertion forbids, and each application is tried for ever.
* *TCP exchanges.* A byte stream cut anywhere, a force stop at any moment, function-local statics. Correct: pages are complete, bytes are counted for the right client, force stops end.
* *Rules in the switches.* A handover installs new rules with a higher priority and deletes the old ones 250 ms later, meters 300 ms later; deleted rules are reported by messages. Correct: packets, those in flight included, are always carried and metered, nothing stays behind, and no message is mistaken.
* *TFT load balancing.* One change of the level takes up to a second: moves at random times, a redirection, deletions; bearers come and go meanwhile. Correct: traffic finds its rule, a change is over before the next, and the level does not oscillate.
* *Output queues.* Tokens that are reset by a recursive call. Correct: no queue starves in the round robin, the port never idles with packets waiting.

## 2. Modules

| Module | Models | State and actions |
|---|---|---|
| `RingPaths` | pure functions on paths: `GetNextSwIdx`, `GetNumHops`, `GetShortPath`, `InvertPath`, and the links and switches of a path as sets | constant: the number of switches |
| `RingWalk` | the `while` loop of `GetLinkSet` and its copies | current switch, links and switches met, hops; `Hop`, `Last` |
| `RingController` (uses `RingPaths`) | what the slice controller's request, release and handover do together with the ring controller and `LinkInfo` | one variable per flag of `RoutingInfo`/`RingInfo`, the counters of `LinkInfo`; one action per handler. The handler of a handover is a loop over bearers: one action per iteration, with nothing in between |
| `InterSlice` | `SlicingExtraAdjust` and the slicing meters on one direction of one link | counters of `LinkInfo`, the loop's locals in `adj`; one action per iteration, because order and termination of the loops are the question |
| `BearerLife` | abstract: the contract about a dedicated bearer between those who request it and those who provide it | request, stop, release |
| `TrafficManager` (implements `BearerLife`) | `TrafficManager` and the start and stop of its applications | ticks left to every scheduled event; one action per event, and `Tick` |
| `HttpTraffic` | `HttpClient`/`HttpServer` and, with `kind = "video"`, `BufferedVideoClient`/`BufferedVideoServer` | flags, events, what is on its way in each direction, the shared statics; one action per callback |
| `FlowRules` (uses `RingPaths`) | the S1-U rules and MBR meters of one bearer in the ring's switches and the S-GW: `RulesInstall`, `RulesUpdate`, `RulesRemove`, the S-GW's rules, `DpctlSchedule`, `HandleFlowRemoved` | the flags of `RoutingInfo`, the tables and meters of the switches, commands scheduled and messages on their way, each with the ticks left; one action per handler and per scheduled event |
| `TftBalancing` | `PgwTftLoadBalancing`, `PgwRulesMove`, and installation and removal in the P-GW's TFT switches | level, table of the main switch, `m_pgwTftIdx` of each bearer, rules per TFT switch, scheduled moves, deletions and redirections |
| `QosQueue` | `Uni5onQosQueue` | packets per queue, tokens; `Enqueue`, `Dequeue`; and, for the property only, how many packets have passed each queue that waits |
| `MC...` | values of the constants for TLC | |
| `...Proofs` | theorems and proofs | |

How they fit: `TrafficManager` produces requests, stops and releases; that it does so in the order of `BearerLife` is checked by refinement. `RingController`, `FlowRules` and `TftBalancing` take requests, stops and releases of bearers in that order as their environment (`st`), the last two with the times that `TimelineHolds` of `TrafficManager` promises: a release one second after the stop, a request at least one second after the release. `FlowRules` follows one bearer through the switches in the handovers for which `RingController` keeps the accounts. `RingController` sets the reserved bit rates and keeps them within the quota; `InterSlice` takes any such changes on its link. The extra bit rates go the other way: `RingController` lets them change to any of a set of profiles.

An NS_ASSERT that fails ends the program. The models have a variable `fault` for it: the message of the failed assertion, after which nothing happens. `NoAssertFails` says that there is none.

### Abstractions

* Bit rates are small integers. Where a conversion rounds (percent of a link, Kbps of a meter) the rounding is modelled; `LinkBitRate`, `Kilo` and the steps give the grain.
* In `RingController`, OpenFlow rules are the flags that the controller keeps about them (`gwInst`, `ifInst`); `FlowRules` relates the same flags to the rules. Loads of CPUs and tables are what the switches may report: any of the constant `Loads`, chosen anew for each request.
* `RingController` starts when all UEs have attached. Default bearers hold no bit rate and are left out.
* `InterSlice` takes the measured long-term throughput from a set; `RingController` takes the result of the adjustment.
* TCP delivers in order and cuts anywhere. A message header is one unit that is not cut; a payload is a few units.
* `FlowRules` and `TftBalancing`: a command reaches its switch in the event that sends it, and tables are never so full that a switch refuses a rule. Rules and meters carry the TEID, so that bearers do not meet and one bearer is enough in `FlowRules`. A bearer has traffic in both directions. That an OpenFlow switch deletes the rules that name a deleted meter is not modelled; `MetersInPlace` shows that there are none. Only AUTO changes the level in `TftBalancing`, so it is the only mode there.
* `QosQueue`: packets of one queue are alike.
* A handover of `RingController` may go between any two eNBs at any time that no other handler runs.

## 3. What the runs check

Every run ends by exhausting its state space.

| Run | Question |
|---|---|
| `ring_walk` | For every pair of six switches and both directions: termination, no link twice, the walk is the path, the shortest path is shortest |
| `ring_spo` | Three bearers of two UEs and two slices, three eNBs (two at one switch, one at the S-GW's switch), uplink larger than downlink, extra bit rate that comes and goes, a block threshold below the quota, handovers at any time: exact accounting and no assertion |
| `ring_spf` | No assertion with rerouting, aggregation ON, AUTO and OFF, switches whose CPU or table is overloaded, gateways whose table is full, equal rates in both directions |
| `ring_overlap` | Finding: with rerouting *and* different rates, `NoAssertFails` is violated |
| `inter_slice` | Three slices, two of one priority, every combination of throughputs that the link can carry, after any history of adjustments; and, in four more settings, the meters of all four modes with reservations, releases and a slice that does not share |
| `http_traffic` | A client of pages, a client of video, and two clients of pages interleaved: every way to cut the stream, every moment of a force stop, that a forced stop is reported, that a lone client's unsigned counter of pending objects never wraps, and what still holds when clients share the statics |
| `http_shared`, `http_forced` | Findings: the statics; the page after a force stop |
| `traffic_manager` | A UDP and a TCP application, every combination of inter-arrival times below, at and above the minimum, TCP finishing at any time: the order of all events, refinement of `BearerLife`, every application tried for ever |
| `flow_rules` | One bearer handed over among eNBs on the same switch, on the S-GW's and on a distant one, with an MBR in both directions or downlink only, released and requested again: packets carried and metered at every moment, in-flight ones included; no flow-removed message aborts; nothing stays behind |
| `tft_balancing` | Two UEs with a default and a dedicated bearer each, one, two or four TFT switches: every combination of random delays against requests, starts, stops and releases at any time |
| `qos_queue` | The queues and weights of the code: any arrivals and any moment of service |

Each property of a passing run has a mutant in `PROJECT.json`: a change of one definition as a plausible bug would make it (a dropped overlap check, `nextTry` without the two seconds, a flag not reset), under which the run reports the property violated. The mutated definitions stand in the modules beside the ones they replace, marked *Mutant*.

### The bounds and why they are enough

* *Ring of four switches, P-GW and S-GW opposite each other* (`RingController`): the smallest ring in which S5 and S1-U of one bearer can overlap in the same and in the opposite direction, a path can be local, one or two hops, and the inverted path has a different length. `ring_walk` has six switches, and the theorems any number.
* *Three bearers, two slices in use*: two compete for the quota of one slice, one is of another slice; two are of one UE, so that a handover has a loop of two. Quotas of two to four units let the second or third request fail.
* *Inter-slicing*: a quota of 32, 13 and 19 percent of 16 units makes every quota a rounded number, steps of two make `step / 2` and `2 * step` distinct; the throughputs are below quota, above it, and most of the link. `ExtraBounded` keeps the extra bit rate finite without a bound of the model.
* *Ticks of one second* and inter-arrival times of 2, 8 and 10: below, at and above the minimum of eight. All delays in the code are whole seconds.
* *`FlowRules`*: ticks of 50 ms, the greatest common divisor of 250, 300 and 1000; 512 ms round down to 500, which lets handovers follow each other sooner than in the code. A flow-removed message takes at most one tick and may be overtaken by others. `MaxPrio` bounds installations and handovers of a behaviour to four: enough for a release and a request between handovers, a handover back, and one while a release is pending. A ring of four with a local, a near and a far eNB has every kind of path.
* *`TftBalancing`*: ticks of 250 ms and the minimum timeout, which leaves the least room between two changes. The addresses of the two UEs agree in the last bit and differ in the one before it, so that the first split moves both to one switch and the second one parts them. A table of five rules: four reach the split threshold (80 percent), one alone is below the join threshold (30), and the CPU use adds splits, joins and refusals at other times.
* *`QosQueue`*: weights 4 and 1 as in the code; queues of three packets instead of 100 (a queue need only stay non-empty), and the theorem has no bound.
* *Objects of at most two units, at most two inline objects; `CounterSize` 4 for the 32-bit counter*: enough to cut a message in every way and for the counter to wrap.

### Fairness

`RingWalk` and the loops of `InterSlice` are weakly fair because a simulator event that began runs to its end. `TrafficManager` is weakly fair in each scheduled event and in `Tick` because ns-3 runs all scheduled events and goes on; and in the end of a TCP transfer *that was forced to stop*, because the server's pending bytes are finite and TCP delivers them. An application that was not forced is not assumed to end: `MaxOnTime` forces it. `HttpTraffic` is weakly fair in connecting, delivering, answering and scheduled events; not in starting. The other modules state no liveness and no fairness: their properties bound times instead, with ticks (`SettledInTime`) or turns (`WaitBounded`).

`TriedAgain` assumes `RestartApps` and no stop time: otherwise the code gives up on purpose. Attributes that never change in a simulation are chosen by the initial state where one run is to cover several of their values (`setting` in `InterSlice` and `HttpTraffic`, `stopTime`, `mbr`). Deadlock is checked in every run but `ring_walk`, where a walk that has ended stops.

## 4. What is proved

Checked by TLAPS, for all values of the constants that satisfy the modules' assumptions:

* `RingWalkProofs`: on a ring of any size a walk meets no link twice (`NoLinkTwiceHolds`), visits exactly `PathLinks` and `PathSwitches` in `GetNumHops` hops (`WalkIsPathHolds`), and the shortest path is not longer than its inversion (`ShortPathIsShortestHolds`). The invariant ties the current switch to the number of hops made: the switch is the start plus (or minus) the hops, modulo the size. With that, "no link twice" is that fewer hops than switches have been made.
* `RingControllerProofs`: `TypeOKHolds`, `ConservedHolds`, `AllIsSumHolds`, `NothingLeftBehindHolds` for every ring, strategy, aggregation mode, slice, bearer and load, and `NoAssertFailsHolds` under `OverlapsAddUp`.

**Why the accounting needs an inductive invariant.** That a counter stays a natural number is not inductive: a release subtracts, and only the exact accounting says that what it subtracts is there. So `TypeOK`, `Conserved`, `AllIsSum` and `NothingLeftBehind` are proved together, as `LedgerInv`, with `HandoverOK`: the bearers that the handover loop has yet to update belong to its UE and have rules. `EnbOf` makes `Conserved` meaningful within the loop: it names the eNB whose path a bearer's reservation follows at that moment.

**How sums are proved.** What the bearers hold is a sum over a set, and sums defined by recursion are out of the prover's reach. `Conserved` states the sum as the cardinality of a set of units, one element per bearer, interface and unit of bit rate. A reservation adds disjoint units and a release removes some, so that the facts about unions and differences in `FiniteSetTheorems` are enough: `UnitsChange` is the lemma that every action uses.

**Assertions.** `NoAssertFailsHolds` strengthens `LedgerInv` to `ReserveInv` with `WithinQuota` (a reservation never passes the quota) and `S5IsShortest` (under SPO the S5 path never changes). The assumption `OverlapsAddUp` is `Strategy = "SPO"`, or equal rates in both directions for every bearer. It is needed: `ring_overlap` is the counterexample without it. Under SPO both paths are shortest, and two shortest paths that meet at the S-GW's switch and share a link cross it in opposite directions (lemma `ShortPathsOpposite`), which is the case that the check covers.

* `QosQueueProofs`: `WaitBoundedHolds` and `WorkConservingHolds`, for any number of queues and any positive weights. `WaitBounded` is not inductive: it does not say how much of a round is left. `TurnsLeft` does: while queue `q` has no tokens, packets of `r` that have passed it are at most those that `r` has spent in this round; while it has tokens, nothing behind it can pass at all until the loop reaches it, and those before it can spend what is left of theirs. The reset of the tokens is where the two cases meet.

* `TrafficManagerProofs`: `NoAssertFailsHolds`, `TimelineAlwaysHolds` and `ContractSteps`, for any applications and delays. The invariant says in which of four phases an application is (waiting for a try, waiting for its start, playing, stopping) and which events are scheduled in each. Only with that do the assertions hold inductively: whether `AppStartTry` finds an inactive application depends on which events came before it. `ContractSteps` is the refinement of `BearerLife` without its fairness.
* `TftBalancingProofs`: `TrafficFindsRuleHolds`, `RulesWhereIndexedHolds`, `SettledInTimeHolds`, for any bearers, number of switches and delays. The invariant ties what is left to each move, redirection and deletion to what is left of the round, from one load balancing to the next. Three facts carry it: deletions outlive the redirection (`OldServed`: 750 ms after a move, 500 ms after the decision); a bearer requested before the redirection starts its traffic after it (one second); and a deletion is over before the bearer that left it may be requested again (`DeletesOK`). Delays are whole numbers of ticks, so that each is a multiple of `Rand`, the longest random delay (lemma `Delays`). `PowerAssumption` states that `2 ^ lev` stays within `2 ^ MaxLevel`: induction over the exponent is out of the prover's reach, and TLC evaluates it.

* `JoinStaysHolds` (also `TftBalancingProofs`): when a join has just put the bearers of two switches on one, that switch is below the split threshold, so that the next round does not split again. `Halves` says that the bearers of a switch after the join are those of two switches before it, and the use of the fullest table bounds both (`Greatest`, `TablesBelow`), as the join threshold is below half of the split threshold. The second half of `PowerAssumption`, `2 ^ lev = 2 * 2 ^ (lev - 1)`, is for this.

* `FlowRulesProofs`: every property of `flow_rules`, for a ring of any size, any eNBs, any handovers and any number of them. `Inv` ties the rules and meters to the commands that are still to come: what the switches carry is the rules of the last priority (`CurrentRules`) and, until their commands have run, one generation of older ones. `OldPathOK` names the eNB and the path of that generation. It is at most one because the commands of a handover are over before the next handover (`TimesOK`). `NothingStale` follows directly; `Served` and `InFlightServed` need that a walk along a path whose switches agree on the direction arrives, an induction over the hops that is done with the first hop which departs from the path (`Least`, `Walk`). A packet in flight may change from old to new rules on its way: `OtherSide` says that where a packet that started off the new path meets it, both paths lead on in the same direction. The theorems assume ticks of at most 50 ms, so that 250, 300, 512 and 1000 ms are different numbers of ticks, and a flow-removed message that takes less than one second: a later one would still be on its way when the bearer is requested again, which `TimesOK` excludes.

* `HttpTrafficProofs`: every safety property of `http_traffic`, for any finite set of clients and any sizes and numbers of objects. The invariant says in which of four phases a connection is (not open, requested, answered, reading) and what is on its way in each; that a client and its server exchange one message at a time (`OneExchange`) is what makes the counters of pending bytes on both sides agree (`Answered`). Whole pages and videos (`PageCompleteAloneHolds`, `VideoCompleteHolds`) are proved for a client that has the static locals to itself (`Alone`), with `CountOK`: the client's count of pending objects is the number of inline objects still to come. From it follows `NeverWrapsHolds` as well: an inline message of such a client ends only while the unsigned counter has something left to take off. Without `Alone` all three are wrong (section 5): with two clients of pages the counter does wrap, in `http_shared` too. `Remaining` and `Decrement` model that as the code does it, modulo `CounterSize`, so that the counter's range says nothing; `TypeOK` of `HttpTraffic` is a part of the invariant and no property of a run.

* `InterSliceProofs`: every invariant of `InterSlice`, for any link, quotas, priorities, steps, guard and throughputs, in every inter-slicing mode. The invariant `Inv` has one part per loop: what holds each time the loop's condition is evaluated. `GrowOK` says what the slices that had their turn have got, and that the idle bit rate left is at most the threshold less the usage; `ExtraBounded` follows from that bound, not from the state at the end. `CutOK` is the hard one: `PlaceOK` says which slices have the priority that is being cut, `OrderOK` what lower priorities have left and higher ones have lost, and `TurnsOK` by how much a slice may be ahead of another of its priority, which depends on where the loop is (`Ahead`). The bound that two slices of one priority never differ by two steps is not inductive without it. The meters are left alone until the loops are done, so `MetersOK` follows those of the sharing slices only between events. `LoopsDescend` is what can be proved of the loops' end without fairness: every step of an adjustment lowers, in lexicographic order, the loops to come, the extra bit rate that the loop may still take back, and the slices that have yet to have their turn. The third loop goes back to the first slice of a priority, which the removed flag pays for (`ExtraLeft`). No other event comes between the steps.

The constants' other assumptions are the `ConstAssumption` of each module, which TLC evaluates in the runs.

**Only model-checked:** liveness, which needs fairness: the end of each walk (`Terminates` in `RingWalk`), the end of an adjustment in `InterSlice` (`AdjustmentEnds`, of which `LoopsDescend` is the measure), `TriedAgain` and the fairness of `KeepsContract` in `TrafficManager`, `StopIsReported` in `HttpTraffic`. Every invariant and every action property of the passing runs is a theorem.

## 5. Findings

1. `ring-controller.cc:389`: an accepted bearer cannot be reserved when S5 and S1-U share a link in the same direction and the bearer's two rates differ (`ring_overlap`).
2. `http-client.cc:166`: static locals shared by all web clients, and likewise `buffered-video-client.cc:112` (`http_shared`).
3. `http-client.cc:229`: after a force stop in the last object of a page the client requests another page (`http_forced`). `http_traffic` shows that it still stops when a page has inline objects: `m_pendingObjects` is then not 0 after the main object. While pages announce none, which the server's random variable allows (`http-server.cc:220`), it loads one after the other, so `StopIsReported` excepts them.

An observation, without a run: `ring-controller.cc:108` sets only the S1-U path back to the shortest one, so that under SPF an S5 path that an earlier request inverted stays inverted, and a later request is admitted on the longer path although the shortest has room.

## 6. Not modelled

* *MME, eNB application, GTP applications, radio network*: relays, tables filled at attach, and per-packet translation; packets are not modelled.
* *Statistics, helpers, topology construction, `main.cc`*: they observe, or run before the simulation starts.
* *EWMA of the throughput, sessions, UDP sending loops*: not yet; see the plan.
* *Flow tables that are full, default priorities after thousands of handovers, the moves that admission does not count*: listed as hazards with the reason.
* *S5 rules of the ring*: a handover does not touch them; installation and removal are those of S1-U.
* *A refused TCP connection* and *a video without chunks*: listed as hazards; the models assume the environment in which they do not happen.
* *ns-3 and the switch library*: third-party. The passing of time (`Tick`) is all that the models take from ns-3's simulator: scheduled events run in the order of their times (`ProcessOneEvent` of its default implementation).

## 7. Plan

Done, in this order: `RingPaths`, `RingWalk` with proofs; `RingController` with proofs; `InterSlice`; `HttpTraffic`; `TrafficManager` with `BearerLife`; `FlowRules`; `TftBalancing`; `QosQueue` with proofs; proofs about `TrafficManager`, `TftBalancing`, `InterSlice`, `FlowRules` and `HttpTraffic`.

Next:

1. `Sessions`: attach, MME relays, default bearers, `UeInfo` and `RoutingInfo` tables.
2. `UdpTraffic`: UDP and live video with packets in flight at the stop.
3. Identifiers: TEID, cookie and meter identifiers encode and decode without collisions.
4. An abstract ledger (bearers hold bit rate or do not) that `RingController` implements, and the composition of `TrafficManager` with it.
