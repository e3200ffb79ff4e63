---------------------------- MODULE QosQueueProofs -----------------------------
(***************************************************************************)
(* For any number of queues in round robin and any positive weights, no queue  *)
(* waits longer than WaitBounded says, and a port never idles with packets.    *)
(***************************************************************************)
EXTENDS QosQueue, TLAPS, FiniteSetTheorems

(***************************************************************************)
(* A set of queues that is not empty has a first one.                         *)
(***************************************************************************)
LEMMA FirstQueue ==
    ASSUME NEW S \in SUBSET Wrr, S # {}
    PROVE  \E q \in S : \A r \in S : q <= r
<1> DEFINE Upto(q) == 0 .. q
           T == {Upto(q) : q \in S}
           R == StrictSubsetOrdering(Nat)
<1>1. S \subseteq Nat
  BY ConstAssumption DEF Wrr
<1>2. T \subseteq FiniteSubsetsOf(Nat) /\ T # {}
  <2>1. ASSUME NEW q \in S
        PROVE  Upto(q) \in FiniteSubsetsOf(Nat)
    <3>1. IsFiniteSet(Upto(q))
      BY <1>1, FS_Interval, 0 \in Int, q \in Int
    <3>2. Upto(q) \in SUBSET Nat
      BY <1>1
    <3> QED
      BY <3>1, <3>2 DEF FiniteSubsetsOf
  <2> QED
    BY <2>1
<1>3. IsWellFoundedOn(R, FiniteSubsetsOf(Nat))
  BY FS_StrictSubsetOrderingWellFounded
<1>4. \A q, r \in S : r < q => <<Upto(r), Upto(q)>> \in R
  <2> SUFFICES ASSUME NEW q \in S, NEW r \in S, r < q
               PROVE  <<Upto(r), Upto(q)>> \in R
    OBVIOUS
  <2>1. Upto(r) \subseteq Upto(q) /\ q \in Upto(q) /\ q \notin Upto(r)
    BY <1>1
  <2>2. Upto(r) \in SUBSET Nat /\ Upto(q) \in SUBSET Nat
    BY <1>1
  <2> QED
    BY <2>1, <2>2 DEF StrictSubsetOrdering
<1> HIDE DEF R
<1>5. PICK X \in T : \A Y \in T : ~ (<<Y, X>> \in R)
  BY <1>2, <1>3, WFMin
<1>6. PICK q \in S : X = Upto(q)
  BY <1>5
<1>7. \A r \in S : ~ (r < q)
  BY <1>4, <1>5, <1>6
<1> QED
  BY <1>1, <1>7

(***************************************************************************)
(* What the loop over the queues returns when one of them has packets and      *)
(* tokens.                                                                   *)
(***************************************************************************)
LEMMA ServeFacts ==
    ASSUME NEW t \in [Wrr -> Nat], Ready(t) # {}
    PROVE  LET s == Serve(t)
           IN /\ s.queue \in Wrr /\ len[s.queue] > 0 /\ t[s.queue] > 0
              /\ \A r \in Wrr : (len[r] > 0 /\ t[r] > 0) => s.queue <= r
              /\ s.tokens = [t EXCEPT ![s.queue] = @ - 1]
<1> DEFINE q == CHOOSE q \in Ready(t) : \A r \in Ready(t) : q <= r
<1>1. Ready(t) \in SUBSET Wrr
  BY DEF Ready, Waiting
<1>2. q \in Ready(t) /\ \A r \in Ready(t) : q <= r
  BY <1>1, FirstQueue
<1>3. Serve(t) = [queue |-> q, tokens |-> [t EXCEPT ![q] = @ - 1]]
  BY DEF Serve, Spend
<1> QED
  BY <1>2, <1>3 DEF Ready, Waiting
------------------------------------------------------------------------------
(***************************************************************************)
(* The three outcomes of a call of Dequeue that finds a packet: the priority   *)
(* queue; a queue with tokens left; a queue after the reset.                  *)
(***************************************************************************)
LEMMA NextQueueFacts ==
    ASSUME TypeOK
    PROVE  LET s == GetNextQueueToServe
           IN \/ s.queue = 0 /\ len[0] > 0 /\ s.tokens = tokens
              \/ /\ len[0] = 0 /\ s.queue \in Wrr /\ len[s.queue] > 0
                 /\ tokens[s.queue] > 0
                 /\ \A r \in Wrr : (len[r] > 0 /\ tokens[r] > 0) => s.queue <= r
                 /\ s.tokens = [tokens EXCEPT ![s.queue] = @ - 1]
              \/ /\ len[0] = 0 /\ s.queue \in Wrr /\ len[s.queue] > 0
                 /\ \A r \in Wrr : len[r] > 0 => s.queue <= r /\ tokens[r] = 0
                 /\ s.tokens = [Weight EXCEPT ![s.queue] = @ - 1]
              \/ /\ \A q \in Queue : len[q] = 0
                 /\ s.queue = None /\ s.tokens = tokens
<1>1. CASE len[0] > 0
  BY <1>1 DEF GetNextQueueToServe
<1>2. CASE ~(len[0] > 0) /\ Ready(tokens) # {}
  <2>1. GetNextQueueToServe = Serve(tokens)
    BY <1>2 DEF GetNextQueueToServe
  <2>2. len[0] = 0
    BY <1>2, ConstAssumption DEF TypeOK, Queue
  <2> QED
    BY <1>2, <2>1, <2>2, ServeFacts DEF TypeOK
<1>3. CASE ~(len[0] > 0) /\ Ready(tokens) = {} /\ Waiting # {}
  <2>1. GetNextQueueToServe = Serve(Weight)
    BY <1>3 DEF GetNextQueueToServe
  <2>2. len[0] = 0
    BY <1>3, ConstAssumption DEF TypeOK, Queue
  <2>3. Weight \in [Wrr -> Nat] /\ \A r \in Wrr : Weight[r] > 0
    BY ConstAssumption
  <2>4. Ready(Weight) # {}
    BY <1>3, <2>3 DEF Ready, Waiting
  <2>5. \A r \in Wrr : len[r] > 0 => tokens[r] = 0
    BY <1>3 DEF Ready, Waiting, TypeOK
  <2> QED
    BY <2>1, <2>2, <2>3, <2>4, <2>5, ServeFacts
<1>4. CASE ~(len[0] > 0) /\ Ready(tokens) = {} /\ Waiting = {}
  <2>1. \A q \in Queue : len[q] = 0
    <3> SUFFICES ASSUME NEW q \in Queue PROVE len[q] = 0
      OBVIOUS
    <3>1. len[q] \in Nat /\ (q = 0 \/ q \in Wrr)
      BY ConstAssumption DEF TypeOK, Queue, Wrr
    <3>2. q \in Wrr => ~(len[q] > 0)
      BY <1>4 DEF Waiting
    <3> QED
      BY <1>4, <3>1, <3>2
  <2> QED
    BY <1>4, <2>1 DEF GetNextQueueToServe
<1> QED
  BY <1>1, <1>2, <1>3, <1>4
------------------------------------------------------------------------------
Inv == TypeOK /\ TurnsLeft

LEMMA InitInv == Init => Inv
<1> SUFFICES ASSUME Init PROVE Inv
  OBVIOUS
<1>1. TypeOK
  BY ConstAssumption DEF Init, TypeOK, Queue, Wrr, None
<1>2. TurnsLeft
  BY ConstAssumption DEF Init, TurnsLeft, Queue, Wrr
<1> QED
  BY <1>1, <1>2 DEF Inv

LEMMA EnqueueInv ==
    ASSUME Inv, NEW q \in Queue, Enqueue(q)
    PROVE  Inv'
<1>0. TypeOK /\ TurnsLeft
  BY DEF Inv
<1>1. TypeOK'
  BY <1>0, ConstAssumption DEF TypeOK, Enqueue
<1>2. TurnsLeft'
  <2> SUFFICES ASSUME NEW p \in Wrr, NEW r \in Wrr
               PROVE  TurnsLeft!(p, r)'
    BY DEF TurnsLeft
  <2>1. UNCHANGED <<tokens, passed>> /\ (len[p] > 0 => len'[p] > 0)
    BY <1>0, ConstAssumption DEF TypeOK, Enqueue, Queue, Wrr
  <2>2. Weight[r] \in Nat /\ Weight[r] > 0 /\ tokens[r] \in Nat /\ tokens[r] <= Weight[r]
    BY <1>0, ConstAssumption DEF TypeOK
  <2>3. len[p] \in Nat /\ passed[p][r] \in Nat
    BY <1>0, ConstAssumption DEF TypeOK, Queue, Wrr
  <2> QED
    BY <1>0, <2>1, <2>2, <2>3 DEF TurnsLeft
<1> QED
  BY <1>1, <1>2 DEF Inv

(***************************************************************************)
(* Dequeue: either the tokens of the round are spent, or all are reset, which  *)
(* happens only when no queue that waits has one.                            *)
(***************************************************************************)
LEMMA DequeueInv ==
    ASSUME Inv, Dequeue
    PROVE  Inv'
<1> DEFINE s == GetNextQueueToServe
           d == s.queue
<1>0. TypeOK /\ TurnsLeft
  BY DEF Inv
<1>1. /\ served' = d /\ tokens' = s.tokens
      /\ len' = IF d = None THEN len ELSE [len EXCEPT ![d] = @ - 1]
      /\ passed' = Pass(d)
  BY DEF Dequeue
<1>2. \/ d = 0 /\ len[0] > 0 /\ tokens' = tokens
      \/ /\ d \in Wrr /\ len[d] > 0 /\ tokens[d] > 0
         /\ \A r \in Wrr : (len[r] > 0 /\ tokens[r] > 0) => d <= r
         /\ tokens' = [tokens EXCEPT ![d] = @ - 1]
      \/ /\ d \in Wrr /\ len[d] > 0
         /\ \A r \in Wrr : len[r] > 0 => d <= r /\ tokens[r] = 0
         /\ tokens' = [Weight EXCEPT ![d] = @ - 1]
      \/ d = None /\ tokens' = tokens
  BY <1>0, <1>1, NextQueueFacts
<1> HIDE DEF d, s
<1>3. \A r \in Wrr : /\ Weight[r] \in Nat /\ Weight[r] > 0
                     /\ tokens[r] \in Nat /\ tokens[r] <= Weight[r]
                     /\ len[r] \in Nat
  BY <1>0, ConstAssumption DEF TypeOK, Queue, Wrr
<1>4. \A p, r \in Wrr :
         /\ passed[p][r] \in Nat
         /\ passed'[p][r] = IF p = d THEN 0
                            ELSE IF r = d /\ len[p] > 0 THEN passed[p][r] + 1
                            ELSE passed[p][r]
  BY <1>0, <1>1 DEF Pass, TypeOK
<1>5. \A r \in Wrr : len'[r] = IF r = d THEN len[r] - 1 ELSE len[r]
  BY <1>0, <1>1, ConstAssumption DEF TypeOK, Queue, Wrr, None
<1>6. TypeOK'
  <2>1. len' \in [Queue -> 0 .. MaxSize] /\ served' \in Queue \cup {None}
    <3>1. d = None \/ (d \in Queue /\ len[d] > 0)
      BY <1>2, ConstAssumption DEF Queue, Wrr
    <3>2. CASE d = None
      BY <1>0, <1>1, <3>2 DEF TypeOK
    <3>3. CASE d \in Queue /\ len[d] > 0
      <4>1. d # None /\ len[d] - 1 \in 0 .. MaxSize
        BY <1>0, <3>3, ConstAssumption DEF TypeOK, Queue, None
      <4> QED
        BY <1>0, <1>1, <3>3, <4>1 DEF TypeOK
    <3> QED
      BY <3>1, <3>2, <3>3
  <2>2. tokens' \in [Wrr -> Nat] /\ \A r \in Wrr : tokens'[r] <= Weight[r]
    <3>1. CASE UNCHANGED tokens
      BY <1>0, <3>1 DEF TypeOK
    <3>2. CASE /\ d \in Wrr /\ tokens[d] > 0
               /\ tokens' = [tokens EXCEPT ![d] = @ - 1]
      BY <1>0, <1>3, <3>2 DEF TypeOK
    <3>3. CASE d \in Wrr /\ tokens' = [Weight EXCEPT ![d] = @ - 1]
      <4>1. Weight \in [Wrr -> Nat] /\ Weight[d] - 1 \in Nat
        BY <1>3, <3>3, ConstAssumption
      <4> QED
        BY <1>3, <3>3, <4>1
    <3> QED
      BY <1>2, <3>1, <3>2, <3>3
  <2>3. passed' \in [Wrr -> [Wrr -> Nat]]
    BY <1>0, <1>1 DEF TypeOK, Pass
  <2> QED
    BY <2>1, <2>2, <2>3 DEF TypeOK
<1>7. TurnsLeft'
  <2> SUFFICES ASSUME NEW p \in Wrr, NEW r \in Wrr
               PROVE  TurnsLeft!(p, r)'
    BY DEF TurnsLeft
  <2>1. TurnsLeft!(p, r)
    BY <1>0 DEF TurnsLeft
  <2>2. CASE p = d
    \* Served: nothing has passed it since.
    <3>1. passed'[p][r] = 0
      BY <1>4, <2>2
    <3>2. tokens'[r] \in Nat /\ tokens'[r] <= Weight[r]
      BY <1>6 DEF TypeOK
    <3> QED
      BY <1>3, <3>1, <3>2
  <2>3. CASE p # d /\ (len[p] = 0 \/ p = r)
    BY <1>3, <1>4, <1>5, <2>1, <2>3
  <2>4. CASE p # d /\ len[p] > 0 /\ p # r
    <3>1. len'[p] = len[p]
      BY <1>5, <2>4
    <3>2. CASE UNCHANGED tokens /\ d \notin Wrr
      BY <1>3, <1>4, <2>1, <2>4, <3>1, <3>2
    <3>3. CASE /\ d \in Wrr /\ tokens[d] > 0
               /\ tokens' = [tokens EXCEPT ![d] = @ - 1]
               /\ tokens[p] > 0 => d <= p
      <4>1. /\ tokens'[p] = tokens[p]
            /\ tokens'[r] = IF r = d THEN tokens[r] - 1 ELSE tokens[r]
        BY <1>0, <2>4, <3>3 DEF TypeOK
      <4> QED
        BY <1>3, <1>4, <2>1, <2>4, <3>1, <3>3, <4>1 DEF Wrr
    <3>4. CASE /\ d \in Wrr /\ tokens' = [Weight EXCEPT ![d] = @ - 1]
               /\ tokens[p] = 0 /\ d <= p
      <4>1. /\ tokens'[p] = Weight[p]
            /\ tokens'[r] = IF r = d THEN Weight[r] - 1 ELSE Weight[r]
        BY <2>4, <3>4, ConstAssumption
      <4> QED
        BY <1>3, <1>4, <2>1, <2>4, <3>1, <3>4, <4>1 DEF Wrr
    <3> QED
      BY <1>2, <2>4, <3>2, <3>3, <3>4, ConstAssumption DEF Wrr, None
  <2> QED
    BY <1>3, <2>2, <2>3, <2>4
<1> QED
  BY <1>6, <1>7 DEF Inv

LEMMA NextInv == Inv /\ [Next]_vars => Inv'
<1> SUFFICES ASSUME Inv, [Next]_vars PROVE Inv'
  OBVIOUS
<1>1. CASE Dequeue
  BY <1>1, DequeueInv
<1>2. CASE \E q \in Queue : Enqueue(q)
  BY <1>2, EnqueueInv
<1>3. CASE UNCHANGED vars
  BY <1>3 DEF vars, Inv, TypeOK, TurnsLeft
<1> QED
  BY <1>1, <1>2, <1>3 DEF Next

LEMMA InvHolds == Spec => []Inv
  BY InitInv, NextInv, PTL DEF Spec

(***************************************************************************)
(* Tokens never pass the weights, queues never their size.                    *)
(***************************************************************************)
THEOREM TypeOKHolds == Spec => []TypeOK
<1>1. Inv => TypeOK
  BY DEF Inv
<1> QED
  BY <1>1, InvHolds, PTL

(***************************************************************************)
(* No queue of the round robin waits longer than two rounds.                  *)
(***************************************************************************)
THEOREM WaitBoundedHolds == Spec => []WaitBounded
<1>1. Inv => WaitBounded
  <2> SUFFICES ASSUME Inv, NEW q \in Wrr, NEW r \in Wrr
               PROVE  passed[q][r] <= IF r < q THEN 2 * Weight[r] ELSE Weight[r]
    BY DEF WaitBounded
  <2>1. TurnsLeft!(q, r)
    BY DEF Inv, TurnsLeft
  <2>2. /\ Weight[r] \in Nat /\ tokens[r] \in Nat /\ tokens[q] \in Nat
        /\ passed[q][r] \in Nat
    BY ConstAssumption DEF Inv, TypeOK
  <2> QED
    BY <2>1, <2>2
<1> QED
  BY <1>1, InvHolds, PTL

(***************************************************************************)
(* A port with packets always sends one, and one with priority first.         *)
(***************************************************************************)
THEOREM WorkConservingHolds == Spec => WorkConserving
<1>1. Inv /\ [Next]_vars =>
        [Dequeue => /\ served' = None <=> \A q \in Queue : len[q] = 0
                    /\ served' # 0 => len[0] = 0]_vars
  <2> SUFFICES ASSUME Inv, Dequeue
               PROVE  /\ served' = None <=> \A q \in Queue : len[q] = 0
                      /\ served' # 0 => len[0] = 0
    OBVIOUS
  <2>1. served' = GetNextQueueToServe.queue
    BY DEF Dequeue
  <2>2. 0 \in Queue /\ Wrr \subseteq Queue /\ None \notin Queue
    BY ConstAssumption DEF Queue, Wrr, None
  <2> QED
    BY <2>1, <2>2, NextQueueFacts DEF Inv
<1> QED
  BY <1>1, InvHolds, PTL DEF Spec, WorkConserving
================================================================================
