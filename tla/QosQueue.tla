------------------------------- MODULE QosQueue -------------------------------
(***************************************************************************)
(* The output queue of every port of a backhaul switch: a priority queue, 0,   *)
(* that is always served first, and the others in weighted round robin.        *)
(* GetNextQueueToServe takes the tokens of the round robin; with no tokens     *)
(* left for those that wait, it sets all of them to the weights and calls      *)
(* itself again.  Packets of one queue are alike.                            *)
(***************************************************************************)
EXTENDS Integers

CONSTANTS
    Last,       \* number of queues in round robin: m_queueNum - 1
    Weight,     \* m_queueWeight of these queues
    MaxSize     \* packets that an internal queue holds

Wrr   == 1 .. Last
Queue == 0 .. Last
None  == -1

ASSUME ConstAssumption ==
    /\ Last \in Nat
    /\ Weight \in [Wrr -> Nat \ {0}]
    /\ MaxSize \in Nat \ {0}

VARIABLES
    len,        \* [Queue -> packets in the queue]
    tokens,     \* m_queueTokens
    served,     \* the queue of the last call of Dequeue, or None
    passed      \* not in the code: passed[q][r] packets of r have left since
                \* queue q waits for its turn

vars == <<len, tokens, served, passed>>

Waiting  == {q \in Wrr : len[q] > 0}
Ready(t) == {q \in Waiting : t[q] > 0}

(* Mutant: tokens are checked and never taken. *)
SpendNothing(t, q) == t

Spend(t, q) == [t EXCEPT ![q] = @ - 1]

(* The first queue of the loop that has packets and tokens.                  *)
Serve(t) ==
    LET q == CHOOSE q \in Ready(t) : \A r \in Ready(t) : q <= r
    IN [queue |-> q, tokens |-> Spend(t, q)]

(* Mutant: the tokens are reset for the next call. *)
GetNextQueueToServeLater ==
    IF len[0] > 0 THEN [queue |-> 0, tokens |-> tokens]
    ELSE IF Ready(tokens) # {} THEN Serve(tokens)
    ELSE [queue |-> None, tokens |-> Weight]

(* The queue to serve, and the tokens after that.  Weights are positive, so    *)
(* that the second call finds a queue.                                       *)
GetNextQueueToServe ==
    IF len[0] > 0 THEN [queue |-> 0, tokens |-> tokens]
    ELSE IF Ready(tokens) # {} THEN Serve(tokens)
    ELSE IF Waiting # {} THEN Serve(Weight)
    ELSE [queue |-> None, tokens |-> tokens]

(* How many packets have left past the others when one of queue s leaves.     *)
Pass(s) ==
    [q \in Wrr |-> [r \in Wrr |->
        IF q = s THEN 0
        ELSE IF r = s /\ len[q] > 0 THEN passed[q][r] + 1
        ELSE passed[q][r]]]

(* A packet that comes in; a full queue drops it.                            *)
Enqueue(q) ==
    /\ len' = [len EXCEPT ![q] = IF @ < MaxSize THEN @ + 1 ELSE @]
    /\ UNCHANGED <<tokens, served, passed>>

(* Dequeue, and Remove, which drops the packet instead.                      *)
Dequeue ==
    LET next == GetNextQueueToServe
    IN /\ served' = next.queue
       /\ tokens' = next.tokens
       /\ len' = IF next.queue = None THEN len ELSE [len EXCEPT ![next.queue] = @ - 1]
       /\ passed' = Pass(next.queue)

Init ==
    /\ len = [q \in Queue |-> 0]
    /\ tokens = Weight
    /\ served = None
    /\ passed = [q \in Wrr |-> [r \in Wrr |-> 0]]

Next == Dequeue \/ \E q \in Queue : Enqueue(q)

Spec == Init /\ [][Next]_vars
------------------------------------------------------------------------------
TypeOK ==
    /\ len \in [Queue -> 0 .. MaxSize]
    /\ tokens \in [Wrr -> Nat]
    /\ \A q \in Wrr : tokens[q] <= Weight[q]
    /\ served \in Queue \cup {None}
    /\ passed \in [Wrr -> [Wrr -> Nat]]

(***************************************************************************)
(* A queue that has packets waits for its next turn while at most the weight   *)
(* of each queue behind it, and twice the weight of each queue before it,      *)
(* leave: the rest of a round and a part of the next one.  (Packets of the     *)
(* priority queue are not counted.)                                          *)
(***************************************************************************)
WaitBounded ==
    \A q, r \in Wrr :
        passed[q][r] <= IF r < q THEN 2 * Weight[r] ELSE Weight[r]

(***************************************************************************)
(* Dequeue returns nothing only if there is nothing, and another packet only  *)
(* if there is none with priority.  (A port stops when it gets nothing, until  *)
(* another packet comes in.)                                                 *)
(***************************************************************************)
WorkConserving ==
    [][Dequeue =>
          /\ served' = None <=> \A q \in Queue : len[q] = 0
          /\ served' # 0 => len[0] = 0]_vars

(***************************************************************************)
(* The strengthening of WaitBounded: what may still pass a queue that waits,   *)
(* by the tokens that are left, without tokens of its own and with them;      *)
(* nothing has passed a queue that is empty.                                 *)
(***************************************************************************)
TurnsLeft ==
    \A q, r \in Wrr :
        IF len[q] = 0 \/ q = r THEN passed[q][r] = 0
        ELSE IF tokens[q] = 0  THEN passed[q][r] <= Weight[r] - tokens[r]
        ELSE IF r < q          THEN passed[q][r] <= 2 * Weight[r] - tokens[r]
        ELSE passed[q][r] <= Weight[r]
==============================================================================
