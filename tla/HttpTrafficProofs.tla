--------------------------- MODULE HttpTrafficProofs ---------------------------
(***************************************************************************)
(* For any clients, sizes and numbers of objects: a client and its server      *)
(* exchange one message at a time, no assertion of the clients fails, a video  *)
(* client that was forced to stop asks for nothing more, and a client that has *)
(* the static locals to itself loads whole pages and whole videos.            *)
(*                                                                           *)
(* The invariant says in which of four phases the connection is and, for a     *)
(* client alone, how many objects are still to come in each.                  *)
(***************************************************************************)
EXTENDS HttpTraffic, FiniteSetTheorems, TLAPS

NotOpen(c) ==
    /\ conn[c] # "open" /\ request[c] = "none" /\ pendingBytes[c] = 0
    /\ unsent[c] = 0 /\ flight[c] = 0 /\ "next" \notin timers[c]

Requested(c) ==
    /\ conn[c] = "open" /\ request[c] # "none" /\ pendingBytes[c] = 0
    /\ unsent[c] = 0 /\ flight[c] = 0 /\ "next" \notin timers[c]

(* The header is on its way until the first delivery. *)
Answered(c) ==
    /\ conn[c] = "open" /\ request[c] = "none" /\ response[c].type # "none"
    /\ unsent[c] + flight[c] =
          (IF pendingBytes[c] = 0 THEN response[c].size + 1 ELSE pendingBytes[c])
    /\ "next" \notin timers[c]

Reading(c) ==
    /\ conn[c] = "open" /\ request[c] = "none" /\ pendingBytes[c] = 0
    /\ unsent[c] = 0 /\ flight[c] = 0 /\ "next" \in timers[c] /\ kind = "page"

Phase(c) == NotOpen(c) \/ Requested(c) \/ Answered(c) \/ Reading(c)

(* Only an active client has events, and a force stop cancels its own.        *)
EventsOK(c) ==
    /\ active[c] <=> conn[c] # "closed"
    /\ ~active[c] => timers[c] = {}
    /\ forced[c] => timers[c] \subseteq {"next"}
    /\ kind = "video" => timers[c] \subseteq {"force"}

Bounded(c) ==
    response[c].objects < CounterSize /\ page[c].announced < CounterSize

(* Inline objects of the page that are still to come.                         *)
ToCome(c) == page[c].announced - page[c].received

CountOK(c) ==
    /\ (Answered(c) /\ pendingBytes[c] > 0) => header = response[c].type
    /\ (Answered(c) /\ pendingBytes[c] > 0 /\ response[c].type = "main")
           => pendingObjects[c] = response[c].objects
    /\ (request[c] = "inline" \/ (Answered(c) /\ response[c].type = "inline"))
           => pendingObjects[c] > 0 /\ pendingObjects[c] = ToCome(c)
    /\ Reading(c) => ToCome(c) = 0

Inv ==
    /\ TypeOK /\ fault = "none"
    /\ \A c \in Client : Phase(c) /\ EventsOK(c) /\ Bounded(c)
    /\ \A c \in Client \ clients : ~active[c]
    /\ Alone => \A c \in clients : CountOK(c)
------------------------------------------------------------------------------
LEMMA AloneIs ==
    ASSUME setting \in Setting, Alone, NEW c \in clients, NEW d \in clients
    PROVE  c = d
<1>1. clients \subseteq Client
  BY ConstAssumption DEF clients
<1>2. IsFiniteSet(clients)
  BY <1>1, ConstAssumption, FS_Subset
<1>3. PICK e : clients = {e}
  BY <1>2, FS_Singleton DEF Alone
<1> QED
  BY <1>3

(* A step leaves the other clients alone. *)
Same(d) ==
    /\ active'[d] = active[d] /\ forced'[d] = forced[d] /\ timers'[d] = timers[d]
    /\ conn'[d] = conn[d] /\ request'[d] = request[d] /\ response'[d] = response[d]
    /\ unsent'[d] = unsent[d] /\ flight'[d] = flight[d]
    /\ pendingBytes'[d] = pendingBytes[d] /\ pendingObjects'[d] = pendingObjects[d]
    /\ page'[d] = page[d]

LEMMA OneClient ==
    ASSUME Inv, NEW c \in clients, UNCHANGED setting, TypeOK', fault' = "none",
           \A d \in Client : d # c => Same(d),
           (Phase(c) /\ EventsOK(c) /\ Bounded(c))', Alone => CountOK(c)'
    PROVE  Inv'
<1>1. clients' = clients /\ kind' = kind /\ Alone' = Alone /\ setting \in Setting
  BY DEF clients, kind, Alone, Inv, TypeOK
<1>2. ASSUME NEW d \in Client PROVE (Phase(d) /\ EventsOK(d) /\ Bounded(d))'
  <2>1. CASE d = c
    BY <2>1
  <2>2. CASE d # c
    <3>1. Same(d) /\ Phase(d) /\ EventsOK(d) /\ Bounded(d)
      BY <2>2 DEF Inv
    <3>2. Phase(d)'
      BY <1>1, <3>1 DEF Same, Phase, NotOpen, Requested, Answered, Reading
    <3> QED
      BY <1>1, <3>1, <3>2 DEF Same, EventsOK, Bounded
  <2> QED
    BY <2>1, <2>2
<1>3. Alone' => \A d \in clients' : CountOK(d)'
  BY <1>1, AloneIs
<1>4. \A d \in Client' \ clients' : ~active'[d]
  BY <1>1 DEF Inv, Same
<1> QED
  BY <1>2, <1>3, <1>4 DEF Inv

LEMMA InitInv == Init => Inv
<1> SUFFICES ASSUME Init PROVE Inv
  OBVIOUS
<1>1. TypeOK
  BY ConstAssumption DEF Init, TypeOK, Type, Timer, Fault, NoResponse
<1>2. ASSUME NEW c \in Client
      PROVE  Phase(c) /\ EventsOK(c) /\ Bounded(c) /\ CountOK(c)
  BY ConstAssumption DEF Init, Phase, NotOpen, Answered, Reading, EventsOK, Bounded, CountOK,
                         NoResponse
<1>3. clients \subseteq Client
  BY <1>1, ConstAssumption DEF clients, TypeOK
<1> QED
  BY <1>1, <1>2, <1>3 DEF Inv, Init

LEMMA StartInv ==
    ASSUME Inv, NEW c \in clients, Start(c)
    PROVE  Inv'
<1>1. c \in Client /\ TypeOK /\ kind' = kind
  BY ConstAssumption DEF clients, Inv, TypeOK, Start, kind
<1>2. TypeOK'
  BY <1>1 DEF TypeOK, Start, server, Timer
<1>3. \A d \in Client : d # c => Same(d)
  BY <1>1 DEF TypeOK, Start, server, Same
<1>4. conn[c] = "closed" /\ NotOpen(c) /\ Bounded(c)
  BY <1>1 DEF Inv, Start, EventsOK, Phase, NotOpen, Requested, Answered, Reading
<1>5. NotOpen(c)' /\ EventsOK(c)' /\ Bounded(c)'
  BY <1>1, <1>4 DEF TypeOK, Start, server, NotOpen, EventsOK, Bounded
<1>6. CountOK(c)'
  BY <1>5 DEF CountOK, NotOpen, Answered, Reading
<1> QED
  BY <1>2, <1>3, <1>5, <1>6, OneClient DEF Start, Phase, Inv

LEMMA ConnectedInv ==
    ASSUME Inv, NEW c \in clients, NotifyConnectionSucceeded(c)
    PROVE  Inv'
<1>1. c \in Client /\ TypeOK /\ kind' = kind
  BY ConstAssumption DEF clients, Inv, TypeOK, NotifyConnectionSucceeded, kind
<1>2. TypeOK'
  BY <1>1, ConstAssumption DEF TypeOK, NotifyConnectionSucceeded, server, Type
<1>3. \A d \in Client : d # c => Same(d)
  BY <1>1 DEF TypeOK, NotifyConnectionSucceeded, server, Same
<1>4. NotOpen(c) /\ Bounded(c) /\ EventsOK(c)
  BY <1>1 DEF Inv, NotifyConnectionSucceeded, Phase, NotOpen, Requested, Answered, Reading
<1>5. Requested(c)' /\ EventsOK(c)' /\ Bounded(c)' /\ request'[c] = "main"
  BY <1>1, <1>4 DEF TypeOK, NotifyConnectionSucceeded, server, NotOpen, Requested, EventsOK,
                    Bounded
<1>6. CountOK(c)'
  BY <1>5 DEF CountOK, Requested, Answered, Reading
<1> QED
  BY <1>2, <1>3, <1>5, <1>6, OneClient DEF NotifyConnectionSucceeded, Phase, Inv

LEMMA ForceStopInv ==
    ASSUME Inv, NEW c \in clients, NEW t \in Timer, ForceStop(c, t)
    PROVE  Inv'
<1>1. c \in Client /\ TypeOK /\ kind' = kind /\ Phase(c) /\ EventsOK(c) /\ Bounded(c)
  BY ConstAssumption DEF clients, Inv, TypeOK, ForceStop, kind
<1>2. active[c] /\ fault' = "none"
  BY <1>1 DEF EventsOK, ForceStop, Stop
<1>3. TypeOK'
  <2>1. /\ active' \in [Client -> BOOLEAN] /\ forced' \in [Client -> BOOLEAN]
        /\ conn' \in [Client -> {"closed", "connecting", "open"}]
    BY <1>1 DEF TypeOK, ForceStop, Stop
  <2>2. timers' = [timers EXCEPT ![c] = {}]
    BY DEF ForceStop, Stop
  <2>3. timers' \in [Client -> SUBSET Timer]
    BY <1>1, <2>2 DEF TypeOK
  <2> QED
    BY <1>1, <1>2, <2>1, <2>3 DEF TypeOK, ForceStop, server, Fault
<1>4. \A d \in Client : d # c => Same(d)
  BY <1>1 DEF TypeOK, ForceStop, Stop, server, Same
<1>5. CASE "next" \in timers[c]
  <2>1. Reading(c)
    BY <1>1, <1>5 DEF Phase, NotOpen, Requested, Answered
  <2>2. NotOpen(c)' /\ EventsOK(c)' /\ Bounded(c)'
    BY <1>1, <1>5, <2>1 DEF TypeOK, ForceStop, Stop, server, NotOpen, Reading, EventsOK, Bounded
  <2>3. CountOK(c)'
    BY <2>2 DEF CountOK, NotOpen, Answered, Reading
  <2> QED
    BY <1>2, <1>3, <1>4, <2>2, <2>3, OneClient DEF ForceStop, Phase
<1>6. CASE "next" \notin timers[c]
  <2>1. /\ timers'[c] = {} /\ active'[c] = active[c] /\ conn' = conn
        /\ UNCHANGED <<request, response, unsent, flight, pendingBytes, pendingObjects,
                       header, page>>
    BY <1>1, <1>6 DEF TypeOK, ForceStop, server
  <2>2. Phase(c)' /\ Bounded(c)'
    BY <1>1, <1>6, <2>1 DEF Phase, NotOpen, Requested, Answered, Reading, Bounded
  <2>3. EventsOK(c)'
    BY <1>1, <1>2, <2>1 DEF EventsOK
  <2>4. Alone => CountOK(c)'
    <3>1. Alone => CountOK(c)
      BY DEF Inv
    <3> QED
      BY <1>6, <2>1, <3>1 DEF CountOK, Answered, Reading, ToCome
  <2> QED
    BY <1>2, <1>3, <1>4, <2>2, <2>3, <2>4, OneClient DEF ForceStop
<1> QED
  BY <1>5, <1>6

LEMMA NextRequestInv ==
    ASSUME Inv, NEW c \in clients, NextRequest(c)
    PROVE  Inv'
<1>1. c \in Client /\ TypeOK /\ kind' = kind /\ Phase(c) /\ EventsOK(c) /\ Bounded(c)
  BY ConstAssumption DEF clients, Inv, TypeOK, NextRequest, kind
<1>2. TypeOK'
  BY <1>1 DEF TypeOK, NextRequest, server, Type
<1>3. \A d \in Client : d # c => Same(d)
  BY <1>1 DEF TypeOK, NextRequest, server, Same
<1>4. Reading(c)
  BY <1>1 DEF NextRequest, Phase, NotOpen, Requested, Answered
<1>5. Requested(c)' /\ EventsOK(c)' /\ Bounded(c)' /\ request'[c] = "main"
  BY <1>1, <1>4 DEF TypeOK, NextRequest, server, Reading, Requested, EventsOK, Bounded
<1>6. CountOK(c)'
  BY <1>5 DEF CountOK, Requested, Answered, Reading
<1> QED
  BY <1>2, <1>3, <1>5, <1>6, OneClient DEF NextRequest, Phase, Inv

LEMMA ProccessHttpRequestInv ==
    ASSUME Inv, NEW c \in clients, NEW size \in Sizes[setting],
           NEW objects \in Objects[setting], NEW sent \in 0 .. size,
           ProccessHttpRequest(c, size, objects, sent)
    PROVE  Inv'
<1>1. c \in Client /\ TypeOK /\ kind' = kind /\ Phase(c) /\ EventsOK(c) /\ Bounded(c)
  BY ConstAssumption DEF clients, Inv, TypeOK, ProccessHttpRequest, kind
<1>2. size \in Nat /\ sent \in Nat /\ sent <= size /\ objects \in 0 .. CounterSize - 1
      /\ CounterSize \in Nat /\ CounterSize > 0
  BY <1>1, ConstAssumption DEF TypeOK
<1>3. DEFINE answer == [type |-> request[c], size |-> size,
                        objects |-> IF request[c] = "main" THEN objects ELSE 0]
<1>4. /\ request' = [request EXCEPT ![c] = "none"]
      /\ response' = [response EXCEPT ![c] = answer]
      /\ flight' = [flight EXCEPT ![c] = @ + 1 + sent]
      /\ unsent' = [unsent EXCEPT ![c] = size - sent]
      /\ UNCHANGED <<setting, active, forced, timers, conn, pendingBytes, pendingObjects,
                     header, page, fault>>
  BY DEF ProccessHttpRequest
<1>5. answer \in [type : Type, size : Nat, objects : Nat] /\ answer.objects < CounterSize
      /\ answer.type = request[c] /\ answer.size = size
  BY <1>1, <1>2 DEF TypeOK
<1> HIDE DEF answer
<1>6. TypeOK'
  <2>1. request' \in [Client -> Type]
    BY <1>1, <1>4 DEF TypeOK, Type
  <2>2. response' \in [Client -> [type : Type, size : Nat, objects : Nat]]
    BY <1>1, <1>4, <1>5 DEF TypeOK
  <2>3. flight' \in [Client -> Nat] /\ unsent' \in [Client -> Nat]
    BY <1>1, <1>2, <1>4 DEF TypeOK
  <2> QED
    BY <1>1, <1>4, <2>1, <2>2, <2>3 DEF TypeOK
<1>7. \A d \in Client : d # c => Same(d)
  BY <1>1, <1>4 DEF TypeOK, Same
<1>8. Requested(c)
  BY <1>1 DEF ProccessHttpRequest, Phase, NotOpen, Answered, Reading
<1>9. Answered(c)' /\ pendingBytes'[c] = 0
  <2>1. flight'[c] = 1 + sent /\ unsent'[c] = size - sent /\ response'[c] = answer
        /\ request'[c] = "none"
    BY <1>1, <1>2, <1>4, <1>8 DEF TypeOK, Requested
  <2> QED
    BY <1>2, <1>4, <1>5, <1>8, <2>1 DEF Answered, Requested
<1>10. EventsOK(c)' /\ Bounded(c)'
  BY <1>1, <1>4, <1>5 DEF TypeOK, EventsOK, Bounded
<1>11. Alone => CountOK(c)'
  <2>1. Alone => CountOK(c)
    BY DEF Inv
  <2>2. response'[c].type = request[c] /\ request'[c] = "none"
    BY <1>1, <1>4, <1>5 DEF TypeOK
  <2> QED
    BY <1>4, <1>9, <2>1, <2>2 DEF CountOK, Answered, Reading, ToCome
<1> QED
  BY <1>4, <1>6, <1>7, <1>9, <1>10, <1>11, OneClient DEF Phase, Inv

LEMMA SendDataInv ==
    ASSUME Inv, NEW c \in clients, NEW sent \in 1 .. unsent[c], SendData(c, sent)
    PROVE  Inv'
<1>1. c \in Client /\ TypeOK /\ kind' = kind /\ Phase(c) /\ EventsOK(c) /\ Bounded(c)
  BY ConstAssumption DEF clients, Inv, TypeOK, SendData, kind
<1>2. unsent[c] \in Nat /\ flight[c] \in Nat /\ sent \in Nat /\ sent > 0 /\ sent <= unsent[c]
  BY <1>1 DEF TypeOK
<1>3. unsent'[c] = unsent[c] - sent /\ flight'[c] = flight[c] + sent
  BY <1>1 DEF SendData, TypeOK
<1>4. TypeOK'
  BY <1>1, <1>2 DEF TypeOK, SendData
<1>5. \A d \in Client : d # c => Same(d)
  BY <1>1 DEF TypeOK, SendData, Same
<1>6. Answered(c)
  BY <1>1, <1>2 DEF Phase, NotOpen, Requested, Reading
<1>7. Answered(c)' /\ EventsOK(c)' /\ Bounded(c)'
  BY <1>1, <1>2, <1>3, <1>6 DEF Answered, EventsOK, Bounded, SendData
<1>8. Alone => CountOK(c)'
  <2>1. Alone => CountOK(c)
    BY DEF Inv
  <2> QED
    BY <1>6, <1>7, <2>1 DEF SendData, CountOK, Answered, Reading, ToCome
<1> QED
  BY <1>4, <1>5, <1>7, <1>8, OneClient DEF SendData, Phase, Inv
(***************************************************************************)
(* DataReceived, with its locals.  An Answered client has at least what it     *)
(* takes of the units: nothing follows the message in the receive buffer.     *)
(***************************************************************************)
LEMMA DataReceivedInv ==
    ASSUME Inv, NEW c \in clients, NEW n \in 1 .. flight[c], DataReceived(c, n)
    PROVE  /\ Inv'
           /\ (Alone /\ kind = "video" /\ active[c] /\ ~active'[c] /\ ~forced[c])
                => page'[c].received = page'[c].announced
           /\ (Alone /\ pendingObjects'[c] > pendingObjects[c])
                => response[c].type = "main" /\ pendingObjects'[c] <= response[c].objects
<1> DEFINE new     == pendingBytes[c] = 0
           head    == Header(c)
           due     == IF new THEN response[c].size ELSE pendingBytes[c]
           payload == IF new THEN n - 1 ELSE n
           consume == IF payload < due THEN payload ELSE due
           before  == IF new /\ head = "main" THEN response[c].objects
                                               ELSE pendingObjects[c]
           ends    == consume = due
           objects == IF ends THEN Remaining(head, before) ELSE before
           next    == IF ends THEN AfterMessage(c, objects) ELSE "wait"
           loaded  == page[c].received
           received == IF loaded < CounterSize THEN loaded + 1 ELSE loaded
           newPage ==
               IF ~ends THEN page[c]
               ELSE IF response[c].type = "main"
                    THEN [announced |-> response[c].objects, received |-> 0]
                    ELSE [page[c] EXCEPT !.received = received]
<1>1. c \in Client /\ TypeOK /\ kind' = kind /\ Phase(c) /\ EventsOK(c) /\ Bounded(c)
  BY ConstAssumption DEF clients, Inv, TypeOK, DataReceived, kind
<1>2. /\ unsent[c] \in Nat /\ flight[c] \in Nat /\ n \in Nat /\ n > 0 /\ n <= flight[c]
      /\ pendingBytes[c] \in Nat /\ pendingObjects[c] \in 0 .. CounterSize - 1
      /\ response[c] \in [type : Type, size : Nat, objects : Nat]
      /\ page[c] \in [announced : Nat, received : Nat]
      /\ CounterSize \in Nat /\ CounterSize > 0
  BY <1>1, ConstAssumption DEF TypeOK
<1>3. Answered(c)
  BY <1>1, <1>2 DEF Phase, NotOpen, Requested, Reading
<1>4. /\ flight' = [flight EXCEPT ![c] = @ - n]
      /\ header' = head
      /\ pendingBytes' = [pendingBytes EXCEPT ![c] = due - consume]
      /\ pendingObjects' = [pendingObjects EXCEPT ![c] = objects]
      /\ page' = [page EXCEPT ![c] = newPage]
      /\ UNCHANGED <<setting, forced, response, unsent>>
  BY DEF DataReceived, server
<1>5. /\ due \in Nat /\ payload \in Nat /\ payload <= due /\ consume = payload
      /\ ends <=> payload = due
      /\ due - consume \in Nat /\ (due - consume = 0 <=> ends)
  BY <1>2, <1>3 DEF Answered
<1>6. head \in Type /\ before \in 0 .. CounterSize - 1 /\ objects \in 0 .. CounterSize - 1
  BY <1>1, <1>2 DEF TypeOK, Bounded, Header, Remaining, Decrement
<1>7. next \in {"wait", "request", "read", "stop"} /\ (next = "wait" <=> ~ends)
  BY DEF AfterMessage
<1>8. \/ next = "wait" /\ UNCHANGED <<active, timers, conn, request, fault>>
      \/ /\ next = "request" /\ request' = [request EXCEPT ![c] = "inline"]
         /\ UNCHANGED <<active, timers, conn, fault>>
      \/ /\ next = "read" /\ timers' = [timers EXCEPT ![c] = @ \cup {"next"}]
         /\ UNCHANGED <<active, conn, request, fault>>
      \/ next = "stop" /\ Stop(c, timers[c]) /\ UNCHANGED request
  BY <1>5 DEF DataReceived
<1>9. IF ends THEN /\ unsent'[c] = 0 /\ flight'[c] = 0 /\ pendingBytes'[c] = 0
              ELSE /\ pendingBytes'[c] > 0
                   /\ unsent'[c] + flight'[c] = pendingBytes'[c]
  BY <1>1, <1>2, <1>3, <1>4, <1>5 DEF TypeOK, Answered
<1>10. next # "wait" => next = AfterMessage(c, objects) /\ ends
  BY <1>7
<1>11. /\ page'[c] \in [announced : Nat, received : Nat] /\ page'[c].announced < CounterSize
       /\ ~ends => page'[c] = page[c]
       /\ (ends /\ head = "main" /\ response[c].type = "main")
             => page'[c].announced = response[c].objects /\ page'[c].received = 0
       /\ (ends /\ response[c].type = "inline" /\ page[c].received < CounterSize)
             => /\ page'[c].announced = page[c].announced
                /\ page'[c].received = page[c].received + 1
  <2>1. page'[c] = newPage
    <3> HIDE DEF newPage
    <3> QED
      BY <1>1, <1>4 DEF TypeOK
  <2> HIDE DEF new, head, due, payload, consume, before, ends
  <2>2. PICK a, r \in Nat : page[c] = [announced |-> a, received |-> r]
    BY <1>2
  <2>3. newPage = IF ~ends THEN page[c]
                  ELSE IF response[c].type = "main"
                       THEN [announced |-> response[c].objects, received |-> 0]
                       ELSE [announced |-> a, received |-> IF r < CounterSize THEN r + 1 ELSE r]
    BY <2>2
  <2> HIDE DEF newPage
  <2> QED
    BY <1>1, <1>2, <2>1, <2>2, <2>3 DEF Bounded
<1>12. /\ active[c] /\ conn[c] = "open"
       /\ fault' = "none"
  BY <1>1, <1>3, <1>8 DEF Inv, EventsOK, Answered, Stop
<1>13. Alone => /\ head = response[c].type
                /\ IF head = "main" THEN before = response[c].objects
                   ELSE before = ToCome(c) /\ before > 0
  BY <1>2, <1>3 DEF Inv, CountOK, Header, Answered, Type
<1>14. Alone => IF ends THEN pendingObjects'[c] = ToCome(c)'
                ELSE /\ header' = response'[c].type
                     /\ IF header' = "main" THEN pendingObjects'[c] = response'[c].objects
                        ELSE pendingObjects'[c] = ToCome(c)' /\ pendingObjects'[c] > 0
  <2> SUFFICES ASSUME Alone
               PROVE  IF ends THEN pendingObjects'[c] = ToCome(c)'
                      ELSE /\ header' = response'[c].type
                           /\ IF header' = "main" THEN pendingObjects'[c] = response'[c].objects
                              ELSE pendingObjects'[c] = ToCome(c)' /\ pendingObjects'[c] > 0
    OBVIOUS
  <2>1. pendingObjects'[c] = IF ends THEN Remaining(head, before) ELSE before
    BY <1>1, <1>4 DEF TypeOK
  <2>2. head = response[c].type /\ head \in {"main", "inline"}
    BY <1>2, <1>3, <1>13 DEF Answered, Type
  <2> HIDE DEF new, head, due, payload, consume, before, ends
  <2>3. CASE ~ends
    <3>1. page'[c] = page[c] /\ response' = response /\ header' = head
      BY <1>4, <1>11, <2>3
    <3> QED
      BY <1>13, <2>1, <2>2, <2>3, <3>1 DEF ToCome
  <2>4. CASE ends /\ head = "main"
    <3>1. page'[c].announced = response[c].objects /\ page'[c].received = 0
      BY <1>11, <2>2, <2>4
    <3> QED
      BY <1>2, <1>13, <2>1, <2>4, <3>1 DEF ToCome, Remaining
  <2>5. CASE ends /\ head = "inline"
    <3>1. before = ToCome(c) /\ before > 0
      BY <1>13, <2>5
    <3>2. page[c].received < CounterSize
      BY <1>1, <1>2, <3>1 DEF Bounded, ToCome
    <3>3. page'[c].announced = page[c].announced /\ page'[c].received = page[c].received + 1
      BY <1>11, <2>2, <2>5, <3>2
    <3>4. Decrement(before) = before - 1
      BY <1>2, <1>6, <3>1 DEF Decrement
    <3> QED
      BY <1>2, <2>1, <2>5, <3>1, <3>3, <3>4 DEF ToCome, Remaining
  <2> QED
    BY <2>2, <2>3, <2>4, <2>5
<1>15. pendingObjects'[c] = objects
  BY <1>1, <1>4 DEF TypeOK
<1>16. \A d \in Client : d # c => Same(d)
  BY <1>1, <1>4, <1>8 DEF TypeOK, Same, Stop
<1>24. (Alone /\ pendingObjects'[c] > pendingObjects[c])
         => response[c].type = "main" /\ pendingObjects'[c] <= response[c].objects
  <2> SUFFICES ASSUME Alone, pendingObjects'[c] > pendingObjects[c]
               PROVE  response[c].type = "main" /\ pendingObjects'[c] <= response[c].objects
    OBVIOUS
  <2>1. head = response[c].type /\ head \in {"main", "inline"}
    BY <1>2, <1>3, <1>13 DEF Answered, Type
  <2>2. head # "main" => before = pendingObjects[c]
    OBVIOUS
  <2>3. pendingObjects'[c] = IF ends THEN Remaining(head, before) ELSE before
    BY <1>15
  <2> HIDE DEF new, head, due, payload, consume, before, ends, objects
  <2>4. head # "inline"
    <3> SUFFICES ASSUME head = "inline" PROVE FALSE
      OBVIOUS
    <3>1. before = pendingObjects[c] /\ before > 0
      BY <1>13, <2>2
    <3>2. Decrement(before) = before - 1
      BY <1>2, <1>6, <3>1 DEF Decrement
    <3> QED
      BY <1>2, <2>3, <3>1, <3>2 DEF Remaining
  <2> QED
    BY <1>2, <1>13, <2>1, <2>3, <2>4 DEF Remaining
<1> HIDE DEF new, head, due, payload, consume, before, ends, objects, next, newPage
<1>17. TypeOK'
  <2>1. /\ flight' \in [Client -> Nat] /\ pendingBytes' \in [Client -> Nat]
        /\ pendingObjects' \in [Client -> 0 .. CounterSize - 1] /\ header' \in Type
    BY <1>1, <1>2, <1>4, <1>5, <1>6 DEF TypeOK
  <2>2. page' \in [Client -> [announced : Nat, received : Nat]]
    BY <1>1, <1>4, <1>11 DEF TypeOK
  <2>3. /\ active' \in [Client -> BOOLEAN] /\ request' \in [Client -> Type]
        /\ conn' \in [Client -> {"closed", "connecting", "open"}]
    BY <1>1, <1>8 DEF TypeOK, Stop, Type
  <2>4. timers' \in [Client -> SUBSET Timer]
    <3>1. PICK ts \in SUBSET Timer : timers' = timers \/ timers' = [timers EXCEPT ![c] = ts]
      <4>1. timers[c] \in SUBSET Timer
        BY <1>1 DEF TypeOK
      <4>2. timers[c] \cup {"next"} \in SUBSET Timer /\ timers[c] \ {"force"} \in SUBSET Timer
        BY <4>1 DEF Timer
      <4> QED
        BY <1>8, <4>1, <4>2 DEF Stop
    <3> QED
      BY <1>1, <3>1 DEF TypeOK
  <2> QED
    BY <1>1, <1>4, <1>12, <2>1, <2>2, <2>3, <2>4 DEF TypeOK, Fault
<1>18. Bounded(c)'
  BY <1>1, <1>4, <1>11 DEF Bounded
<1>19. ASSUME Alone, kind = "video", active[c], ~active'[c], ~forced[c]
       PROVE  page'[c].received = page'[c].announced
  <2>1. next = "stop"
    BY <1>7, <1>8, <1>19
  <2>2. ends /\ objects = 0
    BY <1>10, <1>19, <2>1 DEF AfterMessage
  <2> QED
    BY <1>11, <1>14, <1>15, <1>19, <2>2 DEF ToCome
<1>20. CASE next = "wait"
  <2>1. Answered(c)' /\ EventsOK(c)'
    BY <1>1, <1>2, <1>3, <1>4, <1>7, <1>8, <1>9, <1>20 DEF Answered, EventsOK
  <2>2. Alone => CountOK(c)'
    BY <1>4, <1>7, <1>9, <1>14, <1>20, <2>1 DEF CountOK, Answered, Reading
  <2> QED
    BY <1>4, <1>12, <1>16, <1>17, <1>18, <1>19, <1>24, <2>1, <2>2, OneClient DEF Phase
<1>21. CASE next = "request"
  <2>1. request'[c] = "inline" /\ UNCHANGED <<active, timers, conn>>
    BY <1>1, <1>8, <1>21 DEF TypeOK
  <2>2. Requested(c)' /\ EventsOK(c)'
    BY <1>1, <1>3, <1>4, <1>9, <1>10, <1>21, <2>1 DEF Answered, Requested, EventsOK
  <2>3. objects > 0
    BY <1>6, <1>10, <1>21 DEF AfterMessage
  <2>4. Alone => CountOK(c)'
    BY <1>10, <1>14, <1>15, <1>21, <2>2, <2>3 DEF CountOK, Requested, Answered, Reading
  <2> QED
    BY <1>4, <1>12, <1>16, <1>17, <1>18, <1>19, <1>24, <2>2, <2>4, OneClient DEF Phase
<1>22. CASE next = "read"
  <2>1. timers'[c] = timers[c] \cup {"next"} /\ UNCHANGED <<active, conn, request>>
    BY <1>1, <1>8, <1>22 DEF TypeOK
  <2>2. kind = "page" /\ objects = 0
    BY <1>10, <1>22 DEF AfterMessage
  <2>3. Reading(c)' /\ EventsOK(c)'
    BY <1>1, <1>3, <1>4, <1>9, <1>10, <1>12, <1>22, <2>1, <2>2 DEF Answered, Reading, EventsOK
  <2>4. Alone => CountOK(c)'
    BY <1>10, <1>14, <1>15, <1>22, <2>2, <2>3 DEF CountOK, Answered, Reading
  <2> QED
    BY <1>4, <1>12, <1>16, <1>17, <1>18, <1>19, <1>24, <2>3, <2>4, OneClient DEF Phase
<1>23. CASE next = "stop"
  <2>1. /\ active'[c] = FALSE /\ timers'[c] = timers[c] \ {"force"} /\ conn'[c] = "closed"
        /\ UNCHANGED request
    BY <1>1, <1>8, <1>23 DEF TypeOK, Stop
  <2>2. forced[c] \/ kind # "page"
    BY <1>10, <1>23 DEF AfterMessage
  <2>3. kind \in {"page", "video"}
    BY <1>1, ConstAssumption DEF kind, TypeOK
  <2>4. NotOpen(c)' /\ EventsOK(c)'
    BY <1>1, <1>3, <1>4, <1>9, <1>10, <1>23, <2>1, <2>2, <2>3 DEF Answered, NotOpen, EventsOK
  <2>5. CountOK(c)'
    BY <2>4 DEF CountOK, NotOpen, Answered, Reading
  <2> QED
    BY <1>4, <1>12, <1>16, <1>17, <1>18, <1>19, <1>24, <2>4, <2>5, OneClient DEF Phase
<1> QED
  BY <1>7, <1>20, <1>21, <1>22, <1>23, <1>20
LEMMA NextInv == Inv /\ [Next]_vars => Inv'
<1> SUFFICES ASSUME Inv, [Next]_vars PROVE Inv'
  OBVIOUS
<1>1. ASSUME NEW c \in clients, Start(c) \/ NotifyConnectionSucceeded(c) \/ NextRequest(c)
      PROVE  Inv'
  BY <1>1, StartInv, ConnectedInv, NextRequestInv
<1>2. ASSUME NEW c \in clients, NEW t \in Timer, ForceStop(c, t) PROVE Inv'
  BY <1>2, ForceStopInv
<1>3. ASSUME NEW c \in clients, Answer(c) PROVE Inv'
  BY <1>3, ProccessHttpRequestInv DEF Answer
<1>4. ASSUME NEW c \in clients, Send(c) PROVE Inv'
  BY <1>4, SendDataInv DEF Send
<1>5. ASSUME NEW c \in clients, Receive(c) PROVE Inv'
  BY <1>5, DataReceivedInv DEF Receive
<1>6. CASE UNCHANGED vars
  <2>1. /\ setting' = setting /\ active' = active /\ forced' = forced /\ timers' = timers
        /\ conn' = conn /\ request' = request /\ response' = response /\ unsent' = unsent
        /\ flight' = flight /\ pendingBytes' = pendingBytes
        /\ pendingObjects' = pendingObjects /\ header' = header /\ page' = page
        /\ fault' = fault
    BY <1>6 DEF vars, server
  <2>2. TypeOK' /\ fault' = "none" /\ kind' = kind /\ clients' = clients /\ Alone' = Alone
    BY <2>1 DEF Inv, TypeOK, kind, clients, Alone
  <2>3. \A c \in Client : (Phase(c) /\ EventsOK(c) /\ Bounded(c))'
    BY <2>1, <2>2 DEF Inv, Phase, NotOpen, Requested, Answered, Reading, EventsOK, Bounded
  <2>4. Alone => \A c \in clients : CountOK(c)'
    BY <2>1, <2>2 DEF Inv, CountOK, Answered, Reading, ToCome
  <2>5. \A c \in Client' \ clients' : ~active'[c]
    BY <2>1, <2>2 DEF Inv
  <2> QED
    BY <2>2, <2>3, <2>4, <2>5 DEF Inv
<1> QED
  BY <1>1, <1>2, <1>3, <1>4, <1>5, <1>6 DEF Next

LEMMA InvHolds == Spec => []Inv
BY InitInv, NextInv, PTL DEF Spec
------------------------------------------------------------------------------
(***************************************************************************)
(* No assertion of DataReceived and NotifyStop fails, however TCP cuts the     *)
(* messages and whenever a client is forced to stop.                         *)
(***************************************************************************)
THEOREM NoAssertFailsHolds == Spec => []NoAssertFails
<1>1. Inv => NoAssertFails
  BY DEF Inv, NoAssertFails
<1> QED
  BY InvHolds, <1>1, PTL

(***************************************************************************)
(* A client and its server exchange one message at a time, of which           *)
(* m_pendingBytes is what is still to come.                                   *)
(***************************************************************************)
THEOREM OneExchangeHolds == Spec => []OneExchange
<1>1. Inv => OneExchange
  <2> SUFFICES ASSUME Inv, NEW c \in Client
               PROVE  /\ conn[c] = "open" =>
                            \/ request[c] # "none" /\ ~Answering(c) /\ "next" \notin timers[c]
                            \/ request[c] = "none" /\ Answering(c) /\ "next" \notin timers[c]
                            \/ request[c] = "none" /\ ~Answering(c) /\ "next" \in timers[c]
                      /\ conn[c] # "open" => request[c] = "none" /\ ~Answering(c)
                      /\ pendingBytes[c] > 0 => pendingBytes[c] = unsent[c] + flight[c]
    BY DEF OneExchange
  <2>1. /\ unsent[c] \in Nat /\ flight[c] \in Nat /\ pendingBytes[c] \in Nat
        /\ response[c].size \in Nat /\ Phase(c)
    BY DEF Inv, TypeOK
  <2>2. CASE NotOpen(c)
    BY <2>2 DEF NotOpen, Answering
  <2>3. CASE Requested(c)
    BY <2>3 DEF Requested, Answering
  <2>4. CASE Answered(c)
    BY <2>1, <2>4 DEF Answered, Answering
  <2>5. CASE Reading(c)
    BY <2>5 DEF Reading, Answering
  <2> QED
    BY <2>1, <2>2, <2>3, <2>4, <2>5 DEF Phase
<1> QED
  BY InvHolds, <1>1, PTL

(***************************************************************************)
(* A client that has contentTypeStr to itself counts the objects of a page     *)
(* right: in the reading time it has all of them.                             *)
(***************************************************************************)
THEOREM PageCompleteAloneHolds == Spec => []PageCompleteAlone
<1>1. Inv => PageCompleteAlone
  <2> SUFFICES ASSUME Inv, Alone, NEW c \in Client, "next" \in timers[c]
               PROVE  page[c].received = page[c].announced
    BY DEF PageCompleteAlone, PageComplete
  <2>1. Reading(c) /\ page[c].received \in Nat /\ page[c].announced \in Nat
    BY DEF Inv, TypeOK, Phase, NotOpen, Requested, Answered
  <2>2. c \in clients
    BY DEF Inv, EventsOK
  <2> QED
    BY <2>1, <2>2 DEF Inv, CountOK, ToCome
<1> QED
  BY InvHolds, <1>1, PTL

(***************************************************************************)
(* m_pendingObjects of a client that has contentTypeStr to itself never wraps  *)
(* around, for any numbers of objects up to the largest that it can hold.      *)
(***************************************************************************)
THEOREM NeverWrapsHolds == Spec => NeverWraps
<1> DEFINE Rise(c) ==
      (Alone /\ pendingObjects'[c] > pendingObjects[c])
         => response[c].type = "main" /\ pendingObjects'[c] <= response[c].objects
<1>1. Inv /\ [Next]_vars => \A c \in Client : Rise(c)
  <2> SUFFICES ASSUME Inv, [Next]_vars, NEW c \in Client,
                      Alone, pendingObjects'[c] > pendingObjects[c]
               PROVE  response[c].type = "main" /\ pendingObjects'[c] <= response[c].objects
    OBVIOUS
  <2>1. pendingObjects \in [Client -> 0 .. CounterSize - 1] /\ CounterSize \in Nat
    BY ConstAssumption DEF Inv, TypeOK
  <2>2. pendingObjects' # pendingObjects
    BY <2>1
  <2>3. PICK d \in clients : NotifyConnectionSucceeded(d) \/ Receive(d)
    BY <2>2 DEF Next, vars, Start, ForceStop, NextRequest, Answer, ProccessHttpRequest, Send,
                SendData
  <2>4. CASE NotifyConnectionSucceeded(d)
    <3>1. pendingObjects' = [pendingObjects EXCEPT ![d] = 0]
      BY <2>4 DEF NotifyConnectionSucceeded
    <3> QED
      BY <2>1, <3>1
  <2>5. CASE Receive(d)
    <3>1. PICK n \in 1 .. flight[d] : DataReceived(d, n)
      BY <2>5 DEF Receive
    <3>2. d = c
      <4>1. \E k : pendingObjects' = [pendingObjects EXCEPT ![d] = k]
        BY <3>1 DEF DataReceived
      <4> QED
        BY <2>1, <4>1
    <3> QED
      BY <3>1, <3>2, DataReceivedInv
  <2> QED
    BY <2>3, <2>4, <2>5
<1> QED
  BY InvHolds, <1>1, PTL DEF Spec, NeverWraps

(***************************************************************************)
(* A video client that was not forced to stop, and has contentTypeStr to       *)
(* itself, closes the connection after the last chunk and not before.         *)
(***************************************************************************)
THEOREM VideoCompleteHolds == Spec => VideoComplete
<1> DEFINE Complete(c) ==
      (Alone /\ kind = "video" /\ active[c] /\ ~active'[c] /\ ~forced[c])
         => page'[c].received = page'[c].announced
<1>1. Inv /\ [Next]_vars => \A c \in Client : Complete(c)
  <2> SUFFICES ASSUME Inv, [Next]_vars, NEW c \in Client,
                      kind = "video", active[c], ~active'[c], ~forced[c], Alone
               PROVE  page'[c].received = page'[c].announced
    OBVIOUS
  <2>1. active \in [Client -> BOOLEAN] /\ timers[c] \subseteq {"force"}
    BY DEF Inv, TypeOK, EventsOK
  <2>2. active' # active
    OBVIOUS
  <2>3. PICK d \in clients : (\E t \in Timer : ForceStop(d, t)) \/ Start(d) \/ Receive(d)
    BY <2>2 DEF Next, vars, NotifyConnectionSucceeded, NextRequest, Answer, Send,
                ProccessHttpRequest, SendData
  <2>4. d = c
    BY <2>1, <2>3 DEF ForceStop, Start, Stop, Receive, DataReceived
  <2>5. CASE Receive(c)
    BY <2>4, <2>5, DataReceivedInv DEF Receive
  <2> QED
    BY <2>1, <2>3, <2>4, <2>5 DEF ForceStop, Start
<1> QED
  BY InvHolds, <1>1, PTL DEF Spec, VideoComplete

(***************************************************************************)
(* A video client that was forced to stop requests no other chunk.            *)
(***************************************************************************)
THEOREM VideoClosesAfterCurrentHolds == Spec => VideoClosesAfterCurrent
<1> DEFINE Closes(c) ==
      (kind = "video" /\ forced[c] /\ request[c] = "none" /\ request'[c] # "none")
         => conn[c] = "connecting"
<1>1. Inv /\ [Next]_vars => \A c \in Client : Closes(c)
  <2> SUFFICES ASSUME Inv, [Next]_vars, NEW c \in Client,
                      kind = "video", forced[c], request[c] = "none", request'[c] # "none"
               PROVE  conn[c] = "connecting"
    OBVIOUS
  <2>1. request \in [Client -> Type] /\ "next" \notin timers[c]
    BY DEF Inv, TypeOK, EventsOK
  <2>2. request' # request
    OBVIOUS
  <2>3. PICK d \in clients :
           NotifyConnectionSucceeded(d) \/ NextRequest(d) \/ Answer(d) \/ Receive(d)
    BY <2>2 DEF Next, vars, Start, ForceStop, Send, SendData
  <2>4. d = c
    BY <2>1, <2>3 DEF NotifyConnectionSucceeded, NextRequest, Answer, ProccessHttpRequest,
                      Receive, DataReceived
  <2>5. ~Answer(c) /\ ~NextRequest(c)
    BY <2>1 DEF NextRequest, Answer, ProccessHttpRequest
  <2>6. ~Receive(c)
    BY <2>1 DEF Receive, DataReceived, AfterMessage
  <2> QED
    BY <2>3, <2>4, <2>5, <2>6 DEF NotifyConnectionSucceeded
<1> QED
  BY InvHolds, <1>1, PTL DEF Spec, VideoClosesAfterCurrent
==============================================================================
