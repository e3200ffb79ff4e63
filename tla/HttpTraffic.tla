----------------------------- MODULE HttpTraffic -----------------------------
(***************************************************************************)
(* The traffic generators over TCP: web pages (HttpClient, HttpServer) and    *)
(* stored video (BufferedVideoClient, BufferedVideoServer), each client with  *)
(* a server of its own.                                                      *)
(*                                                                           *)
(* DataReceived keeps contentTypeStr in a static local, which all clients of  *)
(* the class share: the variable header.  (So it does httpPacketSize, which    *)
(* only statistics read.)                                                    *)
(*                                                                           *)
(* TCP delivers in order what was sent and may cut it anywhere.  A response   *)
(* is one unit of header and some units of payload, and every delivery any    *)
(* number of the units on their way.  Connections are assumed to be accepted: *)
(* a client starts again seconds after it closed its last one.               *)
(***************************************************************************)
EXTENDS Integers, FiniteSets

CONSTANTS
    Client,
    Setting,      \* the simulations to look at; the next four give what each has
    Kind,         \* the application: "page", "video"
    Clients,      \* the clients
    Sizes,        \* payload units of an object
    Objects,      \* numbers of inline objects (video chunks after the first)
    CounterSize   \* m_pendingObjects is an unsigned integer below this

ASSUME ConstAssumption ==
    /\ Setting # {} /\ IsFiniteSet(Client)
    /\ Kind \in [Setting -> {"page", "video"}]
    /\ Clients \in [Setting -> SUBSET Client]
    /\ Sizes \in [Setting -> SUBSET Nat]
    /\ CounterSize \in Nat \ {0}
    /\ Objects \in [Setting -> SUBSET (0 .. CounterSize - 1)]

Type  == {"none", "main", "inline"}    \* object, or no message
Timer == {"stop", "force", "next"}     \* m_stopEvent, m_forceStop, m_nextRequest
Fault == {"none", "Can't stop an inactive application.", "m_rxPacket->GetSize () == 0"}

VARIABLES
    setting,            \* never changes
    active, forced,     \* m_active and m_forceStopFlag of Uni5onClient
    timers,             \* [Client -> SUBSET Timer]: scheduled events
    conn,               \* [Client -> {"closed","connecting","open"}]
    request,            \* [Client -> Type]: request on its way to the server
    response,           \* what the server answers: type, payload units, objects
    unsent,             \* m_pendingBytes of the server
    flight,             \* units of the response on their way, the header first
    pendingBytes, pendingObjects,
    header,             \* contentTypeStr, shared
    page,               \* not in the code: objects announced and received
    fault

vars == <<setting, active, forced, timers, conn, request, response, unsent, flight,
          pendingBytes, pendingObjects, header, page, fault>>
server == <<response, unsent>>
Running == fault = "none"
kind    == Kind[setting]
clients == Clients[setting]
Alone   == Cardinality(clients) = 1
NoResponse == [type |-> "none", size |-> 0, objects |-> 0]
------------------------------------------------------------------------------
(* Start: schedules the events that end the traffic and opens the connection. *)
Start(c) ==
    /\ Running /\ ~active[c]
    /\ active' = [active EXCEPT ![c] = TRUE]
    /\ forced' = [forced EXCEPT ![c] = FALSE]
    /\ timers' = [timers EXCEPT ![c] = IF kind = "page" THEN {"stop", "force"}
                                                        ELSE {"force"}]
    /\ conn' = [conn EXCEPT ![c] = "connecting"]
    /\ UNCHANGED <<setting, request, server, flight, pendingBytes, pendingObjects, header,
                   page, fault>>

NotifyConnectionSucceeded(c) ==
    /\ Running /\ conn[c] = "connecting"
    /\ conn' = [conn EXCEPT ![c] = "open"]
    /\ pendingBytes' = [pendingBytes EXCEPT ![c] = 0]
    /\ pendingObjects' = [pendingObjects EXCEPT ![c] = 0]
    /\ request' = [request EXCEPT ![c] = "main"]
    /\ UNCHANGED <<setting, active, forced, timers, server, flight, header, page,
                   fault>>

(* Closing the socket and NotifyStop, for a client with pending events ts.   *)
Stop(c, ts) ==
    /\ active' = [active EXCEPT ![c] = FALSE]
    /\ timers' = [timers EXCEPT ![c] = ts \ {"force"}]
    /\ conn' = [conn EXCEPT ![c] = "closed"]
    /\ fault' = IF active[c] THEN "none" ELSE "Can't stop an inactive application."

(* Mutant: the other event stays scheduled. *)
ForceStopKeepsTimer(c, t) ==
    /\ Running /\ t \in timers[c] \ {"next"}
    /\ forced' = [forced EXCEPT ![c] = TRUE]
    /\ IF "next" \in timers[c]
       THEN Stop(c, timers[c] \ {t, "next"})
       ELSE /\ timers' = [timers EXCEPT ![c] = @ \ {t}]
            /\ fault' = IF active[c] THEN "none"
                        ELSE "Can't stop an inactive application."
            /\ UNCHANGED <<active, conn>>
    /\ UNCHANGED <<setting, request, server, flight, pendingBytes, pendingObjects, header,
                   page>>

(* The traffic length or MaxOnTime has passed: in the reading time the client *)
(* stops at once, otherwise after the current object.                        *)
ForceStop(c, t) ==
    /\ Running /\ t \in timers[c] \ {"next"}
    /\ forced' = [forced EXCEPT ![c] = TRUE]
    /\ IF "next" \in timers[c]
       THEN Stop(c, {})
       ELSE /\ timers' = [timers EXCEPT ![c] = {}]
            /\ fault' = IF active[c] THEN "none"
                        ELSE "Can't stop an inactive application."
            /\ UNCHANGED <<active, conn>>
    /\ UNCHANGED <<setting, request, server, flight, pendingBytes, pendingObjects, header,
                   page>>

(* The reading time is over: SendRequest. *)
NextRequest(c) ==
    /\ Running /\ "next" \in timers[c]
    /\ timers' = [timers EXCEPT ![c] = @ \ {"next"}]
    /\ request' = [request EXCEPT ![c] = "main"]
    /\ UNCHANGED <<setting, active, forced, conn, server, flight, pendingBytes,
                   pendingObjects, header, page, fault>>
------------------------------------------------------------------------------
(* The server: a request is answered by a header and the first payload that  *)
(* the socket takes, the rest follows as the socket has room again.          *)
ProccessHttpRequest(c, size, objects, sent) ==
    /\ Running /\ request[c] # "none" /\ sent <= size
    /\ request' = [request EXCEPT ![c] = "none"]
    /\ response' = [response EXCEPT ![c] =
                      [type |-> request[c], size |-> size,
                       objects |-> IF request[c] = "main" THEN objects ELSE 0]]
    /\ flight' = [flight EXCEPT ![c] = @ + 1 + sent]
    /\ unsent' = [unsent EXCEPT ![c] = size - sent]
    /\ UNCHANGED <<setting, active, forced, timers, conn, pendingBytes, pendingObjects,
                   header, page, fault>>

(* Mutant: what was sent is not taken off what is pending. *)
SendDataAgain(c, sent) ==
    /\ Running /\ sent \in 1 .. unsent[c] /\ flight[c] = 0
    /\ flight' = [flight EXCEPT ![c] = @ + sent]
    /\ UNCHANGED <<setting, active, forced, timers, conn, request, server, pendingBytes,
                   pendingObjects, header, page, fault>>

SendData(c, sent) ==
    /\ Running /\ sent \in 1 .. unsent[c]
    /\ unsent' = [unsent EXCEPT ![c] = @ - sent]
    /\ flight' = [flight EXCEPT ![c] = @ + sent]
    /\ UNCHANGED <<setting, active, forced, timers, conn, request, response, pendingBytes,
                   pendingObjects, header, page, fault>>
------------------------------------------------------------------------------
(* DataReceived with n units in the receive buffer.                          *)

(* m_pendingObjects--. *)
Decrement(n) == (n - 1 + CounterSize) % CounterSize

(* contentTypeStr: read when a message starts.                               *)
Header(c) == IF pendingBytes[c] = 0 THEN response[c].type ELSE header

(* Mutants: the last object is not asked for; the objects still to load are   *)
(* asked for whatever happens.                                               *)
AfterMessageEarly(c, objects) ==
    IF objects > 1 /\ ~forced[c] THEN "request"
    ELSE IF objects <= 1 /\ kind = "page" THEN "read" ELSE "stop"
AfterMessageDeaf(c, objects) ==
    IF objects # 0 THEN "request" ELSE IF kind = "page" THEN "read" ELSE "stop"

(* What follows a whole message when so many objects are still to be loaded. *)
AfterMessage(c, objects) ==
    IF objects # 0 /\ ~forced[c] THEN "request"
    ELSE IF objects = 0 /\ kind = "page" THEN "read" ELSE "stop"

(* Mutant: the main object counts as well. *)
RemainingAny(type, before) == Decrement(before)

(* Objects still to load after a message of which contentTypeStr says type.  *)
Remaining(type, before) == IF type = "inline" THEN Decrement(before) ELSE before

DataReceived(c, n) ==
    LET new     == pendingBytes[c] = 0
        head    == Header(c)
        due     == IF new THEN response[c].size ELSE pendingBytes[c]
        payload == IF new THEN n - 1 ELSE n
        consume == IF payload < due THEN payload ELSE due
        before  == IF new /\ head = "main" THEN response[c].objects
                                                ELSE pendingObjects[c]
        ends    == consume = due
        objects == IF ends THEN Remaining(head, before) ELSE before
        next    == IF ends THEN AfterMessage(c, objects) ELSE "wait"
        loaded  == page[c].received
        received == IF loaded < CounterSize THEN loaded + 1 ELSE loaded
    IN /\ Running /\ conn[c] = "open" /\ n \in 1 .. flight[c]
       /\ flight' = [flight EXCEPT ![c] = @ - n]
       /\ header' = head
       /\ pendingBytes' = [pendingBytes EXCEPT ![c] = due - consume]
       /\ pendingObjects' = [pendingObjects EXCEPT ![c] = objects]
       /\ page' = [page EXCEPT ![c] =
                     IF ~ends THEN @
                     ELSE IF response[c].type = "main"
                          THEN [announced |-> response[c].objects, received |-> 0]
                          ELSE [@ EXCEPT !.received = received]]
       /\ \/ /\ ends /\ payload # consume
             /\ fault' = "m_rxPacket->GetSize () == 0"
             /\ UNCHANGED <<active, timers, conn, request>>
          \/ /\ payload = consume /\ next = "wait"
             /\ UNCHANGED <<active, timers, conn, request, fault>>
          \/ /\ payload = consume /\ next = "request"
             /\ request' = [request EXCEPT ![c] = "inline"]
             /\ UNCHANGED <<active, timers, conn, fault>>
          \/ /\ payload = consume /\ next = "read"      \* SetReadingTime
             /\ timers' = [timers EXCEPT ![c] = @ \cup {"next"}]
             /\ UNCHANGED <<active, conn, request, fault>>
          \/ /\ payload = consume /\ next = "stop"
             /\ Stop(c, timers[c])
             /\ UNCHANGED request
       /\ UNCHANGED <<setting, forced, server>>
------------------------------------------------------------------------------
Init ==
    /\ setting \in Setting
    /\ active = [c \in Client |-> FALSE] /\ forced = [c \in Client |-> FALSE]
    /\ timers = [c \in Client |-> {}]
    /\ conn = [c \in Client |-> "closed"]
    /\ request = [c \in Client |-> "none"]
    /\ response = [c \in Client |-> NoResponse]
    /\ unsent = [c \in Client |-> 0] /\ flight = [c \in Client |-> 0]
    /\ pendingBytes = [c \in Client |-> 0] /\ pendingObjects = [c \in Client |-> 0]
    /\ header = "none"
    /\ page = [c \in Client |-> [announced |-> 0, received |-> 0]]
    /\ fault = "none"

Answer(c)  == \E size \in Sizes[setting], objects \in Objects[setting] :
                 \E sent \in 0 .. size : ProccessHttpRequest(c, size, objects, sent)
Receive(c) == \E n \in 1 .. flight[c] : DataReceived(c, n)
Send(c)    == \E sent \in 1 .. unsent[c] : SendData(c, sent)

Next ==
    \E c \in clients :
        \/ Start(c)
        \/ NotifyConnectionSucceeded(c)
        \/ \E t \in Timer : ForceStop(c, t)
        \/ NextRequest(c)
        \/ Answer(c)
        \/ Send(c)
        \/ Receive(c)

(* TCP and the servers get things done, and scheduled events happen.         *)
Fairness ==
    \A c \in Client :
        /\ WF_vars(NotifyConnectionSucceeded(c)) /\ WF_vars(NextRequest(c))
        /\ WF_vars(Answer(c)) /\ WF_vars(Send(c)) /\ WF_vars(Receive(c))
        /\ WF_vars(\E t \in Timer : ForceStop(c, t))

Spec == Init /\ [][Next]_vars /\ Fairness
------------------------------------------------------------------------------
TypeOK ==
    /\ setting \in Setting
    /\ active \in [Client -> BOOLEAN] /\ forced \in [Client -> BOOLEAN]
    /\ timers \in [Client -> SUBSET Timer]
    /\ conn \in [Client -> {"closed", "connecting", "open"}]
    /\ request \in [Client -> Type]
    /\ response \in [Client -> [type : Type, size : Nat, objects : Nat]]
    /\ unsent \in [Client -> Nat] /\ flight \in [Client -> Nat]
    /\ pendingBytes \in [Client -> Nat]
    /\ pendingObjects \in [Client -> 0 .. CounterSize - 1]
    /\ header \in Type
    /\ page \in [Client -> [announced : Nat, received : Nat]]
    /\ fault \in Fault

(***************************************************************************)
(* No NS_ASSERT of the clients fails: a message ends where the data ends, and *)
(* nobody stops an application that has stopped: what force-stops it and what *)
(* it does itself never both happen.                                         *)
(***************************************************************************)
NoAssertFails == fault = "none"

Answering(c) == unsent[c] > 0 \/ flight[c] > 0

(***************************************************************************)
(* One exchange at a time: of a request, a response and a reading time, an    *)
(* open connection has exactly one, and the payload the client waits for is   *)
(* what the server still has to send and what is on its way.                  *)
(***************************************************************************)
OneExchange ==
    \A c \in Client :
        /\ conn[c] = "open" =>
              \/ request[c] # "none" /\ ~Answering(c) /\ "next" \notin timers[c]
              \/ request[c] = "none" /\ Answering(c) /\ "next" \notin timers[c]
              \/ request[c] = "none" /\ ~Answering(c) /\ "next" \in timers[c]
        /\ conn[c] # "open" => request[c] = "none" /\ ~Answering(c)
        /\ pendingBytes[c] > 0 => pendingBytes[c] = unsent[c] + flight[c]

(***************************************************************************)
(* "After receiving all inline objects, the client waits an interval (reading *)
(* time) before it requests a new main object": in the reading time the       *)
(* client has received as many inline objects as the page announced.         *)
(***************************************************************************)
PageComplete ==
    \A c \in Client :
        "next" \in timers[c] => page[c].received = page[c].announced

(***************************************************************************)
(* It holds for a client that has the static locals to itself.               *)
(***************************************************************************)
PageCompleteAlone == Alone => PageComplete

(***************************************************************************)
(* m_pendingObjects does not wrap around for a client that has the static     *)
(* locals to itself: a wrap shows as a rise, and the counter rises only as the *)
(* header of a main object is read, to no more than that announces.  (Where   *)
(* clients share contentTypeStr it does wrap: a message that starts as a main  *)
(* object may end as an inline one when there is nothing to take off.)        *)
(***************************************************************************)
NeverWraps ==
    [][\A c \in Client :
          (Alone /\ pendingObjects'[c] > pendingObjects[c])
             => response[c].type = "main" /\ pendingObjects'[c] <= response[c].objects]_vars

(***************************************************************************)
(* "After receiving all video chunks, the client closes the connection": a    *)
(* client that was not forced to stop, and has the static locals to itself,    *)
(* has received all of them.                                                 *)
(***************************************************************************)
VideoComplete ==
    [][\A c \in Client :
          (Alone /\ kind = "video" /\ active[c] /\ ~active'[c] /\ ~forced[c])
             => page'[c].received = page'[c].announced]_vars

(***************************************************************************)
(* "Otherwise, the socket will be closed after receiving the current object": *)
(* a client that was forced to stop requests nothing more.                   *)
(***************************************************************************)
ClosesAfterCurrent ==
    [][\A c \in Client :
          (forced[c] /\ request[c] = "none" /\ request'[c] # "none")
             => conn[c] = "connecting"]_vars

(***************************************************************************)
(* The same of the video clients alone.                                      *)
(***************************************************************************)
VideoClosesAfterCurrent ==
    [][\A c \in Client :
          (kind = "video" /\ forced[c] /\ request[c] = "none" /\ request'[c] # "none")
             => conn[c] = "connecting"]_vars

(***************************************************************************)
(* A client that was forced to stop reports that it has stopped, unless it is *)
(* given pages without inline objects (a page after the force stop is the     *)
(* subject of ClosesAfterCurrent).                                           *)
(***************************************************************************)
StopIsReported ==
    \A c \in Client :
        (Alone /\ forced[c] /\ active[c])
           ~> (~active[c] \/ (kind = "page" /\ page[c].announced = 0))
==============================================================================
