--------------------------- MODULE CaptureStream ---------------------------
(***************************************************************************)
(* One capture from the phone's page to the server: the CaptureClient of   *)
(* the page, its WebSocket connections, and the handler that the server    *)
(* runs for each of them.                                                  *)
(*                                                                         *)
(* Code: frontend/src/ws/capture.ts, the start and stop of                 *)
(* features/capture/CapturePage.tsx, app/ws/capture.py.                    *)
(*                                                                         *)
(* A connection keeps the order of what it carries; it may break at any    *)
(* time, and its two ends notice that independently.  ZoneCapture models   *)
(* what the server does with a frame; here a frame is only answered.       *)
(***************************************************************************)
EXTENDS Integers, Sequences, FiniteSets

CONSTANTS
  MaxInFlight,  \* MAX_IN_FLIGHT
  MaxConns,     \* bound: connections that the client opens
  MaxGrabs,     \* bound: ticks of the interval whose grab is still awaited
  MaxFrames     \* bound: ticks that start a grab

ASSUME InFlightAssumption == MaxInFlight \in Nat \ {0}
ASSUME StreamBounds == MaxConns \in Nat \ {0} /\ MaxGrabs \in Nat /\ MaxFrames \in Nat

VARIABLES
  client,  \* the fields of the CaptureClient, and whether it was started and stopped
  conn,    \* every connection: both ends, what is under way, the server's handler
  ticks    \* grabs so far (bounded by MaxFrames)

vars == <<client, conn, ticks>>

Conn == 1..MaxConns
None == 0

(* up holds "frame", "stop" and "close"; down holds "started", "answer" (zone_result *)
(* or a frame's error), "alert", the "error" that precedes the close of a rejected   *)
(* start, and "close", whose code is 1006, 4401 or 4403.                             *)
NewConn ==
  [phone |-> "none", server |-> "none", broken |-> FALSE, up |-> <<>>, down |-> <<>>,
   code |-> 1006, grabbing |-> 0, encoding |-> 0,
   latest |-> FALSE, busy |-> FALSE, clean |-> FALSE]

Init ==
  /\ client = [started |-> FALSE, running |-> FALSE, ws |-> None, opened |-> 0, timer |-> FALSE,
               retry |-> FALSE, inFlight |-> 0, asked |-> FALSE]
  /\ conn = [c \in Conn |-> NewConn]
  /\ ticks = 0

(* What either end sends after the connection broke is lost. *)
SendUp(k, msgs)   == IF k.broken THEN k ELSE [k EXCEPT !.up = @ \o msgs]
SendDown(k, msgs) == IF k.broken THEN k ELSE [k EXCEPT !.down = @ \o msgs]

(***************************************************************************)
(* The client                                                              *)
(***************************************************************************)
Connected(cl) == [cl EXCEPT !.ws = cl.opened + 1, !.opened = cl.opened + 1]

Connect(cl) ==
  /\ cl.opened < MaxConns
  /\ client' = Connected(cl)
  /\ conn' = [conn EXCEPT ![cl.opened + 1].phone = "connecting"]

(* CapturePage.start, once the camera is on. *)
Start ==
  /\ ~client.started
  /\ Connect([client EXCEPT !.started = TRUE, !.running = TRUE])
  /\ UNCHANGED ticks

(* onopen: the token and the zone are sent at once. *)
Open(c) ==
  /\ conn[c].phone = "connecting" /\ ~conn[c].broken
  /\ conn' = [conn EXCEPT ![c].phone = "open", ![c].server = "hello"]
  /\ UNCHANGED <<client, ticks>>

(* Mutant: the socket is closed without the stop message. *)
HangUpSilently(k) ==
  IF k.phone = "open" THEN [SendUp(k, <<"close">>) EXCEPT !.phone = "closed"]
                      ELSE [k EXCEPT !.phone = "closed"]

(* Mutant: a socket that is still connecting is forgotten, not closed. *)
HangUpIfOpen(k) ==
  IF k.phone = "open" THEN [SendUp(k, <<"stop", "close">>) EXCEPT !.phone = "closed"] ELSE k

(* The end of a connection by the client: the stop message if it is open, close(1000). *)
HangUp(k) ==
  IF k.phone = "open" THEN [SendUp(k, <<"stop", "close">>) EXCEPT !.phone = "closed"]
                      ELSE [k EXCEPT !.phone = "closed"]

Stopped(cl) ==
  [cl EXCEPT !.running = FALSE, !.timer = FALSE, !.retry = FALSE, !.ws = None]

(* stop() on the connections ks, of which the client uses client.ws. *)
StopClient(cl, ks) ==
  /\ client' = Stopped(cl)
  /\ conn' = IF cl.ws = None THEN ks ELSE [ks EXCEPT ![cl.ws] = HangUp(@)]

(* The user stops the capture or leaves the page. *)
Stop ==
  /\ client.started /\ ~client.asked
  /\ StopClient([client EXCEPT !.asked = TRUE], conn)
  /\ UNCHANGED ticks

(* Mutant: only a rejected token makes the client try again. *)
RetryIfRejected(code) == code = 4401

(* onclose tries again whatever closed the connection, unless it may not capture. *)
RetryOn(code) == code # 4403

(* onclose.  The refresh that a 4401 awaits first is over when the retry is due. *)
Closed(c, ks, code) ==
  LET cl == [client EXCEPT !.timer = FALSE] IN
  /\ conn' = [ks EXCEPT ![c].phone = "closed"]
  /\ client' = IF ~cl.running \/ cl.ws # c THEN cl
               ELSE IF RetryOn(code) THEN [cl EXCEPT !.retry = TRUE]
               ELSE Stopped(cl)

(* Mutant: an alert is taken for the answer to a frame. *)
CreditAlerts(n, msg) ==
  IF msg = "started" THEN 0 ELSE IF msg \in {"answer", "alert"} /\ n > 0 THEN n - 1 ELSE n

(* The count of unanswered frames after a message. *)
Credit(n, msg) ==
  IF msg = "started" THEN 0 ELSE IF msg = "answer" /\ n > 0 THEN n - 1 ELSE n

(* onmessage, and the close event when it is its turn.  The page answers an error *)
(* that is not about a frame by stopping the client.                              *)
Receive(c) ==
  LET msg == Head(conn[c].down)
      ks  == [conn EXCEPT ![c].down = Tail(@)]
  IN
  /\ conn[c].phone = "open" /\ conn[c].down # <<>>
  /\ CASE msg = "error" -> StopClient(client, ks)
       [] msg = "close" -> Closed(c, ks, conn[c].code)
       [] OTHER -> /\ conn' = ks
                   /\ client' = [client EXCEPT !.inFlight = Credit(@, msg),
                                               !.timer = @ \/ msg = "started"]
  /\ UNCHANGED ticks

(* The phone notices a broken connection. *)
PhoneNotices(c) ==
  /\ conn[c].broken /\ conn[c].phone \in {"connecting", "open"}
  /\ Closed(c, conn, 1006)
  /\ UNCHANGED ticks

Retry ==
  /\ client.retry
  /\ Connect([client EXCEPT !.retry = FALSE])
  /\ UNCHANGED ticks

(***************************************************************************)
(* A tick of the interval is an async function: it checks, awaits the      *)
(* camera's JPEG, counts the frame, awaits its bytes, and sends.  Ticks do *)
(* not wait for each other.  A tick that is skipped (also because the      *)
(* socket's buffer is not empty, or there is no picture) changes nothing.  *)
(***************************************************************************)
Grab(c) ==
  /\ client.timer /\ client.ws = c /\ conn[c].phone = "open"
  /\ client.inFlight < MaxInFlight
  /\ conn[c].grabbing < MaxGrabs /\ ticks < MaxFrames
  /\ ticks' = ticks + 1
  /\ conn' = [conn EXCEPT ![c].grabbing = @ + 1]
  /\ UNCHANGED client

Grabbed(c) ==
  /\ conn[c].grabbing > 0
  /\ IF conn[c].phone = "open"
       THEN /\ conn' = [conn EXCEPT ![c].grabbing = @ - 1, ![c].encoding = @ + 1]
            /\ client' = [client EXCEPT !.inFlight = @ + 1]
       ELSE /\ conn' = [conn EXCEPT ![c].grabbing = @ - 1]
            /\ UNCHANGED client
  /\ UNCHANGED ticks

(* send() on a socket that was closed meanwhile does nothing. *)
SendFrame(c) ==
  LET k == [conn[c] EXCEPT !.encoding = @ - 1] IN
  /\ conn[c].encoding > 0
  /\ conn' = [conn EXCEPT ![c] = IF k.phone = "open" THEN SendUp(k, <<"frame">>) ELSE k]
  /\ UNCHANGED <<client, ticks>>

(***************************************************************************)
(* The server's handler of a connection                                    *)
(***************************************************************************)
Accept(c) ==
  /\ conn[c].server = "hello"
  /\ conn' = [conn EXCEPT ![c] = [SendDown(@, <<"started">>) EXCEPT !.server = "streaming"]]
  /\ UNCHANGED <<client, ticks>>

RejectCodes == {4401, 4403}

(* WsReject: an error message, then the close with its code. *)
Rejected(k, code) == [SendDown(k, <<"error", "close">>) EXCEPT !.server = "ended", !.code = code]

Reject(c) ==
  /\ conn[c].server = "hello"
  /\ \E code \in RejectCodes : conn' = [conn EXCEPT ![c] = Rejected(conn[c], code)]
  /\ UNCHANGED <<client, ticks>>

Ended(k, clean) == [k EXCEPT !.server = "ended", !.clean = clean, !.latest = FALSE, !.busy = FALSE]

(* The receive task: a frame replaces the one that waits; stop or the client's *)
(* close ends both tasks.                                                      *)
ReceiveUp(c) ==
  LET k == [conn[c] EXCEPT !.up = Tail(@)]
      m == Head(conn[c].up)
  IN
  /\ conn[c].server = "streaming" /\ conn[c].up # <<>>
  /\ conn' = [conn EXCEPT ![c] = IF m = "frame" THEN [k EXCEPT !.latest = TRUE]
                                 ELSE Ended(k, m = "stop")]
  /\ UNCHANGED <<client, ticks>>

(* The analyse task takes the frame. *)
TakeLatest(c) ==
  /\ conn[c].server = "streaming" /\ conn[c].latest /\ ~conn[c].busy
  /\ conn' = [conn EXCEPT ![c].latest = FALSE, ![c].busy = TRUE]
  /\ UNCHANGED <<client, ticks>>

(* zone_result or the frame's error, and the alerts that the frame raised. *)
AnswerFrame(c) ==
  /\ conn[c].server = "streaming" /\ conn[c].busy
  /\ \E msgs \in {<<"answer">>, <<"answer", "alert">>} :
       conn' = [conn EXCEPT ![c] = [SendDown(@, msgs) EXCEPT !.busy = FALSE]]
  /\ UNCHANGED <<client, ticks>>

(* The server notices a broken connection. *)
ServerNotices(c) ==
  /\ conn[c].broken /\ conn[c].server \in {"hello", "streaming"}
  /\ conn' = [conn EXCEPT ![c] = Ended(@, FALSE)]
  /\ UNCHANGED <<client, ticks>>

(* A connection that is refused, a lost network, a restart of the server. *)
Break(c) ==
  /\ conn[c].phone \in {"connecting", "open"} /\ ~conn[c].broken
  /\ conn' = [conn EXCEPT ![c].broken = TRUE]
  /\ UNCHANGED <<client, ticks>>

Phone(c)  == Open(c) \/ Receive(c) \/ PhoneNotices(c) \/ Grabbed(c) \/ SendFrame(c)
Server(c) == ReceiveUp(c) \/ TakeLatest(c) \/ AnswerFrame(c) \/ ServerNotices(c)
Hello(c)  == Accept(c) \/ Reject(c)

Next ==
  \/ Start \/ Stop \/ Retry
  \/ \E c \in Conn : Phone(c) \/ Grab(c) \/ Hello(c) \/ Server(c) \/ Break(c)

Spec == Init /\ [][Next]_vars

(* Timers fire, promises settle, and both ends deal with what arrives and notice *)
(* a connection that broke (the server pings).  A tick need not get a picture,   *)
(* and nobody has to stop or to break anything.                                  *)
FairSpec ==
  /\ Spec
  /\ WF_vars(Retry)
  /\ \A c \in Conn :
       /\ WF_vars(Open(c)) /\ WF_vars(Receive(c)) /\ WF_vars(PhoneNotices(c))
       /\ WF_vars(Grabbed(c)) /\ WF_vars(SendFrame(c))
       /\ WF_vars(Hello(c))
       /\ WF_vars(ReceiveUp(c)) /\ WF_vars(TakeLatest(c)) /\ WF_vars(AnswerFrame(c))
       /\ WF_vars(ServerNotices(c))

(***************************************************************************)
(* Properties                                                              *)
(***************************************************************************)
Streaming(c) == client.running /\ client.timer /\ client.ws = c /\ conn[c].phone = "open"

Flag(b) == IF b THEN 1 ELSE 0

(* The frames of a connection that are still to be answered, or whose answer is *)
(* still to be read.                                                            *)
Unanswered(c) ==
  LET k == conn[c] IN
  k.encoding + Cardinality({i \in DOMAIN k.up : k.up[i] = "frame"}) + Flag(k.latest)
    + Flag(k.busy) + Cardinality({i \in DOMAIN k.down : k.down[i] = "answer"})

(* The client never believes that fewer frames are unanswered than there are, *)
(* whatever connections it had before and whatever else arrives on this one:  *)
(* the limit is applied to a count that errs on the safe side only.           *)
CreditsCoverFrames == \A c \in Conn : Streaming(c) => Unanswered(c) <= client.inFlight

(* A session whose connection never broke does not end as if the camera had been *)
(* lost: stopping the capture is always seen as a stop.                          *)
StopIsClean ==
  \A c \in Conn :
    conn[c].server = "ended" /\ ~conn[c].broken /\ conn[c].code = 1006 => conn[c].clean

(* A connection that was lost is replaced by a new one as long as nobody ends the *)
(* capture; only a rejected start is not tried again.                             *)
LostIsReplaced ==
  \A c \in Conn \ {MaxConns} :
    (conn[c].phone = "closed" /\ client.opened = c)
      ~> (client.opened > c \/ client.asked \/ conn[c].code # 1006)

(* Once the user has stopped the capture or left the page, no server session *)
(* goes on, also when it was stopped in the middle of connecting.            *)
StopEndsSessions ==
  client.asked ~> [](\A c \in Conn : conn[c].server \in {"none", "ended"})

(***************************************************************************)
(* What the documents say and the code does not do                         *)
(***************************************************************************)
(* A client that has reached its limit of unanswered frames gets below it again, *)
(* or its connection ends.                                                       *)
LimitIsTransient ==
  \A c \in Conn :
    (Streaming(c) /\ client.inFlight >= MaxInFlight)
      ~> (~Streaming(c) \/ client.inFlight < MaxInFlight)

(* A token that has expired is refreshed and the capture goes on: only the user *)
(* or a zone that may not be captured ends it.                                  *)
ExpiredTokenReconnects ==
  client.started /\ ~client.running =>
    client.asked \/ \E c \in Conn : conn[c].code = 4403
=============================================================================
