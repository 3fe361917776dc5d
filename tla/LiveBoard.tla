----------------------------- MODULE LiveBoard -----------------------------
(***************************************************************************)
(* The commander's live page of one incident: what it shows, the alerts it *)
(* loads and those the incident's channel announces, and the connection    *)
(* they are announced on.                                                  *)
(*                                                                         *)
(* Code: features/live/LivePage.tsx, components/AlertFeed.tsx, ws/hooks.ts,*)
(* ws/socket.ts, api/incidents.ts, app/ws/routes.py, app/events/bus.py,    *)
(* app/api/v1/alerts.py, the life cycle of app/api/v1/incidents.py.        *)
(*                                                                         *)
(* Loads of the incident and of the list are one step, those of the alerts *)
(* are read and arrive.  Zones, victims, speech, the station's channel and *)
(* a connection that outlives its page are left out.                       *)
(***************************************************************************)
EXTENDS Naturals, Sequences, FiniteSets, FiniteSetsExt

CONSTANTS
  Alert,      \* alerts that may be raised
  QueueSize,  \* of a subscriber's queue
  MaxBreaks,  \* bound: connections that break or are refused
  MaxCalls    \* bound: requests under way at once

VARIABLES
  view,    \* useState of LivePage and LiveView, and the pending mutations
  sock,    \* the LiveSocket: what it waits for, and what link shows
  cache,   \* the query cache
  load,    \* the load of the alerts that is under way
  calls,   \* requests under way
  server,  \* the incident, its alerts, those not announced yet, the subscription
  raced    \* alerts of which an announcement met a load, an overflow or an acknowledgement

vars == <<view, sock, cache, load, calls, server, raced>>

None   == "none"
NoLoad == <<>>
Blank  == [a \in Alert |-> None]

Shut == [open |-> FALSE, confirm |-> FALSE, notice |-> FALSE, busy |-> {}]
Off  == [phase |-> "off", link |-> None]
NoStream == [on |-> FALSE, ready |-> FALSE, queue |-> <<>>]

Init ==
  /\ view = Shut /\ sock = Off /\ load = NoLoad /\ calls = {} /\ raced = {}
  /\ cache = [list |-> None, incident |-> None, alerts |-> Blank, loaded |-> FALSE, stale |-> FALSE]
  /\ server = [status |-> "dispatched", alerts |-> Blank, silent |-> {}, stream |-> NoStream, breaks |-> 0]

(***************************************************************************)
(* What is on screen                                                       *)
(***************************************************************************)
Listed(v, c)   == v.open /\ c.list = "in" /\ c.incident # None
Live(v, c)     == Listed(v, c) /\ c.incident = "active"
Briefing(v, c) == Listed(v, c) /\ c.incident # "active"

(* useIncidentStream: the socket is there while the incident is.  One that *)
(* was closed for good is only replaced on another visit.                  *)
Socket(v, c, s) ==
  IF ~Listed(v, c) THEN Off
  ELSE IF s.phase = "off" THEN [phase |-> "opening", link |-> "connecting"] ELSE s

(* LiveView goes with its dialog and its mutations; useAlerts loads when it *)
(* comes and the cache has no alerts, or old ones.                         *)
Display(v, c, ld, cs) ==
  LET gone == ~Live(v, c)
      came == Live(v, c) /\ ~Live(view, cache)
  IN  /\ cache' = c
      /\ view' = [v EXCEPT !.confirm = @ /\ ~gone,
                           !.busy = @ \ ((IF gone THEN {"close"} ELSE {}) \cup
                                         (IF Briefing(v, c) THEN {} ELSE {"activate"}))]
      /\ calls' = {[x EXCEPT !.live = @ /\ x.op \in view'.busy] : x \in cs}
      /\ \/ load' = ld /\ ~(came /\ (~c.loaded \/ c.stale))
         \/ came /\ load' = (IF ld = NoLoad THEN <<"sent">> ELSE ld)
      /\ sock' = Socket(v, c, sock)

Offline(s) == [s EXCEPT !.stream = NoStream]

(* When the socket stops or is replaced, so does the subscription. *)
Rest(s) == server' = IF sock'.phase = "open" THEN s ELSE Offline(s)

Shows(v, c) == Display(v, c, load, calls) /\ Rest(server) /\ UNCHANGED raced

(***************************************************************************)
(* Loads                                                                   *)
(***************************************************************************)
Mount   == ~view.open /\ Shows([Shut EXCEPT !.open = TRUE], cache)
Unmount == view.open /\ Shows(Shut, cache)

LoadList ==
  /\ view.open
  /\ Shows(view, [cache EXCEPT !.list = IF server.status = "closed" THEN "out" ELSE "in"])

LoadIncident == view.open /\ cache.list = "in" /\ Shows(view, [cache EXCEPT !.incident = server.status])

(* The server reads the alerts for a load; the alerts arrive, or do not. *)
ServeLoad ==
  /\ load = <<"sent">> /\ load' = <<"read", server.alerts>>
  /\ UNCHANGED <<view, sock, cache, calls, server, raced>>

LoadAlerts ==
  /\ Len(load) = 2 /\ load' = NoLoad
  /\ cache' = [cache EXCEPT !.alerts = load[2], !.loaded = TRUE, !.stale = FALSE]
  /\ UNCHANGED <<view, sock, calls, server, raced>>

LoadFails == load # NoLoad /\ load' = NoLoad /\ UNCHANGED <<view, sock, cache, calls, server, raced>>

(***************************************************************************)
(* The channel                                                             *)
(***************************************************************************)
(* The oldest event makes room for a new one. *)
Queued(q, e) == IF Len(q) < QueueSize THEN Append(q, e) ELSE Append(Tail(q), e)

Publish(s, e) == IF s.stream.on THEN [s EXCEPT !.stream.queue = Queued(@, e)] ELSE s

(* A load has read the alerts, and this of an alert is not among them. *)
Overtaken(a, st) == Len(load) = 2 /\ load[2][a] # st

Dropped(s) ==
  IF s.stream.on /\ Len(s.stream.queue) = QueueSize /\ Head(s.stream.queue)[1] = "alert"
  THEN {Head(s.stream.queue)[2]} ELSE {}

Raced(a, st) ==
  raced' = raced \cup (IF Overtaken(a, st) \/ server.alerts[a] # st THEN {a} ELSE {}) \cup Dropped(server)

(* An alert is committed, and announced afterwards. *)
Raise(a) ==
  /\ server.status = "active" /\ server.alerts[a] = None
  /\ server' = [server EXCEPT !.alerts[a] = "open", !.silent = @ \cup {a}]
  /\ UNCHANGED <<view, sock, cache, load, calls, raced>>

Announce(a) ==
  /\ a \in server.silent
  /\ server' = Publish([server EXCEPT !.silent = @ \ {a}], <<"alert", a, "open">>)
  /\ Raced(a, "open")
  /\ UNCHANGED <<view, sock, cache, load, calls>>

(* Mutant: the alerts are not loaded again when the connection is back. *)
Mutant_Invalidated(c) == c

(* invalidateQueries marks the alerts. *)
Invalidated(c) == [c EXCEPT !.stale = c.loaded]

(* "ready": a load that is under way is started anew if there are alerts   *)
(* already, and left alone if it is the first one.                         *)
Ready ==
  LET c == Invalidated(cache) IN
  /\ sock.phase = "open" /\ server.stream.ready
  /\ sock' = [sock EXCEPT !.link = "open"]
  /\ server' = [server EXCEPT !.stream.ready = FALSE]
  /\ cache' = c
  /\ load' = IF c.stale /\ Live(view, c) THEN <<"sent">> ELSE load
  /\ UNCHANGED <<view, calls, raced>>

(* upsertAlert: without alerts in the cache there is nothing to add to. *)
upsertAlert(c, a, st) == IF c.loaded THEN [c EXCEPT !.alerts[a] = st] ELSE c

Deliver ==
  LET e == Head(server.stream.queue) IN
  /\ sock.phase = "open" /\ server.stream.on /\ ~server.stream.ready /\ server.stream.queue # <<>>
  /\ Display(view, IF e[1] = "alert" THEN upsertAlert(cache, e[2], e[3])
                   ELSE [cache EXCEPT !.incident = e[2]], load, calls)
  /\ Rest([server EXCEPT !.stream.queue = Tail(@)])
  /\ raced' = IF e[1] = "alert" /\ Overtaken(e[2], e[3]) THEN raced \cup {e[2]} ELSE raced

(***************************************************************************)
(* The connection                                                          *)
(***************************************************************************)
(* The server subscribes before it says "ready". *)
Connect ==
  /\ sock.phase = "opening" /\ sock' = [sock EXCEPT !.phase = "open"]
  /\ server' = [server EXCEPT !.stream = [on |-> TRUE, ready |-> TRUE, queue |-> <<>>]]
  /\ UNCHANGED <<view, cache, load, calls, raced>>

To(phase, link) == sock' = [phase |-> phase, link |-> link] /\ UNCHANGED <<view, cache, load, calls, raced>>

(* A connection that is not made is tried again later; 4401 makes the      *)
(* socket refresh the token first; 4403 and 4404 end it.                   *)
Refused ==
  /\ sock.phase = "opening" /\ server.breaks < MaxBreaks
  /\ server' = [server EXCEPT !.breaks = @ + 1]
  /\ To("waiting", "lost") \/ To("refreshing", sock.link) \/ To("closed", None)

Refreshed(ok) ==
  /\ sock.phase = "refreshing" /\ UNCHANGED server
  /\ IF ok THEN To("waiting", "lost") ELSE To("closed", None)

(* A connection breaks; without pings the watchdog closes it. *)
Break ==
  /\ sock.phase = "open" /\ server.stream.on
  /\ server.breaks < MaxBreaks
  /\ server' = Offline([server EXCEPT !.breaks = @ + 1])
  /\ UNCHANGED <<view, sock, cache, load, calls, raced>>

Noticed ==
  /\ sock.phase = "open" /\ ~server.stream.on
  /\ To("waiting", "lost") /\ UNCHANGED server

Reconnect == sock.phase = "waiting" /\ To("opening", "lost") /\ UNCHANGED server

(***************************************************************************)
(* What the commander does                                                 *)
(***************************************************************************)
Send(op, a, v) ==
  /\ Cardinality(calls) < MaxCalls
  /\ calls' = calls \cup {[op |-> op, alert |-> a, stage |-> "sent", live |-> op # "ack"]}
  /\ view' = v /\ UNCHANGED <<sock, cache, load, server, raced>>

Press(v) == view' = v /\ UNCHANGED <<sock, cache, load, calls, server, raced>>

Activate ==
  /\ Briefing(view, cache) /\ "activate" \notin view.busy
  /\ Send("activate", None, [view EXCEPT !.busy = @ \cup {"activate"}])

AskClose      == Live(view, cache) /\ ~view.confirm /\ Press([view EXCEPT !.confirm = TRUE])
CancelClose   == view.confirm /\ Press([view EXCEPT !.confirm = FALSE])
DismissNotice == view.notice /\ Press([view EXCEPT !.notice = FALSE])

CloseIncident ==
  /\ view.confirm /\ "close" \notin view.busy
  /\ Send("close", None, [view EXCEPT !.busy = @ \cup {"close"}])

(* AlertFeed: an alert that is not acknowledged, as far as the page knows. *)
Ack(a) == /\ Live(view, cache) /\ ~view.confirm /\ cache.loaded /\ cache.alerts[a] = "open"
          /\ Send("ack", a, view)

Served(c) == calls' = (calls \ {c}) \cup {[c EXCEPT !.stage = "done"]}
             /\ UNCHANGED <<view, sock, cache, load>>

(* activate_incident and close_incident: 409 from any other status. *)
ServeLife(c, op, from, to) ==
  /\ c \in calls /\ c.op = op /\ c.stage = "sent" /\ server.status \in from
  /\ server' = Publish([server EXCEPT !.status = to], <<"incident", to>>)
  /\ raced' = raced \cup Dropped(server)
  /\ Served(c)

ServeActivate(c) == ServeLife(c, "activate", {"dispatched"}, "active")
ServeClose(c)    == ServeLife(c, "close", {"dispatched", "active"}, "closed")

(* acknowledge commits and announces. *)
ServeAck(c) ==
  /\ c \in calls /\ c.op = "ack" /\ c.stage = "sent"
  /\ server' = Publish([server EXCEPT !.alerts[c.alert] = "acked"], <<"alert", c.alert, "acked">>)
  /\ raced' = raced \cup Dropped(server) \cup (IF Overtaken(c.alert, "acked") THEN {c.alert} ELSE {})
  /\ Served(c)

(* useIncidentMutation stores what it was answered, and the page says that *)
(* the incident was closed, unless the channel said so first: LiveView and *)
(* its callback are gone then.                                             *)
LifeAnswered(c) ==
  LET st == IF c.op = "close" THEN "closed" ELSE "active" IN
  /\ c \in calls /\ c.op \in {"activate", "close"} /\ c.stage = "done"
  /\ Display([view EXCEPT !.notice = @ \/ (c.live /\ c.op = "close"),
                          !.busy = IF c.live THEN @ \ {c.op} ELSE @],
             [cache EXCEPT !.incident = st], load, calls \ {c})
  /\ Rest(server) /\ UNCHANGED raced

AckAnswered(c) ==
  /\ c \in calls /\ c.op = "ack" /\ c.stage = "done" /\ calls' = calls \ {c}
  /\ cache' = upsertAlert(cache, c.alert, "acked")
  /\ UNCHANGED <<view, sock, load, server, raced>>

Failed(c) ==
  /\ c \in calls /\ calls' = calls \ {c}
  /\ view' = [view EXCEPT !.busy = IF c.live THEN @ \ {c.op} ELSE @]
  /\ UNCHANGED <<sock, cache, load, server, raced>>

Next ==
  \/ LoadList \/ LoadIncident \/ ServeLoad \/ LoadAlerts \/ LoadFails \/ Ready \/ Deliver
  \/ Connect \/ Refused \/ Break \/ Noticed \/ Reconnect
  \/ Activate \/ AskClose \/ CancelClose \/ DismissNotice \/ CloseIncident
  \/ \E ok \in BOOLEAN : Refreshed(ok)
  \/ \E a \in Alert : Raise(a) \/ Announce(a) \/ Ack(a)
  \/ \E c \in calls : \/ ServeActivate(c) \/ ServeClose(c) \/ ServeAck(c)
                      \/ LifeAnswered(c) \/ AckAnswered(c) \/ Failed(c)

Spec == Init /\ [][Mount \/ Unmount \/ Next]_vars

(***************************************************************************)
(* Properties                                                              *)
(***************************************************************************)
Quiet ==
  /\ sock.phase = "open" /\ server.stream.on /\ ~server.stream.ready /\ server.stream.queue = <<>>
  /\ load = NoLoad /\ cache.loaded /\ ~cache.stale

(* A board that is connected and has nothing left to receive shows every   *)
(* alert as it is, also those of the time in which it was not there or not *)
(* connected; only one that was announced in the middle of a load, dropped *)
(* from a full queue or acknowledged before its announcement may be wrong. *)
NothingMissed ==
  Live(view, cache) /\ Quiet =>
    \A a \in Alert \ (raced \cup server.silent) : cache.alerts[a] = server.alerts[a]
=============================================================================
