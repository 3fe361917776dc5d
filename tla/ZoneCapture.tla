---------------------------- MODULE ZoneCapture ----------------------------
(***************************************************************************)
(* The zone capture pipeline of the backend: phones stream JPEG frames of  *)
(* a zone over /ws/capture, every frame becomes one database transaction   *)
(* (assessment, zone status, alerts), and the result is announced on the   *)
(* incident channel after the commit.                                      *)
(*                                                                         *)
(* Code: app/ws/capture.py (session life cycle), services/zone_pipeline.py *)
(* (process_frame), services/incidents.py (effective_status, the stale     *)
(* rule), services/alerts.py.                                              *)
(*                                                                         *)
(* Several sessions may stream the same zone.  A transaction starts before *)
(* the inference and locks the zone row after it, so its created_at (the   *)
(* transaction's start, PostgreSQL's now()) is older than the `now' it     *)
(* writes into status_updated_at.  Time is a clock of abstract ticks.      *)
(* 0 stands for NULL: times and assessment ids start at 1.                 *)
(***************************************************************************)
EXTENDS Integers, Sequences

CONSTANTS
  Zone,          \* zones of one incident
  Session,       \* capture sessions that may be opened
  NoSession,     \* the owner of a zone row that nobody locks
  Analysable,    \* statuses that the fusion may return for a good frame
  StaleAfter,    \* settings: stale_zone_seconds
  RapidWindow,   \* settings: rapid_change_window_s
  FailInterval,  \* settings: analysis_failed_alert_interval_s
  MaxClock,      \* bound: last tick of the clock
  MaxFrames,     \* bound: frames whose analysis may start
  MaxCrashes     \* bound: crashes of the backend process

ASSUME SessionAssumption == NoSession \notin Session
ASSUME StatusAssumption == Analysable \subseteq {"safe", "caution", "unsafe", "blocked"}
ASSUME SettingsAssumption ==
  StaleAfter \in Nat /\ RapidWindow \in Nat /\ FailInterval \in Nat
ASSUME BoundAssumption == MaxClock \in Nat /\ MaxFrames \in Nat /\ MaxCrashes \in Nat

VARIABLES
  clock,     \* the wall clock
  incident,  \* "active", or "closed" (a deleted one makes no difference here)
  zone,      \* zone rows: status, status_updated_at, current_assessment_id
  lock,      \* which transaction holds the row lock of a zone
  history,   \* zone_assessments in commit order; the index is the id
  alerts,    \* alerts in commit order
  cap,       \* the state of every capture session's handler
  pushed,    \* alerts announced on the incident channel
  frames,    \* frames taken so far (bounded by MaxFrames)
  crashes    \* crashes so far (bounded by MaxCrashes)

db   == <<zone, lock, history, alerts>>
vars == <<clock, incident, zone, lock, history, alerts, cap, pushed, frames, crashes>>

Null    == 0
Severe  == {"unsafe", "blocked"}
Benign  == {"safe", "caution"}
(* fuse() returns "unclassified" exactly for a frame that is not analysable. *)
Verdict == Analysable \cup {"unclassified"}
Status  == {"unclassified", "safe", "caution", "unsafe", "blocked"}

SevereAlert == {"zone_rapid_change", "zone_blocked", "zone_unsafe"}
AlertType   == SevereAlert \cup {"analysis_failed", "camera_lost"}

(* Mutant: the stored status is used without asking how old it is. *)
StoredStatus(row, t) == row.status

(* The stale rule: an old status, or none, is presented as unclassified. *)
Effective(row, t) ==
  IF row.at # Null /\ t - row.at <= StaleAfter THEN row.status ELSE "unclassified"

(* A session's handler between two frames. *)
Idle(z) == [pc |-> "waiting", zone |-> z, created |-> Null, now |-> Null,
            prev |-> "unclassified", verdict |-> "unclassified",
            status |-> "unclassified", alerts |-> {}, clean |-> FALSE]
(* Handler states in which a frame or its announcement is under way. *)
Busy    == {"analysing", "locked", "committed"}
Running == Busy \cup {"waiting"}
PC      == Running \cup {"off", "finishing", "ended", "orphan"}

Init ==
  /\ clock = 1 /\ incident = "active"
  /\ zone = [z \in Zone |-> [status |-> "unclassified", at |-> Null, cur |-> Null]]
  /\ lock = [z \in Zone |-> NoSession]
  /\ history = <<>> /\ alerts = <<>>
  /\ cap \in [Session -> {[Idle(z) EXCEPT !.pc = "off"] : z \in Zone}]
  /\ pushed = {}
  /\ frames = 0 /\ crashes = 0

Tick ==
  /\ clock < MaxClock
  /\ clock' = clock + 1
  /\ UNCHANGED <<incident, db, pushed, cap, frames, crashes>>

(***************************************************************************)
(* The session's life cycle                                                *)
(***************************************************************************)
(* zone_for_capture, INSERT capture_sessions, "started". *)
StartCapture(s) ==
  /\ cap[s].pc = "off"
  /\ incident = "active"
  /\ cap' = [cap EXCEPT ![s].pc = "waiting"]
  /\ UNCHANGED <<clock, incident, db, pushed, frames, crashes>>

(* Mutant: the transaction of a cancelled handler is left open. *)
StillLocked(s) == lock

(* The transaction of a handler that is cancelled rolls back: its row lock goes. *)
Unlocked(s) == [z \in Zone |-> IF lock[z] = s THEN NoSession ELSE lock[z]]

(* Both tasks are cancelled, whatever the frame in hand was waiting for: an   *)
(* uncommitted frame is rolled back, a committed one is not announced further. *)
EndStream(s, clean) ==
  /\ cap[s].pc \in Running
  /\ cap' = [cap EXCEPT ![s] = [Idle(cap[s].zone) EXCEPT !.pc = "finishing", !.clean = clean]]
  /\ lock' = Unlocked(s)
  /\ UNCHANGED <<clock, incident, zone, history, alerts, pushed, frames, crashes>>

StopCapture(s) == EndStream(s, TRUE)   \* {"type": "stop"}
DropCapture(s) == EndStream(s, FALSE)  \* disconnect, or an exception in a task

(* Mutant: the end of the stream is reported whatever ended it. *)
CameraAlways(s) == TRUE

(* The end was not asked for: neither a stop message nor a crash of the server. *)
CameraLost(s) == ~cap[s].clean

(* _finish: ended_at, the camera_lost alert of an unclean end, and its event. *)
FinishCapture(s) ==
  /\ cap[s].pc = "finishing"
  /\ cap' = [cap EXCEPT ![s].pc = "ended"]
  /\ IF CameraLost(s)
       THEN /\ alerts' = Append(alerts, [zone |-> cap[s].zone, type |-> "camera_lost",
                                         created |-> clock, at |-> clock,
                                         assessment |-> Null, session |-> s])
            /\ pushed' = pushed \cup {Len(alerts) + 1}
       ELSE UNCHANGED <<alerts, pushed>>
  /\ UNCHANGED <<clock, incident, zone, lock, history, frames, crashes>>

(* The process dies: every transaction rolls back and nothing closes the rows. *)
Crash ==
  /\ crashes < MaxCrashes
  /\ crashes' = crashes + 1
  /\ cap' = [s \in Session |->
               IF cap[s].pc \in Running \cup {"finishing"}
                 THEN [Idle(cap[s].zone) EXCEPT !.pc = "orphan", !.clean = cap[s].clean]
                 ELSE cap[s]]
  /\ lock' = [z \in Zone |-> NoSession]
  /\ UNCHANGED <<clock, incident, zone, history, alerts, pushed, frames>>

(***************************************************************************)
(* process_frame                                                           *)
(***************************************************************************)
(* The analyse task takes the newest frame and its transaction starts.  The *)
(* incident's status is not looked at again.                                *)
TakeFrame(s) ==
  /\ cap[s].pc = "waiting"
  /\ frames < MaxFrames
  /\ frames' = frames + 1
  /\ cap' = [cap EXCEPT ![s].pc = "analysing", ![s].created = clock]
  /\ UNCHANGED <<clock, incident, db, pushed, crashes>>

(* FrameError: the phone gets an error message and the transaction is dropped. *)
RejectFrame(s) ==
  /\ cap[s].pc = "analysing"
  /\ cap' = [cap EXCEPT ![s] = Idle(cap[s].zone)]
  /\ UNCHANGED <<clock, incident, db, pushed, frames, crashes>>

(* Mutant: the zone is read with a plain SELECT. *)
RowAlwaysFree(z) == TRUE

(* FOR UPDATE waits while another transaction holds the row. *)
RowFree(z) == lock[z] = NoSession

(* Inference is over: SELECT zone FOR UPDATE, then the clock and the previous *)
(* status are read under the lock.  A frame that is not analysable keeps the  *)
(* stored status.                                                             *)
LockZone(s, verdict) ==
  LET z == cap[s].zone IN
  /\ cap[s].pc = "analysing"
  /\ RowFree(z)
  /\ lock' = [lock EXCEPT ![z] = s]
  /\ cap' = [cap EXCEPT
       ![s].pc = "locked",
       ![s].now = clock,
       ![s].prev = Effective(zone[z], clock),
       ![s].verdict = verdict,
       ![s].status = IF verdict = "unclassified" THEN zone[z].status ELSE verdict]
  /\ UNCHANGED <<clock, incident, zone, history, alerts, pushed, frames, crashes>>

(* _rapid_change_from: a benign assessment created within the window. *)
RapidChange(z, now) ==
  \E i \in DOMAIN history : /\ history[i].zone = z
                            /\ history[i].status \in Benign
                            /\ history[i].created >= now - RapidWindow

(* Mutant: an alert exactly one interval old no longer counts. *)
RecentFailureStrict(z) ==
  \E k \in DOMAIN alerts : /\ alerts[k].zone = z
                           /\ alerts[k].type = "analysis_failed"
                           /\ alerts[k].created > clock - FailInterval

(* _recent_failure_alert, with the clock read at the query. *)
RecentFailure(z) ==
  \E k \in DOMAIN alerts : /\ alerts[k].zone = z
                           /\ alerts[k].type = "analysis_failed"
                           /\ alerts[k].created >= clock - FailInterval

(* Mutant: the alert's type is derived from the status on every transition. *)
AlertOfEveryChange(z, verdict, prev, now) ==
  IF verdict = prev THEN "none" ELSE "zone_" \o verdict

(* The alert type that this frame raises, "none" if it raises no alert. *)
AlertOf(z, verdict, prev, now) ==
  CASE verdict = "unclassified" -> IF RecentFailure(z) THEN "none" ELSE "analysis_failed"
    [] verdict \in Severe /\ verdict # prev ->
         IF RapidChange(z, now) THEN "zone_rapid_change"
         ELSE IF verdict = "blocked" THEN "zone_blocked" ELSE "zone_unsafe"
    [] OTHER -> "none"

(* Mutant: a frame that is not analysable resets the zone. *)
ZoneAlways(c, id) == [zone EXCEPT ![c.zone] = [status |-> c.verdict, at |-> c.now, cur |-> id]]

(* Only an analysable frame moves the zone; its time is the one read under the lock. *)
ZoneAfter(c, id) ==
  IF c.verdict = "unclassified" THEN zone
  ELSE [zone EXCEPT ![c.zone] = [status |-> c.verdict, at |-> c.now, cur |-> id]]

(* INSERT assessment and alerts, UPDATE zone, COMMIT; the row lock is released. *)
CommitFrame(s) ==
  LET c    == cap[s]
      id   == Len(history) + 1
      type == AlertOf(c.zone, c.verdict, c.prev, c.now)
  IN
  /\ c.pc = "locked"
  /\ history' = Append(history, [zone |-> c.zone, status |-> c.verdict,
                                 created |-> c.created, at |-> c.now])
  /\ zone' = ZoneAfter(c, id)
  /\ IF type = "none"
       THEN UNCHANGED alerts /\ cap' = [cap EXCEPT ![s].pc = "committed"]
       ELSE /\ alerts' = Append(alerts, [zone |-> c.zone, type |-> type, created |-> c.created,
                                         at |-> clock, assessment |-> id, session |-> s])
            /\ cap' = [cap EXCEPT ![s].pc = "committed", ![s].alerts = {Len(alerts) + 1}]
  /\ lock' = [lock EXCEPT ![c.zone] = NoSession]
  /\ UNCHANGED <<clock, incident, pushed, frames, crashes>>

(* Mutant: only the zone's update is announced. *)
PublishZoneOnly(s) ==
  /\ cap[s].pc = "committed"
  /\ cap' = [cap EXCEPT ![s] = Idle(cap[s].zone)]
  /\ UNCHANGED <<clock, incident, db, pushed, frames, crashes>>

(* zone.updated and alert.created on the incident channel, zone_result and the *)
(* alerts to the phone; then the handler waits for the next frame.             *)
PublishFrame(s) ==
  /\ cap[s].pc = "committed"
  /\ pushed' = pushed \cup cap[s].alerts
  /\ cap' = [cap EXCEPT ![s] = Idle(cap[s].zone)]
  /\ UNCHANGED <<clock, incident, db, frames, crashes>>

(* close_incident does not look for running sessions. *)
CloseIncident ==
  /\ incident = "active"
  /\ incident' = "closed"
  /\ UNCHANGED <<clock, db, cap, pushed, frames, crashes>>

Frame(s) ==
  \/ TakeFrame(s)
  \/ RejectFrame(s)
  \/ \E v \in Verdict : LockZone(s, v)
  \/ CommitFrame(s)
  \/ PublishFrame(s)

Next ==
  \/ Tick
  \/ Crash
  \/ CloseIncident
  \/ \E s \in Session :
       StartCapture(s) \/ StopCapture(s) \/ DropCapture(s) \/ FinishCapture(s) \/ Frame(s)

Spec == Init /\ [][Next]_vars

(* The event loop keeps running a frame that it has started and the row lock's *)
(* queue is first come, first served, so a frame that waits for it gets it.    *)
Fairness ==
  \A s \in Session :
    /\ SF_vars(\E v \in Verdict : LockZone(s, v))
    /\ WF_vars(CommitFrame(s))
    /\ WF_vars(PublishFrame(s))
    /\ WF_vars(FinishCapture(s))

FairSpec == Spec /\ Fairness

(***************************************************************************)
(* Properties                                                              *)
(***************************************************************************)
ZoneRow    == [status : Status, at : Nat, cur : Nat]
Assessment == [zone : Zone, status : Verdict, created : Nat, at : Nat]
Alert      == [zone : Zone, type : AlertType, created : Nat, at : Nat,
               assessment : Nat, session : Session]
Capture    == [pc : PC, zone : Zone, created : Nat, now : Nat, prev : Status,
               verdict : Verdict, status : Status, alerts : SUBSET Nat, clean : BOOLEAN]

(* Every variable keeps the type that the columns and messages of the code have. *)
TypeOK ==
  /\ clock \in Nat /\ incident \in {"active", "closed"}
  /\ zone \in [Zone -> ZoneRow]
  /\ lock \in [Zone -> Session \cup {NoSession}]
  /\ history \in Seq(Assessment)
  /\ alerts \in Seq(Alert)
  /\ cap \in [Session -> Capture]
  /\ pushed \in SUBSET Nat
  /\ frames \in Nat /\ crashes \in Nat

(* i is the last analysable assessment of zone z among the first n. *)
LastAnalysable(z, n, i) ==
  /\ i \in 1..n
  /\ history[i].zone = z /\ history[i].status # "unclassified"
  /\ \A j \in (i + 1)..n : history[j].zone = z => history[j].status = "unclassified"

(* A zone row always tells the same as the history: its status, its time and   *)
(* its current assessment are those of the last analysable assessment that was *)
(* committed, whichever session wrote it, and it is unclassified only before   *)
(* the first one.                                                              *)
StatusBackedByHistory ==
  \A z \in Zone :
    \/ /\ zone[z] = [status |-> "unclassified", at |-> Null, cur |-> Null]
       /\ \A i \in DOMAIN history : history[i].zone = z => history[i].status = "unclassified"
    \/ /\ LastAnalysable(z, Len(history), zone[z].cur)
       /\ zone[z].status = history[zone[z].cur].status
       /\ zone[z].at = history[zone[z].cur].at

(* Assessment i turned its zone severe for the readers: the status they were   *)
(* shown just before was another one, or had gone stale.                       *)
EntersSevere(i) ==
  /\ history[i].status \in Severe
  /\ \A j \in 1..(i - 1) :
       LastAnalysable(history[i].zone, i - 1, j) =>
         \/ history[j].status # history[i].status
         \/ history[i].at - history[j].at > StaleAfter

Alarmed(i) ==
  \E k \in DOMAIN alerts : alerts[k].assessment = i /\ alerts[k].type \in SevereAlert

(* Any transition into unsafe or blocked raises an alert, and nothing else     *)
(* does: no transition is missed and no frame repeats it, however the sessions *)
(* on the zone interleave.                                                     *)
SevereAlertedOnEntry == \A i \in DOMAIN history : EntersSevere(i) <=> Alarmed(i)

(* analysis_failed is raised at most once per interval and zone, also when two *)
(* sessions fail on it at once.                                                *)
FailureAlertsSpaced ==
  \A k, m \in DOMAIN alerts :
    /\ k < m /\ alerts[k].zone = alerts[m].zone
    /\ alerts[k].type = "analysis_failed" /\ alerts[m].type = "analysis_failed"
    => alerts[m].at - alerts[k].created > FailInterval

(* A session that ended has left a camera_lost alert if and only if nobody     *)
(* asked it to stop.                                                           *)
CameraLostIffUnclean ==
  \A s \in Session :
    cap[s].pc = "ended" =>
      (cap[s].clean <=> ~\E k \in DOMAIN alerts : /\ alerts[k].type = "camera_lost"
                                                 /\ alerts[k].session = s)

(* A stored alert that was never announced belongs to a handler that still has *)
(* to announce it, or to one that ended or died first.                         *)
AlertsAnnounced ==
  \A k \in DOMAIN alerts \ pushed :
    LET c == cap[alerts[k].session] IN
    \/ c.pc = "committed" /\ k \in c.alerts
    \/ c.pc \in {"finishing", "ended", "orphan"}

(* status_updated_at never goes back, although frames of two sessions may have *)
(* started in the opposite order.                                              *)
StatusTimeMonotone == [][\A z \in Zone : zone'[z].at >= zone[z].at]_vars

(* A frame whose analysis started is finished or given up, also when it has to *)
(* wait for the row that another session's frame holds.                        *)
FrameSettles ==
  \A s \in Session : cap[s].pc \in Busy ~> cap[s].pc \notin Busy

(***************************************************************************)
(* What the documents say and the code does not do                         *)
(***************************************************************************)
(* A result sent to the phone (and zone.updated) says "safe" only if the frame *)
(* was analysable or the zone is still shown as safe at that time.             *)
SafeNeedsCurrentAnalysis ==
  \A s \in Session :
    cap[s].pc = "committed" /\ cap[s].status = "safe" =>
      cap[s].verdict = "safe" \/ cap[s].prev = "safe"
=============================================================================
