------------------------- MODULE ZoneCaptureProofs -------------------------
(***************************************************************************)
(* Proofs about ZoneCapture for any number of zones, sessions, frames,     *)
(* crashes and ticks, and for any settings.                                *)
(***************************************************************************)
EXTENDS ZoneCapture, SequenceTheorems, TLAPS

(* What Append does, in the form the steps below need. *)
LEMMA AppendFacts ==
  ASSUME NEW S, NEW q \in Seq(S), NEW e \in S
  PROVE  /\ Append(q, e) \in Seq(S)
         /\ Len(Append(q, e)) = Len(q) + 1
         /\ Len(q) \in Nat
         /\ DOMAIN q = 1..Len(q)
         /\ DOMAIN Append(q, e) = 1..(Len(q) + 1)
         /\ Append(q, e)[Len(q) + 1] = e
         /\ \A i \in 1..Len(q) : Append(q, e)[i] = q[i]
  OBVIOUS

LEMMA StatusFacts ==
  /\ Verdict \subseteq Status /\ Analysable \subseteq Status
  /\ "unclassified" \in Status /\ "unclassified" \in Verdict
  BY StatusAssumption DEF Verdict, Status

LEMMA EffectiveType ==
  ASSUME NEW row \in ZoneRow, NEW t \in Nat
  PROVE  Effective(row, t) \in Status
  BY StatusFacts DEF Effective, ZoneRow

LEMMA IdleType ==
  ASSUME NEW z \in Zone, NEW pc \in PC, NEW clean \in BOOLEAN
  PROVE  /\ Idle(z) \in Capture
         /\ [Idle(z) EXCEPT !.pc = pc] \in Capture
         /\ [Idle(z) EXCEPT !.pc = pc, !.clean = clean] \in Capture
         /\ [Idle(z) EXCEPT !.pc = pc, !.clean = clean].pc = pc
         /\ [Idle(z) EXCEPT !.pc = pc, !.clean = clean].zone = z
         /\ Idle(z).pc = "waiting" /\ Idle(z).zone = z
  BY StatusFacts DEF Idle, Capture, PC, Running, Busy, Null

(* The records that the actions write into a session keep its type. *)
LEMMA CaptureUpdates ==
  ASSUME NEW c \in Capture
  PROVE  /\ \A pc \in PC : [c EXCEPT !.pc = pc] \in Capture
         /\ \A pc \in PC, t \in Nat : [c EXCEPT !.pc = pc, !.created = t] \in Capture
         /\ \A pc \in PC, k \in Nat : [c EXCEPT !.pc = pc, !.alerts = {k}] \in Capture
         /\ \A pc \in PC, t \in Nat, p \in Status, v \in Verdict, st \in Status :
              [c EXCEPT !.pc = pc, !.now = t, !.prev = p, !.verdict = v, !.status = st]
                \in Capture
         /\ c.zone \in Zone /\ c.created \in Nat /\ c.now \in Nat /\ c.clean \in BOOLEAN
         /\ c.prev \in Status /\ c.verdict \in Verdict /\ c.status \in Status
         /\ c.alerts \subseteq Nat /\ c.pc \in PC
  <1>1. \A pc \in PC : [c EXCEPT !.pc = pc] \in Capture
    BY DEF Capture
  <1>2. \A pc \in PC, t \in Nat : [c EXCEPT !.pc = pc, !.created = t] \in Capture
    BY DEF Capture
  <1>3. \A pc \in PC, k \in Nat : [c EXCEPT !.pc = pc, !.alerts = {k}] \in Capture
    BY DEF Capture
  <1>4. \A pc \in PC, t \in Nat, p \in Status, v \in Verdict, st \in Status :
          [c EXCEPT !.pc = pc, !.now = t, !.prev = p, !.verdict = v, !.status = st] \in Capture
    BY DEF Capture
  <1> QED
    BY <1>1, <1>2, <1>3, <1>4 DEF Capture

LEMMA PCFacts == {"waiting", "analysing", "locked", "committed", "off", "finishing",
                  "ended", "orphan"} \subseteq PC
  BY DEF PC, Running, Busy

LEMMA AlertOfType ==
  ASSUME NEW z, NEW verdict, NEW prev, NEW now
  PROVE  AlertOf(z, verdict, prev, now) \in AlertType \cup {"none"}
  BY DEF AlertOf, AlertType, SevereAlert

LEMMA InitType == Init => TypeOK
  <1> SUFFICES ASSUME Init PROVE TypeOK
    OBVIOUS
  <1>1. zone \in [Zone -> ZoneRow]
    BY DEF Init, ZoneRow, Status, Null
  <1>2. cap \in [Session -> Capture]
    <2>1. "off" \in PC
      BY DEF PC
    <2>2. \A z \in Zone : [Idle(z) EXCEPT !.pc = "off"] \in Capture
      BY <2>1, IdleType
    <2>3. {[Idle(z) EXCEPT !.pc = "off"] : z \in Zone} \subseteq Capture
      BY <2>2, Zenon
    <2>4. cap \in [Session -> {[Idle(z) EXCEPT !.pc = "off"] : z \in Zone}]
      BY DEF Init
    <2> HIDE DEF Capture
    <2> QED
      BY <2>3, <2>4, SMT
  <1>3. history \in Seq(Assessment) /\ alerts \in Seq(Alert)
    BY DEF Init
  <1> QED
    BY <1>1, <1>2, <1>3 DEF Init, TypeOK

LEMMA NextType == TypeOK /\ [Next]_vars => TypeOK'
  <1> SUFFICES ASSUME TypeOK, [Next]_vars PROVE TypeOK'
    OBVIOUS
  <1>0. /\ clock \in Nat /\ incident \in {"active", "closed"}
        /\ zone \in [Zone -> ZoneRow]
        /\ lock \in [Zone -> Session \cup {NoSession}]
        /\ history \in Seq(Assessment) /\ alerts \in Seq(Alert)
        /\ cap \in [Session -> Capture] /\ \A s \in Session : cap[s] \in Capture
        /\ pushed \in SUBSET Nat /\ frames \in Nat /\ crashes \in Nat
        /\ Len(history) \in Nat /\ Len(alerts) \in Nat
    BY LenProperties DEF TypeOK
  <1>1. CASE Tick
    BY <1>0, <1>1 DEF Tick, TypeOK, db
  <1>2. CASE Crash
    <2>1. \A s \in Session :
            [Idle(cap[s].zone) EXCEPT !.pc = "orphan", !.clean = cap[s].clean] \in Capture
      BY <1>0, IdleType, CaptureUpdates, PCFacts
    <2>2. cap' \in [Session -> Capture]
      BY <1>0, <1>2, <2>1 DEF Crash
    <2>3. lock' \in [Zone -> Session \cup {NoSession}]
      BY <1>2 DEF Crash
    <2>4. crashes' \in Nat
      <3>1. crashes \in Nat
        BY <1>0
      <3>2. crashes' = crashes + 1
        BY <1>2 DEF Crash
      <3> QED
        BY <3>1, <3>2
    <2> QED
      BY <1>0, <1>2, <2>2, <2>3, <2>4 DEF Crash, TypeOK
  <1>3. CASE CloseIncident
    BY <1>0, <1>3 DEF CloseIncident, TypeOK, db
  <1>4. ASSUME NEW s \in Session, StartCapture(s) PROVE TypeOK'
    <2>1. cap' = [cap EXCEPT ![s] = [cap[s] EXCEPT !.pc = "waiting"]]
      BY <1>0, <1>4 DEF StartCapture
    <2>2. cap' \in [Session -> Capture]
      BY <1>0, <2>1, CaptureUpdates, PCFacts
    <2> QED
      BY <1>0, <1>4, <2>2 DEF StartCapture, TypeOK, db
  <1>5. ASSUME NEW s \in Session, NEW clean \in BOOLEAN, EndStream(s, clean) PROVE TypeOK'
    <2>1. [Idle(cap[s].zone) EXCEPT !.pc = "finishing", !.clean = clean] \in Capture
      BY <1>0, IdleType, CaptureUpdates, PCFacts
    <2>2. cap' \in [Session -> Capture]
      BY <1>0, <1>5, <2>1 DEF EndStream
    <2>3. lock' \in [Zone -> Session \cup {NoSession}]
      BY <1>0, <1>5 DEF EndStream, Unlocked
    <2> QED
      BY <1>0, <1>5, <2>2, <2>3 DEF EndStream, TypeOK
  <1>6. ASSUME NEW s \in Session, FinishCapture(s) PROVE TypeOK'
    <2>1. cap' = [cap EXCEPT ![s] = [cap[s] EXCEPT !.pc = "ended"]]
      BY <1>0, <1>6 DEF FinishCapture
    <2>2. cap' \in [Session -> Capture]
      BY <1>0, <2>1, CaptureUpdates, PCFacts
    <2> DEFINE lost == [zone |-> cap[s].zone, type |-> "camera_lost", created |-> clock,
                        at |-> clock, assessment |-> Null, session |-> s]
    <2>3. lost \in Alert
      BY <1>0, CaptureUpdates DEF Alert, AlertType, Null
    <2>4. alerts' \in Seq(Alert) /\ pushed' \in SUBSET Nat
      <3>1. CASE CameraLost(s)
        <4>1. alerts' = Append(alerts, lost) /\ pushed' = pushed \cup {Len(alerts) + 1}
          BY <1>6, <3>1 DEF FinishCapture
        <4>2. Len(alerts) + 1 \in Nat
          BY <1>0
        <4>3. alerts' \in Seq(Alert)
          <5> HIDE DEF lost
          <5> QED
            BY <1>0, <4>1, <2>3, AppendFacts
        <4> QED
          BY <1>0, <4>1, <4>2, <4>3
      <3>2. CASE ~CameraLost(s)
        BY <1>0, <1>6, <3>2 DEF FinishCapture
      <3> QED
        BY <3>1, <3>2
    <2> QED
      BY <1>0, <1>6, <2>2, <2>4 DEF FinishCapture, TypeOK
  <1>7. ASSUME NEW s \in Session, TakeFrame(s) PROVE TypeOK'
    <2>1. cap' = [cap EXCEPT ![s] = [cap[s] EXCEPT !.pc = "analysing", !.created = clock]]
      BY <1>0, <1>7 DEF TakeFrame
    <2>2. cap' \in [Session -> Capture]
      BY <1>0, <2>1, CaptureUpdates, PCFacts
    <2> QED
      BY <1>0, <1>7, <2>2 DEF TakeFrame, TypeOK, db
  <1>8. ASSUME NEW s \in Session, RejectFrame(s) PROVE TypeOK'
    <2>1. cap' \in [Session -> Capture]
      BY <1>0, <1>8, IdleType, CaptureUpdates DEF RejectFrame
    <2> QED
      BY <1>0, <1>8, <2>1 DEF RejectFrame, TypeOK, db
  <1>9. ASSUME NEW s \in Session, NEW v \in Verdict, LockZone(s, v) PROVE TypeOK'
    <2> DEFINE z  == cap[s].zone
               st == IF v = "unclassified" THEN zone[z].status ELSE v
    <2>1. z \in Zone /\ zone[z] \in ZoneRow
      BY <1>0, CaptureUpdates
    <2>2. Effective(zone[z], clock) \in Status /\ st \in Status
      BY <1>0, <2>1, EffectiveType, StatusFacts DEF ZoneRow
    <2>3. cap' = [cap EXCEPT ![s] = [cap[s] EXCEPT !.pc = "locked", !.now = clock,
                     !.prev = Effective(zone[z], clock), !.verdict = v, !.status = st]]
      BY <1>0, <1>9 DEF LockZone
    <2> HIDE DEF st
    <2>4. cap' \in [Session -> Capture]
      BY <1>0, <2>2, <2>3, CaptureUpdates, PCFacts
    <2> QED
      BY <1>0, <1>9, <2>1, <2>4 DEF LockZone, TypeOK
  <1>10. ASSUME NEW s \in Session, CommitFrame(s) PROVE TypeOK'
    <2> DEFINE c    == cap[s]
               id   == Len(history) + 1
               type == AlertOf(c.zone, c.verdict, c.prev, c.now)
               rec  == [zone |-> c.zone, status |-> c.verdict, created |-> c.created, at |-> c.now]
               al   == [zone |-> c.zone, type |-> type, created |-> c.created, at |-> clock,
                        assessment |-> id, session |-> s]
    <2>0. id \in Nat
      BY <1>0
    <2>1. /\ c \in Capture
          /\ c.zone \in Zone /\ c.created \in Nat /\ c.now \in Nat /\ c.verdict \in Verdict
      BY <1>0, CaptureUpdates
    <2>2. rec \in Assessment /\ history' = Append(history, rec)
      BY <1>10, <2>1 DEF CommitFrame, Assessment
    <2>3. history' \in Seq(Assessment)
      BY <1>0, <2>2, AppendFacts
    <2>4. zone' \in [Zone -> ZoneRow]
      BY <1>0, <1>10, <2>1, StatusFacts DEF CommitFrame, ZoneAfter, ZoneRow
    <2>5. alerts' \in Seq(Alert) /\ cap' \in [Session -> Capture]
      <3>1. CASE type = "none"
        <4>1. cap' = [cap EXCEPT ![s] = [c EXCEPT !.pc = "committed"]] /\ alerts' = alerts
          BY <1>0, <1>10, <3>1 DEF CommitFrame
        <4> QED
          BY <1>0, <4>1, CaptureUpdates, PCFacts
      <3>2. CASE type # "none"
        <4>1. type \in AlertType
          BY <3>2, AlertOfType
        <4>2. al \in Alert
          <5> HIDE DEF type, id
          <5> QED
            BY <1>0, <4>1, <2>0, <2>1 DEF Alert
        <4>3. /\ alerts' = Append(alerts, al)
              /\ cap' = [cap EXCEPT ![s] = [c EXCEPT !.pc = "committed",
                                                     !.alerts = {Len(alerts) + 1}]]
          BY <1>0, <1>10, <3>2 DEF CommitFrame
        <4>4. alerts' \in Seq(Alert) /\ Len(alerts) + 1 \in Nat
          <5> HIDE DEF al
          <5> QED
            BY <1>0, <4>2, <4>3, AppendFacts
        <4>5. cap' \in [Session -> Capture]
          BY <1>0, <4>3, <4>4, CaptureUpdates, PCFacts
        <4> QED
          BY <4>4, <4>5
      <3> QED
        BY <3>1, <3>2
    <2>6. lock' \in [Zone -> Session \cup {NoSession}]
      BY <1>0, <1>10, <2>1 DEF CommitFrame
    <2> QED
      BY <1>0, <1>10, <2>3, <2>4, <2>5, <2>6 DEF CommitFrame, TypeOK
  <1>11. ASSUME NEW s \in Session, PublishFrame(s) PROVE TypeOK'
    <2>1. cap' \in [Session -> Capture] /\ cap[s].alerts \subseteq Nat
      BY <1>0, <1>11, IdleType, CaptureUpdates DEF PublishFrame
    <2> QED
      BY <1>0, <1>11, <2>1 DEF PublishFrame, TypeOK, db
  <1>12. CASE UNCHANGED vars
    BY <1>0, <1>12 DEF vars, TypeOK
  <1> QED
    BY <1>1, <1>2, <1>3, <1>4, <1>5, <1>6, <1>7, <1>8, <1>9, <1>10, <1>11, <1>12
    DEF Next, Frame, StopCapture, DropCapture

(* Every variable keeps its type in every behaviour of the pipeline. *)
THEOREM TypeCorrect == Spec => []TypeOK
  BY InitType, NextType, PTL DEF Spec

(***************************************************************************)
(* The inductive invariant.  The zone row, the history and the alerts only *)
(* change together in CommitFrame, from what LockZone read: the invariant  *)
(* has to say that the row lock keeps that reading true until the commit.  *)
(***************************************************************************)
TimesOK ==
  /\ clock >= 1
  /\ \A z \in Zone : zone[z].at <= clock
  /\ \A i \in 1..Len(history) : history[i].at >= 1

(* What a handler read under the row lock still holds. *)
ReadingHolds(s) ==
  /\ lock[cap[s].zone] = s
  /\ cap[s].prev = Effective(zone[cap[s].zone], cap[s].now)
  /\ cap[s].now >= 1 /\ cap[s].now <= clock
  /\ zone[cap[s].zone].at <= cap[s].now

LockedOK == \A s \in Session : cap[s].pc = "locked" => ReadingHolds(s)

AlertIdsOK == \A k \in 1..Len(alerts) : alerts[k].assessment <= Len(history)

IInv ==
  /\ TypeOK
  /\ TimesOK
  /\ LockedOK
  /\ AlertIdsOK
  /\ StatusBackedByHistory
  /\ SevereAlertedOnEntry

(* The parts of TypeOK that the steps below use. *)
LEMMA TypeParts ==
  ASSUME TypeOK
  PROVE  /\ clock \in Nat
         /\ zone \in [Zone -> ZoneRow]
         /\ \A z \in Zone : zone[z] \in ZoneRow /\ zone[z].at \in Nat /\ zone[z].cur \in Nat
                            /\ zone[z].status \in Status
         /\ history \in Seq(Assessment) /\ alerts \in Seq(Alert)
         /\ Len(history) \in Nat /\ Len(alerts) \in Nat
         /\ DOMAIN history = 1..Len(history) /\ DOMAIN alerts = 1..Len(alerts)
         /\ \A i \in 1..Len(history) : history[i] \in Assessment
         /\ \A k \in 1..Len(alerts) : alerts[k] \in Alert
         /\ cap \in [Session -> Capture]
         /\ \A s \in Session : /\ cap[s] \in Capture /\ cap[s].zone \in Zone
                               /\ cap[s].now \in Nat /\ cap[s].created \in Nat
                               /\ cap[s].verdict \in Verdict /\ cap[s].prev \in Status
         /\ lock \in [Zone -> Session \cup {NoSession}]
  <1>1. history \in Seq(Assessment) /\ alerts \in Seq(Alert)
    BY DEF TypeOK
  <1>2. /\ Len(history) \in Nat /\ Len(alerts) \in Nat
        /\ DOMAIN history = 1..Len(history) /\ DOMAIN alerts = 1..Len(alerts)
        /\ \A i \in 1..Len(history) : history[i] \in Assessment
        /\ \A k \in 1..Len(alerts) : alerts[k] \in Alert
    BY <1>1, LenProperties, ElementOfSeq
  <1>3. \A z \in Zone : zone[z] \in ZoneRow
    BY DEF TypeOK
  <1>4. \A z \in Zone : zone[z].at \in Nat /\ zone[z].cur \in Nat /\ zone[z].status \in Status
    BY <1>3 DEF ZoneRow
  <1>5. \A s \in Session : cap[s] \in Capture
    BY DEF TypeOK
  <1> QED
    BY <1>1, <1>2, <1>3, <1>4, <1>5, CaptureUpdates DEF TypeOK

(* A step that leaves the rows and the history alone keeps what relates them. *)
LEMMA KeepsHistory ==
  ASSUME StatusBackedByHistory, UNCHANGED <<zone, history>>
  PROVE  StatusBackedByHistory'
  BY DEF StatusBackedByHistory, LastAnalysable

LEMMA KeepsAlerts ==
  ASSUME SevereAlertedOnEntry, UNCHANGED <<history, alerts>>
  PROVE  SevereAlertedOnEntry'
  BY DEF SevereAlertedOnEntry, EntersSevere, LastAnalysable, Alarmed

(* An appended alert can only add its own assessment to those that are alarmed. *)
LEMMA AlertAppended ==
  ASSUME TypeOK, NEW a \in Alert, alerts' = Append(alerts, a), NEW i
  PROVE  /\ Alarmed(i)' <=> Alarmed(i) \/ (a.assessment = i /\ a.type \in SevereAlert)
         /\ Len(alerts') = Len(alerts) + 1 /\ Len(alerts) \in Nat
         /\ alerts'[Len(alerts) + 1] = a
         /\ \A k \in 1..Len(alerts) : alerts'[k] = alerts[k]
  <1>0. alerts \in Seq(Alert)
    BY DEF TypeOK
  <1>1. /\ Len(alerts) \in Nat /\ DOMAIN alerts = 1..Len(alerts)
        /\ Len(alerts') = Len(alerts) + 1
        /\ DOMAIN alerts' = 1..(Len(alerts) + 1)
        /\ alerts'[Len(alerts) + 1] = a
        /\ \A k \in 1..Len(alerts) : alerts'[k] = alerts[k]
    BY <1>0, AppendFacts
  <1>2. ASSUME Alarmed(i)' PROVE Alarmed(i) \/ (a.assessment = i /\ a.type \in SevereAlert)
    <2>1. PICK k \in 1..(Len(alerts) + 1) : alerts'[k].assessment = i
                                          /\ alerts'[k].type \in SevereAlert
      BY <1>1, <1>2 DEF Alarmed
    <2>2. CASE k = Len(alerts) + 1
      BY <1>1, <2>1, <2>2
    <2>3. CASE k \in 1..Len(alerts)
      BY <1>1, <2>1, <2>3 DEF Alarmed
    <2> QED
      BY <1>1, <2>1, <2>2, <2>3
  <1>3. ASSUME Alarmed(i) PROVE Alarmed(i)'
    <2>1. PICK k \in 1..Len(alerts) : alerts[k].assessment = i /\ alerts[k].type \in SevereAlert
      BY <1>1, <1>3 DEF Alarmed
    <2>2. k \in DOMAIN alerts' /\ alerts'[k] = alerts[k]
      BY <1>1, <2>1
    <2> QED
      BY <2>1, <2>2 DEF Alarmed
  <1>4. ASSUME a.assessment = i, a.type \in SevereAlert PROVE Alarmed(i)'
    <2>1. Len(alerts) + 1 \in DOMAIN alerts'
      BY <1>1
    <2> QED
      BY <1>1, <1>4, <2>1 DEF Alarmed
  <1> QED
    BY <1>1, <1>2, <1>3, <1>4

LEMMA InitIInv == Init => IInv
  <1> SUFFICES ASSUME Init PROVE IInv
    OBVIOUS
  <1>1. TypeOK
    BY InitType
  <1>2. /\ clock = 1 /\ history = <<>> /\ alerts = <<>>
        /\ Len(history) = 0 /\ Len(alerts) = 0
        /\ DOMAIN history = {} /\ DOMAIN alerts = {}
        /\ \A z \in Zone : zone[z] = [status |-> "unclassified", at |-> Null, cur |-> Null]
    BY DEF Init
  <1>3. \A s \in Session : cap[s].pc = "off"
    <2> TAKE s \in Session
    <2>1. PICK z \in Zone : cap[s] = [Idle(z) EXCEPT !.pc = "off"]
      BY DEF Init
    <2> QED
      BY <2>1 DEF Idle
  <1>4. TimesOK /\ AlertIdsOK
    BY <1>2 DEF TimesOK, AlertIdsOK, Null
  <1>5. LockedOK
    BY <1>3 DEF LockedOK
  <1>6. StatusBackedByHistory /\ SevereAlertedOnEntry
    BY <1>2 DEF StatusBackedByHistory, SevereAlertedOnEntry
  <1> QED
    BY <1>1, <1>4, <1>5, <1>6 DEF IInv

(* Any step but a commit, of which it is only known what it does to the parts of *)
(* the state that the invariant relates.                                         *)
LEMMA QuietStep ==
  ASSUME IInv, TypeOK',
         UNCHANGED <<zone, history>>,
         clock' \in Nat, clock' >= clock,
         \A s \in Session :
           cap'[s].pc = "locked" =>
             \/ cap'[s] = cap[s] /\ lock'[cap[s].zone] = lock[cap[s].zone]
             \/ ReadingHolds(s)',
         \/ UNCHANGED alerts
         \/ \E a \in Alert : /\ a.type = "camera_lost" /\ a.assessment = Null
                            /\ alerts' = Append(alerts, a)
  PROVE  IInv'
  <1>1. TimesOK'
    BY TypeParts DEF IInv, TimesOK
  <1>2. LockedOK'
    <2> SUFFICES ASSUME NEW s \in Session, (cap[s].pc = "locked")' PROVE ReadingHolds(s)'
      BY DEF LockedOK
    <2>1. CASE cap'[s] = cap[s] /\ lock'[cap[s].zone] = lock[cap[s].zone]
      <3>1. ReadingHolds(s)
        BY <2>1 DEF IInv, LockedOK
      <3>2. cap[s].now \in Nat /\ clock \in Nat
        BY TypeParts DEF IInv
      <3> QED
        BY <2>1, <3>1, <3>2 DEF ReadingHolds, Effective
    <2> QED
      BY <2>1
  <1>3. StatusBackedByHistory'
    BY KeepsHistory DEF IInv
  <1>4. AlertIdsOK' /\ SevereAlertedOnEntry'
    <2>1. CASE UNCHANGED alerts
      BY <2>1, KeepsAlerts DEF IInv, AlertIdsOK
    <2>2. CASE \E a \in Alert : /\ a.type = "camera_lost" /\ a.assessment = Null
                              /\ alerts' = Append(alerts, a)
      <3>1. PICK a \in Alert : /\ a.type = "camera_lost" /\ a.assessment = Null
                              /\ alerts' = Append(alerts, a)
        BY <2>2
      <3>2. /\ Len(alerts) \in Nat /\ Len(alerts') = Len(alerts) + 1
            /\ alerts'[Len(alerts) + 1] = a
            /\ \A k \in 1..Len(alerts) : alerts'[k] = alerts[k]
            /\ \A i : Alarmed(i)' <=> Alarmed(i)
        BY <3>1, AlertAppended DEF IInv, SevereAlert
      <3>3. AlertIdsOK'
        <4> SUFFICES ASSUME NEW k \in 1..(Len(alerts) + 1)
                     PROVE  alerts'[k].assessment <= Len(history)
          BY <3>2 DEF AlertIdsOK
        <4>1. Len(history) \in Nat
          BY TypeParts DEF IInv
        <4>2. CASE k = Len(alerts) + 1
          BY <3>1, <3>2, <4>1, <4>2 DEF Null
        <4>3. CASE k \in 1..Len(alerts)
          BY <3>2, <4>3 DEF IInv, AlertIdsOK
        <4> QED
          BY <3>2, <4>2, <4>3
      <3>4. \A i : EntersSevere(i)' <=> EntersSevere(i)
        BY DEF EntersSevere, LastAnalysable
      <3>5. SevereAlertedOnEntry'
        BY <3>2, <3>4 DEF IInv, SevereAlertedOnEntry
      <3> QED
        BY <3>3, <3>5
    <2> QED
      BY <2>1, <2>2
  <1> QED
    BY <1>1, <1>2, <1>3, <1>4 DEF IInv

(* The decision of a commit, in terms of what was read under the lock. *)
LEMMA AlertDecision ==
  ASSUME NEW z, NEW verdict, NEW prev, NEW now
  PROVE  AlertOf(z, verdict, prev, now) \in SevereAlert <=> verdict \in Severe /\ verdict # prev
  BY DEF AlertOf, SevereAlert, Severe

(* The commit of a frame: the new assessment is judged by the zone row, which the *)
(* history backs, and older assessments are judged as before.                     *)
LEMMA CommitStep ==
  ASSUME IInv, TypeOK', NEW s \in Session, CommitFrame(s),
         NEW c, c = cap[s], NEW n, n = Len(history),
         NEW type, type = AlertOf(c.zone, c.verdict, c.prev, c.now),
         NEW time, time = clock
  PROVE  IInv'
  <1> DEFINE rec  == [zone |-> c.zone, status |-> c.verdict, created |-> c.created, at |-> c.now]
             al   == [zone |-> c.zone, type |-> type, created |-> c.created, at |-> time,
                      assessment |-> n + 1, session |-> s]
  <1>1. /\ c.zone \in Zone /\ c.now \in Nat /\ c.verdict \in Verdict /\ c.created \in Nat
        /\ n \in Nat /\ clock \in Nat /\ history \in Seq(Assessment)
        /\ DOMAIN history = 1..n /\ zone \in [Zone -> ZoneRow]
        /\ \A z \in Zone : zone[z].at \in Nat /\ zone[z].cur \in Nat
        /\ \A i \in 1..n : history[i] \in Assessment
        /\ cap \in [Session -> Capture] /\ c \in Capture
    BY TypeParts DEF IInv
  <1>2. ReadingHolds(s)
    BY DEF IInv, LockedOK, CommitFrame
  <1>3. rec \in Assessment /\ history' = Append(history, rec)
    BY <1>1 DEF CommitFrame, Assessment
  <1>4. /\ Len(history') = n + 1 /\ DOMAIN history' = 1..(n + 1)
        /\ history'[n + 1] = rec
        /\ \A i \in 1..n : history'[i] = history[i]
    <2> HIDE DEF rec
    <2> QED
      BY <1>1, <1>3, AppendFacts
  <1>5. clock' = clock /\ zone' = ZoneAfter(c, n + 1) /\ lock' = [lock EXCEPT ![c.zone] = NoSession]
    BY DEF CommitFrame
  <1>6. \A z \in Zone : zone'[z] = IF z = c.zone /\ c.verdict # "unclassified"
                                 THEN [status |-> c.verdict, at |-> c.now, cur |-> n + 1]
                                 ELSE zone[z]
    BY <1>1, <1>5 DEF ZoneAfter
  <1>7. TimesOK'
    <2>1. \A z \in Zone : zone'[z].at <= clock'
      BY <1>1, <1>2, <1>5, <1>6 DEF IInv, TimesOK, ReadingHolds
    <2>2. \A i \in 1..(n + 1) : history'[i].at >= 1
      <3> TAKE i \in 1..(n + 1)
      <3>1. CASE i = n + 1
        BY <1>2, <1>4, <3>1 DEF ReadingHolds
      <3>2. CASE i \in 1..n
        BY <1>4, <3>2 DEF IInv, TimesOK
      <3> QED
        BY <1>1, <3>1, <3>2
    <2> QED
      BY <1>4, <1>5, <2>1, <2>2 DEF IInv, TimesOK
  <1>8. LockedOK'
    <2> SUFFICES ASSUME NEW t \in Session, (cap[t].pc = "locked")' PROVE ReadingHolds(t)'
      BY DEF LockedOK
    <2>0. \E d : d.pc = "committed" /\ cap' = [cap EXCEPT ![s] = d]
      <3>1. CASE type = "none"
        <4>1. cap' = [cap EXCEPT ![s].pc = "committed"]
          BY <3>1 DEF CommitFrame
        <4> WITNESS [cap[s] EXCEPT !.pc = "committed"]
        <4> QED
          BY <1>1, <4>1 DEF Capture
      <3>2. CASE type # "none"
        <4>1. cap' = [cap EXCEPT ![s].pc = "committed", ![s].alerts = {Len(alerts) + 1}]
          BY <3>2 DEF CommitFrame
        <4> WITNESS [cap[s] EXCEPT !.pc = "committed", !.alerts = {Len(alerts) + 1}]
        <4> QED
          BY <1>1, <4>1 DEF Capture
      <3> QED
        BY <3>1, <3>2
    <2>1. t # s /\ cap'[t] = cap[t]
      BY <1>1, <2>0
    <2>2. ReadingHolds(t) /\ cap[t].zone \in Zone
      BY <2>1, TypeParts DEF IInv, LockedOK
    <2>3. cap[t].zone # c.zone
      BY <1>2, <2>1, <2>2 DEF ReadingHolds
    <2>4. zone'[cap[t].zone] = zone[cap[t].zone] /\ lock'[cap[t].zone] = lock[cap[t].zone]
      BY <1>5, <1>6, <2>2, <2>3, TypeParts DEF IInv
    <2> QED
      BY <1>5, <2>1, <2>2, <2>4 DEF ReadingHolds, Effective
  <1>9. \A z, m, j : m \in 0..n => (LastAnalysable(z, m, j)' <=> LastAnalysable(z, m, j))
    <2> TAKE z, m, j
    <2> HAVE m \in 0..n
    <2>1. \A i \in 1..m : history'[i] = history[i]
      BY <1>1, <1>4
    <2>2. CASE j \in 1..m
      <3>1. \A i \in (j + 1)..m : i \in 1..m
        BY <1>1, <2>2
      <3> QED
        BY <2>1, <2>2, <3>1 DEF LastAnalysable
    <2> QED
      BY <2>2 DEF LastAnalysable
  <1>10. StatusBackedByHistory'
    <2> SUFFICES ASSUME NEW z \in Zone
                 PROVE  \/ /\ zone'[z] = [status |-> "unclassified", at |-> Null, cur |-> Null]
                           /\ \A i \in 1..(n + 1) : history'[i].zone = z
                                                   => history'[i].status = "unclassified"
                        \/ /\ LastAnalysable(z, n + 1, zone[z].cur)'
                           /\ zone'[z].status = history'[zone'[z].cur].status
                           /\ zone'[z].at = history'[zone'[z].cur].at
      BY <1>4 DEF StatusBackedByHistory
    <2>1. CASE z = c.zone /\ c.verdict # "unclassified"
      <3>1. zone'[z] = [status |-> c.verdict, at |-> c.now, cur |-> n + 1]
        BY <1>6, <2>1
      <3>2. LastAnalysable(z, n + 1, n + 1)'
        <4>1. n + 1 \in 1..(n + 1) /\ \A j : j \notin (n + 1 + 1)..(n + 1)
          BY <1>1
        <4>2. history'[n + 1].zone = z /\ history'[n + 1].status # "unclassified"
          BY <1>4, <2>1
        <4> HIDE DEF rec
        <4> QED
          BY <4>1, <4>2 DEF LastAnalysable
      <3> QED
        BY <1>4, <3>1, <3>2
    <2>2. CASE ~(z = c.zone /\ c.verdict # "unclassified")
      <3>0. zone'[z] = zone[z]
        BY <1>6, <2>2
      <3>1. history'[n + 1].zone = z => history'[n + 1].status = "unclassified"
        BY <1>4, <2>2
      <3>2. CASE /\ zone[z] = [status |-> "unclassified", at |-> Null, cur |-> Null]
                 /\ \A i \in DOMAIN history : history[i].zone = z
                                            => history[i].status = "unclassified"
        BY <1>1, <1>4, <3>0, <3>1, <3>2
      <3>3. CASE /\ LastAnalysable(z, n, zone[z].cur)
                 /\ zone[z].status = history[zone[z].cur].status
                 /\ zone[z].at = history[zone[z].cur].at
        <4>1. zone[z].cur \in 1..n
          BY <3>3 DEF LastAnalysable
        <4>2. LastAnalysable(z, n + 1, zone[z].cur)'
          BY <1>1, <1>4, <3>0, <3>1, <3>3, <4>1 DEF LastAnalysable
        <4> QED
          BY <1>4, <3>0, <3>3, <4>1, <4>2
      <3> QED
        BY <3>2, <3>3 DEF IInv, StatusBackedByHistory
    <2> QED
      BY <2>1, <2>2
  <1>11. EntersSevere(n + 1)' <=> c.verdict \in Severe /\ c.verdict # c.prev
    <2>0. PICK z \in Zone : z = c.zone
      BY <1>1
    <2>1. EntersSevere(n + 1)' <=>
            /\ c.verdict \in Severe
            /\ \A j \in 1..n : LastAnalysable(z, n, j) =>
                 history[j].status # c.verdict \/ c.now - history[j].at > StaleAfter
      <3>1. (n + 1) - 1 = n /\ n \in 0..n
        BY <1>1
      <3>2. /\ history'[n + 1].status = c.verdict /\ history'[n + 1].zone = z
            /\ history'[n + 1].at = c.now
        BY <1>4, <2>0
      <3>3. EntersSevere(n + 1)' <=>
              /\ c.verdict \in Severe
              /\ \A j \in 1..n : LastAnalysable(z, n, j)' =>
                   history'[j].status # c.verdict \/ c.now - history'[j].at > StaleAfter
        <4> HIDE DEF rec
        <4> QED
          BY <3>1, <3>2 DEF EntersSevere
      <3>4. \A j \in 1..n : (LastAnalysable(z, n, j)' <=> LastAnalysable(z, n, j))
                           /\ history'[j] = history[j]
        BY <1>4, <1>9, <3>1
      <3> QED
        BY <3>3, <3>4
    <2>2. c.prev = Effective(zone[z], c.now)
      BY <1>2, <2>0 DEF ReadingHolds
    <2>3. CASE /\ zone[z] = [status |-> "unclassified", at |-> Null, cur |-> Null]
               /\ \A i \in DOMAIN history : history[i].zone = z
                                          => history[i].status = "unclassified"
      <3>1. \A j \in 1..n : ~LastAnalysable(z, n, j)
        BY <1>1, <2>3 DEF LastAnalysable
      <3>2. EntersSevere(n + 1)' <=> c.verdict \in Severe
        BY <2>1, <3>1
      <3>3. c.prev = "unclassified"
        BY <2>2, <2>3 DEF Effective, Null
      <3> QED
        BY <3>2, <3>3 DEF Severe
    <2>4. CASE /\ LastAnalysable(z, n, zone[z].cur)
               /\ zone[z].status = history[zone[z].cur].status
               /\ zone[z].at = history[zone[z].cur].at
      <3> DEFINE k == zone[z].cur
      <3>1. k \in 1..n /\ history[k].at >= 1
        BY <2>4 DEF LastAnalysable, IInv, TimesOK
      <3>2. \A j \in 1..n : LastAnalysable(z, n, j) <=> j = k
        <4> TAKE j \in 1..n
        <4>1. CASE j = k
          BY <2>4, <4>1
        <4>2. CASE j < k
          <5>1. k \in (j + 1)..n
            BY <1>1, <3>1, <4>2
          <5> QED
            BY <2>4, <4>2, <5>1 DEF LastAnalysable
        <4>3. CASE j > k
          <5>1. j \in (k + 1)..n
            BY <1>1, <3>1, <4>3
          <5> QED
            BY <2>4, <4>3, <5>1 DEF LastAnalysable
        <4> QED
          BY <1>1, <3>1, <4>1, <4>2, <4>3
      <3>3. EntersSevere(n + 1)' <=>
              /\ c.verdict \in Severe
              /\ zone[z].status # c.verdict \/ c.now - zone[z].at > StaleAfter
        BY <2>1, <2>4, <3>1, <3>2
      <3>4. zone[z].at \in Nat /\ zone[z].at # Null
        BY <1>1, <2>4, <3>1 DEF Null
      <3>5. c.prev = IF c.now - zone[z].at <= StaleAfter THEN zone[z].status ELSE "unclassified"
        BY <2>2, <3>4 DEF Effective
      <3> QED
        BY <1>1, <3>3, <3>4, <3>5, SettingsAssumption DEF Severe
    <2> QED
      BY <1>1, <2>3, <2>4 DEF IInv, StatusBackedByHistory
  <1>12. \A i \in 1..n : EntersSevere(i)' <=> EntersSevere(i)
    <2> TAKE i \in 1..n
    <2>1. i - 1 \in 0..n /\ \A j \in 1..(i - 1) : j \in 1..n
      BY <1>1
    <2>2. history'[i] = history[i] /\ \A j \in 1..(i - 1) : history'[j] = history[j]
      BY <1>4, <2>1
    <2>3. \A j : LastAnalysable(history[i].zone, i - 1, j)'
                  <=> LastAnalysable(history[i].zone, i - 1, j)
      BY <1>4, <2>1, <2>2 DEF LastAnalysable
    <2> QED
      BY <2>2, <2>3 DEF EntersSevere
  <1>13. ~Alarmed(n + 1)
    BY <1>1, TypeParts DEF Alarmed, IInv, AlertIdsOK
  <1>14. /\ Alarmed(n + 1)' <=> type \in SevereAlert
         /\ \A i \in 1..n : Alarmed(i)' <=> Alarmed(i)
         /\ AlertIdsOK'
    <2>1. CASE type = "none"
      <3>1. alerts' = alerts /\ type \notin SevereAlert
        BY <2>1 DEF CommitFrame, SevereAlert
      <3>2. \A i : Alarmed(i)' <=> Alarmed(i)
        BY <3>1 DEF Alarmed
      <3>3. AlertIdsOK'
        <4> SUFFICES ASSUME NEW k \in 1..Len(alerts) PROVE alerts[k].assessment <= n + 1
          BY <1>4, <3>1 DEF AlertIdsOK
        <4>1. alerts[k].assessment \in Nat /\ alerts[k].assessment <= n
          BY TypeParts DEF IInv, AlertIdsOK, Alert
        <4> QED
          BY <1>1, <4>1
      <3> QED
        BY <1>13, <3>1, <3>2, <3>3
    <2>2. CASE type # "none"
      <3>1. type \in AlertType
        BY <2>2, AlertOfType
      <3>2. al \in Alert /\ alerts' = Append(alerts, al)
        <4>1. alerts' = Append(alerts, al)
          BY <2>2 DEF CommitFrame
        <4> QED
          BY <1>1, <3>1, <4>1 DEF Alert
      <3>3. al.assessment = n + 1 /\ al.type = type
        OBVIOUS
      <3> HIDE DEF al
      <3>4. /\ \A i : Alarmed(i)' <=> Alarmed(i) \/ (al.assessment = i /\ al.type \in SevereAlert)
            /\ Len(alerts') = Len(alerts) + 1 /\ Len(alerts) \in Nat
            /\ alerts'[Len(alerts) + 1] = al
            /\ \A k \in 1..Len(alerts) : alerts'[k] = alerts[k]
        BY <3>2, AlertAppended DEF IInv
      <3>5. AlertIdsOK'
        <4> SUFFICES ASSUME NEW k \in 1..(Len(alerts) + 1)
                     PROVE  alerts'[k].assessment <= n + 1
          BY <1>4, <3>4 DEF AlertIdsOK
        <4>1. CASE k = Len(alerts) + 1
          BY <1>1, <3>3, <3>4, <4>1
        <4>2. CASE k \in 1..Len(alerts)
          <5>1. alerts[k].assessment \in Nat /\ alerts[k].assessment <= n
            BY <4>2, TypeParts DEF IInv, AlertIdsOK, Alert
          <5> QED
            BY <1>1, <3>4, <4>2, <5>1
        <4> QED
          BY <3>4, <4>1, <4>2
      <3>6. \A i \in 1..n : i # n + 1
        BY <1>1
      <3> QED
        BY <1>13, <3>3, <3>4, <3>5, <3>6
    <2> QED
      BY <2>1, <2>2
  <1>15. SevereAlertedOnEntry'
    <2> SUFFICES ASSUME NEW i \in 1..(n + 1) PROVE EntersSevere(i)' <=> Alarmed(i)'
      BY <1>4 DEF SevereAlertedOnEntry
    <2>1. CASE i = n + 1
      BY <1>11, <1>14, <2>1, AlertDecision
    <2>2. CASE i \in 1..n
      BY <1>1, <1>12, <1>14, <2>2 DEF IInv, SevereAlertedOnEntry
    <2> QED
      BY <1>1, <2>1, <2>2
  <1> QED
    BY <1>7, <1>8, <1>10, <1>14, <1>15 DEF IInv

LEMMA NextIInv == IInv /\ [Next]_vars => IInv'
  <1> SUFFICES ASSUME IInv, [Next]_vars PROVE IInv'
    OBVIOUS
  <1>0. /\ TypeOK' /\ clock \in Nat /\ clock >= 1 /\ cap \in [Session -> Capture]
        /\ lock \in [Zone -> Session \cup {NoSession}]
        /\ \A t \in Session : cap[t].zone \in Zone /\ cap[t].clean \in BOOLEAN
                              /\ cap[t] \in Capture
    BY NextType, TypeParts, CaptureUpdates DEF IInv, TimesOK
  <1>1. CASE Tick
    <2>1. clock' \in Nat /\ clock' >= clock
      BY <1>0, <1>1 DEF Tick
    <2>2. UNCHANGED <<zone, history, alerts, cap, lock>>
      BY <1>1 DEF Tick, db
    <2> QED
      BY <1>0, <2>1, <2>2, QuietStep
  <1>2. CASE Crash
    <2>1. \A t \in Session : cap'[t].pc # "locked"
      <3> TAKE t \in Session
      <3>1. CASE cap[t].pc \in Running \cup {"finishing"}
        <4>1. cap'[t] = [Idle(cap[t].zone) EXCEPT !.pc = "orphan", !.clean = cap[t].clean]
          BY <1>2, <3>1 DEF Crash
        <4> QED
          BY <1>0, <4>1 DEF Idle
      <3>2. CASE cap[t].pc \notin Running \cup {"finishing"}
        <4>1. cap'[t] = cap[t]
          BY <1>2, <3>2 DEF Crash
        <4> QED
          BY <3>2, <4>1 DEF Running, Busy
      <3> QED
        BY <3>1, <3>2
    <2>2. UNCHANGED <<zone, history, alerts, clock>>
      BY <1>2 DEF Crash
    <2> QED
      BY <1>0, <2>1, <2>2, QuietStep
  <1>3. CASE CloseIncident
    <2>1. UNCHANGED <<zone, history, alerts, cap, lock, clock>>
      BY <1>3 DEF CloseIncident, db
    <2> QED
      BY <1>0, <2>1, QuietStep
  <1>4. ASSUME NEW s \in Session, StartCapture(s) PROVE IInv'
    <2>1. UNCHANGED <<zone, history, alerts, lock, clock>>
      BY <1>4 DEF StartCapture, db
    <2>2. cap' = [cap EXCEPT ![s] = [cap[s] EXCEPT !.pc = "waiting"]]
      BY <1>0, <1>4 DEF StartCapture
    <2>3. cap'[s].pc = "waiting" /\ \A t \in Session \ {s} : cap'[t] = cap[t]
      BY <1>0, <2>2 DEF Capture
    <2> QED
      BY <1>0, <2>1, <2>3, QuietStep
  <1>5. ASSUME NEW s \in Session, NEW clean \in BOOLEAN, EndStream(s, clean) PROVE IInv'
    <2>1. UNCHANGED <<zone, history, alerts, clock>> /\ lock' = Unlocked(s)
      BY <1>5 DEF EndStream
    <2>2. cap'[s].pc = "finishing" /\ \A t \in Session \ {s} : cap'[t] = cap[t]
      <3>1. cap' = [cap EXCEPT ![s] = [Idle(cap[s].zone) EXCEPT !.pc = "finishing", !.clean = clean]]
        BY <1>5 DEF EndStream
      <3> QED
        BY <1>0, <3>1 DEF Idle
    <2>3. \A t \in Session \ {s} : cap[t].pc = "locked" =>
            lock'[cap[t].zone] = lock[cap[t].zone]
      <3> SUFFICES ASSUME NEW t \in Session \ {s}, cap[t].pc = "locked"
                   PROVE  lock'[cap[t].zone] = lock[cap[t].zone]
        OBVIOUS
      <3>1. lock[cap[t].zone] = t
        BY DEF IInv, LockedOK, ReadingHolds
      <3> QED
        BY <1>0, <2>1, <3>1 DEF Unlocked
    <2> QED
      BY <1>0, <2>1, <2>2, <2>3, QuietStep
  <1>6. ASSUME NEW s \in Session, FinishCapture(s) PROVE IInv'
    <2>1. UNCHANGED <<zone, history, lock, clock>>
      BY <1>6 DEF FinishCapture
    <2>2. cap'[s].pc = "ended" /\ \A t \in Session \ {s} : cap'[t] = cap[t]
      <3>1. cap' = [cap EXCEPT ![s] = [cap[s] EXCEPT !.pc = "ended"]]
        BY <1>0, <1>6 DEF FinishCapture
      <3> QED
        BY <1>0, <3>1 DEF Capture
    <2>3. \/ UNCHANGED alerts
          \/ \E a \in Alert : /\ a.type = "camera_lost" /\ a.assessment = Null
                             /\ alerts' = Append(alerts, a)
      <3>1. CASE ~CameraLost(s)
        BY <1>6, <3>1 DEF FinishCapture
      <3>2. CASE CameraLost(s)
        <4> DEFINE a == [zone |-> cap[s].zone, type |-> "camera_lost", created |-> clock,
                         at |-> clock, assessment |-> Null, session |-> s]
        <4>1. alerts' = Append(alerts, a)
          BY <1>6, <3>2 DEF FinishCapture
        <4>2. a \in Alert
          BY <1>0 DEF Alert, AlertType, Null
        <4> QED
          BY <4>1, <4>2
      <3> QED
        BY <3>1, <3>2
    <2> QED
      BY <1>0, <2>1, <2>2, <2>3, QuietStep
  <1>7. ASSUME NEW s \in Session, TakeFrame(s) PROVE IInv'
    <2>1. UNCHANGED <<zone, history, alerts, lock, clock>>
      BY <1>7 DEF TakeFrame, db
    <2>2. cap' = [cap EXCEPT ![s] = [cap[s] EXCEPT !.pc = "analysing", !.created = clock]]
      BY <1>0, <1>7 DEF TakeFrame
    <2>3. cap'[s].pc = "analysing" /\ \A t \in Session \ {s} : cap'[t] = cap[t]
      BY <1>0, <2>2 DEF Capture
    <2> QED
      BY <1>0, <2>1, <2>3, QuietStep
  <1>8. ASSUME NEW s \in Session, RejectFrame(s) PROVE IInv'
    <2>1. UNCHANGED <<zone, history, alerts, lock, clock>>
      BY <1>8 DEF RejectFrame, db
    <2>2. cap'[s].pc = "waiting" /\ \A t \in Session \ {s} : cap'[t] = cap[t]
      BY <1>0, <1>8 DEF RejectFrame, Idle
    <2> QED
      BY <1>0, <2>1, <2>2, QuietStep
  <1>9. ASSUME NEW s \in Session, NEW v \in Verdict, LockZone(s, v) PROVE IInv'
    <2>1. UNCHANGED <<zone, history, alerts, clock>>
      BY <1>9 DEF LockZone
    <2>2. /\ lock[cap[s].zone] = NoSession
          /\ lock' = [lock EXCEPT ![cap[s].zone] = s]
      BY <1>9 DEF LockZone, RowFree
    <2>3. PICK st : cap' = [cap EXCEPT ![s] = [cap[s] EXCEPT !.pc = "locked", !.now = clock,
                       !.prev = Effective(zone[cap[s].zone], clock), !.verdict = v, !.status = st]]
      BY <1>0, <1>9 DEF LockZone
    <2>4. /\ cap'[s].zone = cap[s].zone /\ cap'[s].now = clock
          /\ cap'[s].prev = Effective(zone[cap[s].zone], clock)
          /\ \A t \in Session \ {s} : cap'[t] = cap[t]
      BY <1>0, <2>3 DEF Capture
    <2>5. ReadingHolds(s)'
      <3>1. zone[cap[s].zone].at <= clock
        BY <1>0 DEF IInv, TimesOK
      <3>2. lock'[cap[s].zone] = s
        BY <1>0, <2>2
      <3> QED
        BY <1>0, <2>1, <2>4, <3>1, <3>2 DEF ReadingHolds, Effective
    <2>6. \A t \in Session \ {s} : cap[t].pc = "locked" =>
            lock'[cap[t].zone] = lock[cap[t].zone]
      <3> SUFFICES ASSUME NEW t \in Session \ {s}, cap[t].pc = "locked"
                   PROVE  lock'[cap[t].zone] = lock[cap[t].zone]
        OBVIOUS
      <3>1. lock[cap[t].zone] = t
        BY DEF IInv, LockedOK, ReadingHolds
      <3>2. cap[t].zone # cap[s].zone
        BY <2>2, <3>1, SessionAssumption
      <3> QED
        BY <1>0, <2>2, <3>2
    <2> QED
      BY <1>0, <2>1, <2>4, <2>5, <2>6, QuietStep
  <1>10. ASSUME NEW s \in Session, CommitFrame(s) PROVE IInv'
    <2>1. \A c, n, type, time :
            /\ c = cap[s] /\ n = Len(history) /\ time = clock
            /\ type = AlertOf(c.zone, c.verdict, c.prev, c.now)
            => IInv'
      BY <1>0, <1>10, CommitStep
    <2> QED
      BY <2>1
  <1>11. ASSUME NEW s \in Session, PublishFrame(s) PROVE IInv'
    <2>1. UNCHANGED <<zone, history, alerts, lock, clock>>
      BY <1>11 DEF PublishFrame, db
    <2>2. cap'[s].pc = "waiting" /\ \A t \in Session \ {s} : cap'[t] = cap[t]
      BY <1>0, <1>11 DEF PublishFrame, Idle
    <2> QED
      BY <1>0, <2>1, <2>2, QuietStep
  <1>12. CASE UNCHANGED vars
    <2>1. UNCHANGED <<zone, history, alerts, cap, lock, clock>>
      BY <1>12 DEF vars
    <2> QED
      BY <1>0, <2>1, QuietStep
  <1> QED
    BY <1>1, <1>2, <1>3, <1>4, <1>5, <1>6, <1>7, <1>8, <1>9, <1>10, <1>11, <1>12
    DEF Next, Frame, StopCapture, DropCapture

(* The inductive invariant holds in every behaviour: the row lock keeps what a frame  *)
(* read true until its commit, which relates the zone, its history and its alerts.    *)
THEOREM Invariant == Spec => []IInv
  BY InitIInv, NextIInv, PTL DEF Spec

(* The zone row always tells the same as the committed history, for any number of *)
(* sessions that stream the zone at once.                                         *)
THEOREM HistoryBacksStatus == Spec => []StatusBackedByHistory
  <1>1. IInv => StatusBackedByHistory
    BY DEF IInv
  <1> QED
    BY <1>1, Invariant, PTL

(* Every transition into unsafe or blocked is alarmed by the frame that made it,  *)
(* and by no other frame.                                                         *)
THEOREM SevereAlerted == Spec => []SevereAlertedOnEntry
  <1>1. IInv => SevereAlertedOnEntry
    BY DEF IInv
  <1> QED
    BY <1>1, Invariant, PTL

(* No step moves a zone's status_updated_at backwards. *)
THEOREM TimeMonotone == Spec => StatusTimeMonotone
  <1>1. ASSUME IInv, [Next]_vars
        PROVE  [\A z \in Zone : zone'[z].at >= zone[z].at]_vars
    <2>0. zone \in [Zone -> ZoneRow] /\ \A z \in Zone : zone[z].at \in Nat
      BY <1>1, TypeParts DEF IInv
    <2>1. CASE UNCHANGED zone
      BY <2>0, <2>1
    <2>2. ASSUME NEW s \in Session, CommitFrame(s)
          PROVE  \A z \in Zone : zone'[z].at >= zone[z].at
      <3>1. ReadingHolds(s) /\ cap[s].now \in Nat /\ cap[s].zone \in Zone
        BY <1>1, <2>2, TypeParts DEF IInv, LockedOK, CommitFrame
      <3>2. zone' = ZoneAfter(cap[s], Len(history) + 1)
        BY <2>2 DEF CommitFrame
      <3>3. \A z \in Zone : zone'[z].at = zone[z].at \/ (z = cap[s].zone /\ zone'[z].at = cap[s].now)
        BY <2>0, <3>2 DEF ZoneAfter
      <3> QED
        BY <2>0, <3>1, <3>3 DEF ReadingHolds
    <2>3. UNCHANGED zone \/ \E s \in Session : CommitFrame(s)
      BY <1>1 DEF Next, Tick, Crash, CloseIncident, StartCapture, StopCapture, DropCapture, EndStream,
             FinishCapture, Frame, TakeFrame, RejectFrame, LockZone, PublishFrame, db, vars
    <2> QED
      BY <2>1, <2>2, <2>3
  <1> QED
    BY <1>1, Invariant, PTL DEF Spec, StatusTimeMonotone

(***************************************************************************)
(* The alerts that are no transition's: what a step appends and what it    *)
(* does to a session, from which their three invariants follow.            *)
(***************************************************************************)
(* A step appends at most one alert: a failure that is not recent, one of a *)
(* transition, or the loss of a camera by the end of its own session.       *)
LEMMA OneAlertMore ==
  ASSUME TypeOK, [Next]_vars
  PROVE  \/ UNCHANGED alerts
         \/ \E a \in Alert :
              /\ alerts' = Append(alerts, a)
              /\ a.type = "analysis_failed" => a.at = clock /\ ~RecentFailure(a.zone)
              /\ a.type = "camera_lost" => FinishCapture(a.session) /\ CameraLost(a.session)
              /\ \/ Len(alerts) + 1 \in pushed'
                 \/ /\ cap'[a.session].pc = "committed"
                    /\ Len(alerts) + 1 \in cap'[a.session].alerts
  <1>0. /\ clock \in Nat /\ Len(history) \in Nat /\ cap \in [Session -> Capture]
        /\ \A s \in Session : cap[s] \in Capture /\ cap[s].zone \in Zone /\ cap[s].created \in Nat
    BY TypeParts
  <1>1. ASSUME NEW s \in Session, FinishCapture(s), CameraLost(s)
        PROVE  \E a \in Alert : /\ alerts' = Append(alerts, a)
                                /\ a.type = "camera_lost" /\ a.session = s
                                /\ Len(alerts) + 1 \in pushed'
    <2> DEFINE a == [zone |-> cap[s].zone, type |-> "camera_lost", created |-> clock,
                     at |-> clock, assessment |-> Null, session |-> s]
    <2>1. alerts' = Append(alerts, a) /\ Len(alerts) + 1 \in pushed'
      BY <1>1 DEF FinishCapture
    <2>2. a \in Alert
      BY <1>0 DEF Alert, AlertType, Null
    <2> QED
      BY <2>1, <2>2
  <1>2. ASSUME NEW s \in Session, CommitFrame(s)
        PROVE  \/ UNCHANGED alerts
               \/ \E a \in Alert :
                    /\ alerts' = Append(alerts, a)
                    /\ a.type = "analysis_failed" => a.at = clock /\ ~RecentFailure(a.zone)
                    /\ a.type # "camera_lost"
                    /\ a.session = s /\ cap'[s].pc = "committed"
                    /\ Len(alerts) + 1 \in cap'[s].alerts
    <2> DEFINE type == AlertOf(cap[s].zone, cap[s].verdict, cap[s].prev, cap[s].now)
               a == [zone |-> cap[s].zone, type |-> type, created |-> cap[s].created,
                     at |-> clock, assessment |-> Len(history) + 1, session |-> s]
    <2>1. CASE type = "none"
      BY <1>2, <2>1 DEF CommitFrame
    <2>2. CASE type # "none"
      <3>1. /\ alerts' = Append(alerts, a)
            /\ cap' = [cap EXCEPT ![s] = [cap[s] EXCEPT !.pc = "committed",
                                                       !.alerts = {Len(alerts) + 1}]]
        BY <1>0, <1>2, <2>2 DEF CommitFrame
      <3>2. cap'[s].pc = "committed" /\ Len(alerts) + 1 \in cap'[s].alerts
        BY <1>0, <3>1 DEF Capture
      <3>3. /\ type # "camera_lost"
            /\ type = "analysis_failed" => ~RecentFailure(cap[s].zone)
        BY DEF AlertOf
      <3>4. type \in AlertType
        BY <2>2, AlertOfType
      <3> HIDE DEF type
      <3>5. a \in Alert
        BY <1>0, <3>4 DEF Alert
      <3> QED
        BY <3>1, <3>2, <3>3, <3>5
    <2> QED
      BY <2>1, <2>2
  <1>3. \/ UNCHANGED alerts
        \/ \E s \in Session : CommitFrame(s)
        \/ \E s \in Session : FinishCapture(s) /\ CameraLost(s)
    BY DEF Next, Tick, Crash, CloseIncident, StartCapture, StopCapture, DropCapture, EndStream,
           FinishCapture, Frame, TakeFrame, RejectFrame, LockZone, PublishFrame, db, vars
  <1>4. ASSUME NEW s \in Session, FinishCapture(s), CameraLost(s)
        PROVE  \E a \in Alert :
              /\ alerts' = Append(alerts, a)
              /\ a.type = "analysis_failed" => a.at = clock /\ ~RecentFailure(a.zone)
              /\ a.type = "camera_lost" => FinishCapture(a.session) /\ CameraLost(a.session)
              /\ Len(alerts) + 1 \in pushed'
    BY <1>1, <1>4
  <1>5. ASSUME NEW s \in Session, CommitFrame(s)
        PROVE  \/ UNCHANGED alerts
               \/ \E a \in Alert :
                    /\ alerts' = Append(alerts, a)
                    /\ a.type = "analysis_failed" => a.at = clock /\ ~RecentFailure(a.zone)
                    /\ a.type = "camera_lost" => FinishCapture(a.session) /\ CameraLost(a.session)
                    /\ cap'[a.session].pc = "committed"
                    /\ Len(alerts) + 1 \in cap'[a.session].alerts
    BY <1>2, <1>5
  <1> QED
    BY <1>3, <1>4, <1>5

(* The end of a session moves no other one. *)
LEMMA FinishFacts ==
  ASSUME TypeOK, NEW s \in Session, FinishCapture(s)
  PROVE  /\ cap[s].pc = "finishing" /\ cap'[s].pc = "ended" /\ cap'[s].clean = cap[s].clean
         /\ \A t \in Session \ {s} : cap'[t] = cap[t]
  <1>1. cap \in [Session -> Capture]
    BY TypeParts
  <1>2. cap[s].pc = "finishing" /\ cap' = [cap EXCEPT ![s] = [cap[s] EXCEPT !.pc = "ended"]]
    BY <1>1 DEF FinishCapture
  <1> QED
    BY <1>1, <1>2 DEF Capture

(* What a step other than its end can do to a session's handler: a step that does *)
(* not leave it alone starts a frame's work, ends the stream, or announces the    *)
(* alerts of a commit.                                                            *)
Moved(t) ==
  \/ cap'[t] = cap[t]
  \/ cap[t].pc \in {"off", "waiting", "analysing", "locked"} /\ cap'[t].pc # "ended"
  \/ cap[t].pc # "ended" /\ cap'[t].pc \in {"finishing", "orphan"}
  \/ /\ cap[t].pc = "committed" /\ cap'[t].pc = "waiting"
     /\ cap[t].alerts \subseteq pushed'

LEMMA SessionStep ==
  ASSUME TypeOK, [Next]_vars, NEW t \in Session
  PROVE  pushed \subseteq pushed' /\ (Moved(t) \/ FinishCapture(t))
  <1>0. /\ cap \in [Session -> Capture]
        /\ \A s \in Session : cap[s] \in Capture /\ cap[s].zone \in Zone /\ cap[s].clean \in BOOLEAN
    BY TypeParts, CaptureUpdates
  <1>1. CASE UNCHANGED cap
    <2>1. Moved(t)
      BY <1>1 DEF Moved
    <2>2. pushed \subseteq pushed'
      BY <1>1 DEF Next, Tick, Crash, CloseIncident, StartCapture, StopCapture, DropCapture, EndStream,
             FinishCapture, Frame, TakeFrame, RejectFrame, LockZone, CommitFrame, PublishFrame, db, vars
    <2> QED
      BY <2>1, <2>2
  <1>2. CASE Crash
    <2>1. UNCHANGED pushed
      BY <1>2 DEF Crash
    <2>2. CASE cap[t].pc \in Running \cup {"finishing"}
      <3>1. cap'[t] = [Idle(cap[t].zone) EXCEPT !.pc = "orphan", !.clean = cap[t].clean]
        BY <1>2, <2>2 DEF Crash
      <3>2. cap'[t].pc = "orphan"
        BY <1>0, <3>1 DEF Idle
      <3>3. cap[t].pc # "ended"
        BY <2>2 DEF Running, Busy
      <3> QED
        BY <2>1, <3>2, <3>3 DEF Moved
    <2>3. CASE cap[t].pc \notin Running \cup {"finishing"}
      BY <1>2, <2>1, <2>3 DEF Crash, Moved
    <2> QED
      BY <2>2, <2>3
  <1>3. ASSUME NEW s \in Session, StartCapture(s) PROVE pushed \subseteq pushed' /\ Moved(t)
    <2>1. /\ cap[s].pc = "off" /\ UNCHANGED pushed
          /\ cap' = [cap EXCEPT ![s] = [cap[s] EXCEPT !.pc = "waiting"]]
      BY <1>0, <1>3 DEF StartCapture
    <2>2. cap'[s].pc = "waiting" /\ \A q \in Session \ {s} : cap'[q] = cap[q]
      BY <1>0, <2>1 DEF Capture
    <2> QED
      BY <2>1, <2>2 DEF Moved
  <1>4. ASSUME NEW s \in Session, NEW clean \in BOOLEAN, EndStream(s, clean)
        PROVE  pushed \subseteq pushed' /\ Moved(t)
    <2>1. /\ cap[s].pc # "ended" /\ UNCHANGED pushed
          /\ cap' = [cap EXCEPT ![s] = [Idle(cap[s].zone) EXCEPT !.pc = "finishing", !.clean = clean]]
      BY <1>4 DEF EndStream, Running, Busy
    <2>2. cap'[s].pc = "finishing" /\ \A q \in Session \ {s} : cap'[q] = cap[q]
      BY <1>0, <2>1 DEF Idle
    <2> QED
      BY <2>1, <2>2 DEF Moved
  <1>5. ASSUME NEW s \in Session, FinishCapture(s)
        PROVE  pushed \subseteq pushed' /\ (Moved(t) \/ FinishCapture(t))
    <2>1. pushed \subseteq pushed'
      BY <1>5 DEF FinishCapture
    <2>2. t = s \/ cap'[t] = cap[t]
      BY <1>5, FinishFacts
    <2> QED
      BY <1>5, <2>1, <2>2 DEF Moved
  <1>6. ASSUME NEW s \in Session, TakeFrame(s) PROVE pushed \subseteq pushed' /\ Moved(t)
    <2>1. /\ cap[s].pc = "waiting" /\ UNCHANGED pushed
          /\ cap' = [cap EXCEPT ![s] = [cap[s] EXCEPT !.pc = "analysing", !.created = clock]]
      BY <1>0, <1>6 DEF TakeFrame
    <2>2. cap'[s].pc = "analysing" /\ \A q \in Session \ {s} : cap'[q] = cap[q]
      BY <1>0, <2>1 DEF Capture
    <2> QED
      BY <2>1, <2>2 DEF Moved
  <1>7. ASSUME NEW s \in Session, RejectFrame(s) PROVE pushed \subseteq pushed' /\ Moved(t)
    <2>1. /\ cap[s].pc = "analysing" /\ UNCHANGED pushed
          /\ cap'[s].pc = "waiting" /\ \A q \in Session \ {s} : cap'[q] = cap[q]
      BY <1>0, <1>7 DEF RejectFrame, Idle
    <2> QED
      BY <2>1 DEF Moved
  <1>8. ASSUME NEW s \in Session, NEW v \in Verdict, LockZone(s, v)
        PROVE  pushed \subseteq pushed' /\ Moved(t)
    <2>1. PICK p, st : cap' = [cap EXCEPT ![s] = [cap[s] EXCEPT !.pc = "locked", !.now = clock,
                                       !.prev = p, !.verdict = v, !.status = st]]
      BY <1>0, <1>8 DEF LockZone
    <2>2. cap'[s].pc = "locked" /\ \A q \in Session \ {s} : cap'[q] = cap[q]
      BY <1>0, <2>1 DEF Capture
    <2>3. cap[s].pc = "analysing" /\ UNCHANGED pushed
      BY <1>8 DEF LockZone
    <2> QED
      BY <2>2, <2>3 DEF Moved
  <1>9. ASSUME NEW s \in Session, CommitFrame(s) PROVE pushed \subseteq pushed' /\ Moved(t)
    <2>1. cap[s].pc = "locked" /\ UNCHANGED pushed
      BY <1>9 DEF CommitFrame
    <2>2. \/ cap' = [cap EXCEPT ![s] = [cap[s] EXCEPT !.pc = "committed"]]
          \/ cap' = [cap EXCEPT ![s] = [cap[s] EXCEPT !.pc = "committed", !.alerts = {Len(alerts) + 1}]]
      BY <1>0, <1>9 DEF CommitFrame
    <2>3. cap'[s].pc = "committed" /\ \A q \in Session \ {s} : cap'[q] = cap[q]
      <3>1. CASE cap' = [cap EXCEPT ![s] = [cap[s] EXCEPT !.pc = "committed"]]
        BY <1>0, <3>1 DEF Capture
      <3>2. CASE cap' = [cap EXCEPT ![s] = [cap[s] EXCEPT !.pc = "committed", !.alerts = {Len(alerts) + 1}]]
        BY <1>0, <3>2 DEF Capture
      <3> QED
        BY <2>2, <3>1, <3>2
    <2> QED
      BY <2>1, <2>3 DEF Moved
  <1>10. ASSUME NEW s \in Session, PublishFrame(s) PROVE pushed \subseteq pushed' /\ Moved(t)
    <2>1. /\ cap[s].pc = "committed" /\ pushed' = pushed \cup cap[s].alerts
          /\ cap'[s].pc = "waiting" /\ \A q \in Session \ {s} : cap'[q] = cap[q]
      BY <1>0, <1>10 DEF PublishFrame, Idle
    <2> QED
      BY <2>1 DEF Moved
  <1>11. \/ UNCHANGED cap \/ Crash
         \/ \E s \in Session :
              \/ StartCapture(s) \/ EndStream(s, TRUE) \/ EndStream(s, FALSE) \/ FinishCapture(s)
              \/ TakeFrame(s) \/ RejectFrame(s) \/ (\E v \in Verdict : LockZone(s, v))
              \/ CommitFrame(s) \/ PublishFrame(s)
    BY DEF Next, Tick, CloseIncident, Frame, StopCapture, DropCapture, vars
  <1> QED
    BY <1>1, <1>2, <1>3, <1>4, <1>5, <1>6, <1>7, <1>8, <1>9, <1>10, <1>11

(* The alerts after a step, one by one. *)
LEMMA AlertsAfter ==
  ASSUME TypeOK, NEW a \in Alert, alerts' = Append(alerts, a)
  PROVE  /\ Len(alerts) \in Nat
         /\ DOMAIN alerts = 1..Len(alerts) /\ DOMAIN alerts' = 1..(Len(alerts) + 1)
         /\ alerts'[Len(alerts) + 1] = a
         /\ \A k \in 1..Len(alerts) : alerts'[k] = alerts[k]
  <1>1. alerts \in Seq(Alert)
    BY DEF TypeOK
  <1> QED
    BY <1>1, AppendFacts

LEMMA SpacedStep == TypeOK /\ FailureAlertsSpaced /\ [Next]_vars => FailureAlertsSpaced'
  <1> SUFFICES ASSUME TypeOK, FailureAlertsSpaced, [Next]_vars PROVE FailureAlertsSpaced'
    OBVIOUS
  <1>1. CASE UNCHANGED alerts
    BY <1>1 DEF FailureAlertsSpaced
  <1>2. ASSUME NEW a \in Alert, alerts' = Append(alerts, a),
               a.type = "analysis_failed" => a.at = clock /\ ~RecentFailure(a.zone)
        PROVE  FailureAlertsSpaced'
    <2>0. /\ Len(alerts) \in Nat
          /\ DOMAIN alerts = 1..Len(alerts) /\ DOMAIN alerts' = 1..(Len(alerts) + 1)
          /\ alerts'[Len(alerts) + 1] = a
          /\ \A k \in 1..Len(alerts) : alerts'[k] = alerts[k]
      BY <1>2, AlertsAfter
    <2>1. clock \in Nat /\ \A k \in 1..Len(alerts) : alerts[k].created \in Nat
      BY TypeParts DEF Alert
    <2> SUFFICES ASSUME NEW k \in 1..(Len(alerts) + 1), NEW m \in 1..(Len(alerts) + 1), k < m,
                        alerts'[k].zone = alerts'[m].zone,
                        alerts'[k].type = "analysis_failed", alerts'[m].type = "analysis_failed"
                 PROVE  alerts'[m].at - alerts'[k].created > FailInterval
      BY <2>0 DEF FailureAlertsSpaced
    <2>2. k \in 1..Len(alerts)
      BY <2>0
    <2>3. CASE m \in 1..Len(alerts)
      BY <2>0, <2>2, <2>3 DEF FailureAlertsSpaced
    <2>4. CASE m = Len(alerts) + 1
      <3>1. ~(alerts[k].created >= clock - FailInterval)
        BY <1>2, <2>0, <2>2, <2>4 DEF RecentFailure
      <3> QED
        BY <1>2, <2>0, <2>1, <2>2, <2>4, <3>1, SettingsAssumption
    <2> QED
      BY <2>0, <2>3, <2>4
  <1> QED
    BY <1>1, <1>2, OneAlertMore

(* No two analysis_failed alerts of a zone are closer than the interval, however many *)
(* sessions fail on it at once: the row lock makes the second one see the first.      *)
THEOREM FailuresSpaced == Spec => []FailureAlertsSpaced
  <1>1. Init => FailureAlertsSpaced
    BY DEF Init, FailureAlertsSpaced
  <1> QED
    BY <1>1, SpacedStep, TypeCorrect, PTL DEF Spec

(***************************************************************************)
(* camera_lost: the alert is written with the end of its session, so before *)
(* that there is none.                                                     *)
(***************************************************************************)
Reported(s) ==
  \E k \in DOMAIN alerts : alerts[k].type = "camera_lost" /\ alerts[k].session = s

NotBeforeTheEnd == \A s \in Session : cap[s].pc # "ended" => ~Reported(s)

LEMMA ReportedAfter ==
  ASSUME TypeOK, [Next]_vars, NEW t \in Session
  PROVE  Reported(t)' <=> Reported(t) \/ (FinishCapture(t) /\ CameraLost(t))
  <1>1. CASE UNCHANGED alerts
    <2>1. ~(FinishCapture(t) /\ CameraLost(t))
      <3>1. alerts \in Seq(Alert)
        BY DEF TypeOK
      <3>2. ASSUME NEW e, alerts' = Append(alerts, e) PROVE FALSE
        BY <1>1, <3>1, <3>2
      <3> QED
        BY <3>2 DEF FinishCapture
    <2> QED
      BY <1>1, <2>1 DEF Reported
  <1>2. ASSUME NEW a \in Alert, alerts' = Append(alerts, a),
               a.type = "camera_lost" => FinishCapture(a.session) /\ CameraLost(a.session)
        PROVE  Reported(t)' <=> Reported(t) \/ (FinishCapture(t) /\ CameraLost(t))
    <2>0. /\ Len(alerts) \in Nat
          /\ DOMAIN alerts = 1..Len(alerts) /\ DOMAIN alerts' = 1..(Len(alerts) + 1)
          /\ alerts'[Len(alerts) + 1] = a
          /\ \A k \in 1..Len(alerts) : alerts'[k] = alerts[k]
      BY <1>2, AlertsAfter
    <2>1. ASSUME FinishCapture(t), CameraLost(t) PROVE Reported(t)'
      <3>1. PICK e : alerts' = Append(alerts, e) /\ e.type = "camera_lost" /\ e.session = t
        BY <2>1 DEF FinishCapture
      <3>2. alerts'[Len(alerts) + 1] = e
        BY <3>1, TypeParts
      <3> QED
        BY <2>0, <3>1, <3>2 DEF Reported
    <2>2. Reported(t)' <=> Reported(t) \/ (a.type = "camera_lost" /\ a.session = t)
      <3>1. ASSUME Reported(t)' PROVE Reported(t) \/ (a.type = "camera_lost" /\ a.session = t)
        <4>1. PICK k \in 1..(Len(alerts) + 1) :
                alerts'[k].type = "camera_lost" /\ alerts'[k].session = t
          BY <2>0, <3>1 DEF Reported
        <4>2. k = Len(alerts) + 1 \/ k \in 1..Len(alerts)
          BY <2>0
        <4> QED
          BY <2>0, <4>1, <4>2 DEF Reported
      <3>2. ASSUME Reported(t) PROVE Reported(t)'
        BY <2>0, <3>2 DEF Reported
      <3>3. ASSUME a.type = "camera_lost", a.session = t PROVE Reported(t)'
        <4>1. Len(alerts) + 1 \in DOMAIN alerts'
          BY <2>0
        <4> QED
          BY <2>0, <3>3, <4>1 DEF Reported
      <3> QED
        BY <3>1, <3>2, <3>3
    <2> QED
      BY <1>2, <2>1, <2>2
  <1> QED
    BY <1>1, <1>2, OneAlertMore

ReportInv == TypeOK /\ NotBeforeTheEnd /\ CameraLostIffUnclean

LEMMA ReportStep == ReportInv /\ [Next]_vars => ReportInv'
  <1> SUFFICES ASSUME ReportInv, [Next]_vars PROVE ReportInv'
    OBVIOUS
  <1>1. TypeOK /\ TypeOK'
    BY NextType DEF ReportInv
  <1>2. ASSUME NEW t \in Session
        PROVE  IF cap'[t].pc = "ended" THEN cap'[t].clean <=> ~Reported(t)' ELSE ~Reported(t)'
    <2>0. IF cap[t].pc = "ended" THEN cap[t].clean <=> ~Reported(t) ELSE ~Reported(t)
      BY DEF ReportInv, NotBeforeTheEnd, CameraLostIffUnclean, Reported
    <2>1. CASE FinishCapture(t)
      <3>1. cap[t].pc = "finishing" /\ cap'[t].pc = "ended" /\ cap'[t].clean = cap[t].clean
        BY <1>1, <2>1, FinishFacts
      <3>2. Reported(t)' <=> CameraLost(t)
        BY <1>1, <2>0, <2>1, <3>1, ReportedAfter
      <3>3. CameraLost(t) <=> ~cap[t].clean
        BY DEF CameraLost
      <3>4. cap[t].clean \in BOOLEAN
        BY <1>1, TypeParts, CaptureUpdates
      <3> QED
        BY <3>1, <3>2, <3>3, <3>4
    <2>2. CASE ~FinishCapture(t)
      <3>1. Reported(t)' <=> Reported(t)
        BY <1>1, <2>2, ReportedAfter
      <3>2. cap'[t] = cap[t] \/ (cap[t].pc # "ended" /\ cap'[t].pc # "ended")
        BY <1>1, <2>2, SessionStep DEF Moved
      <3> QED
        BY <2>0, <3>1, <3>2
    <2> QED
      BY <2>1, <2>2
  <1>3. NotBeforeTheEnd'
    BY <1>2 DEF NotBeforeTheEnd
  <1>4. CameraLostIffUnclean'
    BY <1>2 DEF CameraLostIffUnclean, Reported
  <1> QED
    BY <1>1, <1>3, <1>4 DEF ReportInv

(* A session that ended has left a camera_lost alert exactly if nobody asked it to *)
(* stop, whatever frame was in hand and whoever else streams the zone.             *)
THEOREM LossReported == Spec => []CameraLostIffUnclean
  <1>1. Init => ReportInv
    <2> SUFFICES ASSUME Init PROVE NotBeforeTheEnd /\ CameraLostIffUnclean
      BY InitType DEF ReportInv
    <2>1. \A s \in Session : cap[s].pc = "off"
      <3> TAKE s \in Session
      <3>1. PICK z \in Zone : cap[s] = [Idle(z) EXCEPT !.pc = "off"]
        BY DEF Init
      <3> QED
        BY <3>1 DEF Idle
    <2>2. DOMAIN alerts = {}
      BY DEF Init
    <2> QED
      BY <2>1, <2>2 DEF NotBeforeTheEnd, Reported, CameraLostIffUnclean
  <1>2. ReportInv => CameraLostIffUnclean
    BY DEF ReportInv
  <1> QED
    BY <1>1, <1>2, ReportStep, PTL DEF Spec

(***************************************************************************)
(* Announcements                                                           *)
(***************************************************************************)
Accounted(k) ==
  LET c == cap[alerts[k].session] IN
  \/ c.pc = "committed" /\ k \in c.alerts
  \/ c.pc \in {"finishing", "ended", "orphan"}

LEMMA AnnouncedStep == TypeOK /\ AlertsAnnounced /\ [Next]_vars => AlertsAnnounced'
  <1> SUFFICES ASSUME TypeOK, AlertsAnnounced, [Next]_vars PROVE AlertsAnnounced'
    OBVIOUS
  <1>1. \A k \in DOMAIN alerts : alerts[k].session \in Session
    BY TypeParts DEF Alert
  <1>2. ASSUME NEW k \in DOMAIN alerts, k \notin pushed', alerts'[k] = alerts[k]
        PROVE  Accounted(k)'
    <2> DEFINE t == alerts[k].session
    <2>0. t \in Session /\ t' = t
      BY <1>1, <1>2
    <2>1. pushed \subseteq pushed' /\ (Moved(t) \/ FinishCapture(t))
      BY <2>0, SessionStep
    <2>2. \/ cap[t].pc = "committed" /\ k \in cap[t].alerts
          \/ cap[t].pc \in {"finishing", "ended", "orphan"}
      BY <1>2, <2>1 DEF AlertsAnnounced
    <2>3. CASE FinishCapture(t)
      <3>1. cap'[t].pc = "ended"
        BY <2>0, <2>3, FinishFacts
      <3> QED
        BY <1>2, <3>1 DEF Accounted
    <2>4. CASE Moved(t)
      <3>1. \/ cap'[t] = cap[t]
            \/ cap'[t].pc \in {"finishing", "orphan"}
        BY <1>2, <2>2, <2>4 DEF Moved
      <3> QED
        BY <1>2, <2>2, <3>1 DEF Accounted
    <2> QED
      BY <2>1, <2>3, <2>4
  <1>3. CASE UNCHANGED alerts
    BY <1>2, <1>3 DEF AlertsAnnounced, Accounted
  <1>4. ASSUME NEW a \in Alert, alerts' = Append(alerts, a),
               \/ Len(alerts) + 1 \in pushed'
               \/ /\ cap'[a.session].pc = "committed"
                  /\ Len(alerts) + 1 \in cap'[a.session].alerts
        PROVE  AlertsAnnounced'
    <2>0. /\ Len(alerts) \in Nat
          /\ DOMAIN alerts = 1..Len(alerts) /\ DOMAIN alerts' = 1..(Len(alerts) + 1)
          /\ alerts'[Len(alerts) + 1] = a
          /\ \A k \in 1..Len(alerts) : alerts'[k] = alerts[k]
      BY <1>4, AlertsAfter
    <2>1. ASSUME NEW k \in 1..(Len(alerts) + 1), k \notin pushed' PROVE Accounted(k)'
      <3>1. CASE k \in 1..Len(alerts)
        BY <1>2, <2>0, <2>1, <3>1
      <3>2. CASE k = Len(alerts) + 1
        BY <1>4, <2>0, <2>1, <3>2 DEF Accounted
      <3> QED
        BY <2>0, <3>1, <3>2
    <2> QED
      BY <2>0, <2>1 DEF AlertsAnnounced, Accounted
  <1> QED
    BY <1>3, <1>4, OneAlertMore

(* An alert that is stored and was never announced is the business of a handler that *)
(* has just committed it, or of one that was cancelled or died before it could.      *)
THEOREM AllAnnounced == Spec => []AlertsAnnounced
  <1>1. Init => AlertsAnnounced
    BY DEF Init, AlertsAnnounced
  <1> QED
    BY <1>1, AnnouncedStep, TypeCorrect, PTL DEF Spec
=============================================================================
