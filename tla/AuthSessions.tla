--------------------------- MODULE AuthSessions ---------------------------
(***************************************************************************)
(* Sign-in sessions of one user.  A sign-in is a family of refresh tokens: *)
(* every refresh inserts a new row and revokes the row it was asked with.  *)
(*                                                                         *)
(* Code: services/auth_sessions.py, api/v1/auth.py, the administrator's    *)
(* operations of api/v1/users.py.                                          *)
(*                                                                         *)
(* Requests run concurrently, each in one PostgreSQL transaction at READ   *)
(* COMMITTED.  An UPDATE sees the rows that are committed when it starts   *)
(* (`seen'), waits for each one's lock, and then looks at the newest       *)
(* version: a row that no longer matches is skipped, and a row inserted    *)
(* meanwhile is not looked for.  What a transaction writes is applied at   *)
(* its commit.  A clock of abstract ticks; 0 stands for NULL.              *)
(***************************************************************************)
EXTENDS Integers, Sequences

CONSTANTS
  Family,       \* sign-ins that may happen
  Request,      \* requests that may be in progress at once
  NoRequest,    \* the owner of a row that nobody has locked
  Grace,        \* ROTATION_GRACE
  IdleTimeout,  \* idle_timeout_minutes
  Lifetime,     \* refresh_token_days
  MaxClock,     \* bound: last tick of the clock
  MaxRequests   \* bound: requests that arrive (each inserts at most one row)

ASSUME RequestAssumption == NoRequest \notin Request
ASSUME PeriodAssumption == Grace \in Nat /\ IdleTimeout \in Nat /\ Lifetime \in Nat
ASSUME LimitAssumption == MaxClock \in Nat /\ MaxRequests \in Nat

VARIABLES
  clock,
  active,    \* users.is_active
  duty,      \* in_active_incident: commander or assignee of an active incident
  token,     \* refresh_tokens in the order of their commits; the index is the id
  lock,      \* who holds the row lock of each of them
  userLock,  \* who holds the row lock of the user
  req,       \* the transaction of every request
  taken      \* requests so far (bounded by MaxRequests)

locks == <<lock, userLock>>
vars  == <<clock, active, duty, token, locks, req, taken>>

Null == 0

AdminKind == {"deactivate", "reset_password", "change_password"}

(* A request that holds nothing.  Its pc is "done", or the statement that it is   *)
(* at: "login", "row", "rotate", "user" or "update".  tok is the row it           *)
(* presented, seen and todo are the rows its UPDATE statement found and those it  *)
(* has still to lock, time and activity what it read.                             *)
Fresh(kind, pc, i, f) ==
  [kind |-> kind, pc |-> pc, tok |-> i, family |-> f, seen |-> {}, todo |-> {},
   time |-> Null, activity |-> Null, result |-> "none"]

IsLive(i)   == token[i].revoked = Null
RowsOf(f)   == {i \in DOMAIN token : token[i].family = f}
LiveOf(f)   == {i \in RowsOf(f) : IsLive(i)}

Init ==
  /\ clock = 1 /\ active = TRUE /\ duty \in BOOLEAN
  /\ token = <<>>
  /\ lock = <<>> /\ userLock = NoRequest
  /\ \E f \in Family : req = [r \in Request |-> Fresh("none", "done", Null, f)]
  /\ taken = 0

Tick ==
  /\ clock < MaxClock
  /\ clock' = clock + 1
  /\ UNCHANGED <<active, duty, token, locks, req, taken>>

(* Incidents start and close, and teams are reassigned, elsewhere. *)
ChangeDuty ==
  /\ duty' = ~duty
  /\ UNCHANGED <<clock, active, token, locks, req, taken>>

(* Mutant: the sessions are updated before the user is flushed. *)
UserAlwaysFree == TRUE

(* An UPDATE of the user waits for the transaction that changed it before. *)
UserFree == userLock = NoRequest

(* update_user with is_active = true: no session is touched. *)
Reactivate ==
  /\ ~active /\ UserFree
  /\ active' = TRUE
  /\ UNCHANGED <<clock, duty, token, locks, req, taken>>

(* A request arrives at a handler. *)
Arrive(r, rec) ==
  /\ req[r].pc = "done"
  /\ taken < MaxRequests
  /\ taken' = taken + 1
  /\ req' = [req EXCEPT ![r] = rec]
  /\ UNCHANGED <<clock, active, duty, token, locks>>

(* Mutant: only the row that was presented is revoked. *)
PresentedOnly(rec) == {i \in LiveOf(rec.family) : i = rec.tok}

(* revoke_family, touch_activity: the rows that the UPDATE's snapshot matches. *)
FamilyRows(rec) == LiveOf(rec.family)

(* revoke_all_for_user, which change_password calls with except_family. *)
UserRows(rec) ==
  {i \in DOMAIN token : IsLive(i) /\ (rec.kind = "change_password" => token[i].family # rec.family)}

(* The UPDATE statement of a request starts. *)
Updating(rec, rows) ==
  [rec EXCEPT !.pc = "update", !.seen = rows, !.todo = rows, !.time = clock]

(***************************************************************************)
(* Sign-in, sign-out, heartbeat                                            *)
(***************************************************************************)
(* _authenticate reads the user and verifies the password; issue comes later. *)
StartLogin(r, f) ==
  /\ active /\ RowsOf(f) = {}
  /\ \A q \in Request : ~(req[q].pc = "login" /\ req[q].family = f)
  /\ Arrive(r, Fresh("login", "login", Null, f))

NewRow(f, activity) ==
  [family |-> f, issued |-> clock, activity |-> activity, revoked |-> Null, replaced |-> Null]

(* last_login_at is flushed, the row inserted, and both are committed. *)
CommitLogin(r) ==
  /\ req[r].pc = "login"
  /\ UserFree
  /\ token' = Append(token, NewRow(req[r].family, clock))
  /\ lock' = Append(lock, NoRequest)
  /\ req' = [req EXCEPT ![r].pc = "done", ![r].result = "ok"]
  /\ UNCHANGED <<clock, active, duty, userLock, taken>>

(* logout finds the family of the presented row, live or not, without a lock. *)
StartLogout(r, i) ==
  LET rec == Fresh("logout", "update", i, token[i].family) IN
  Arrive(r, Updating(rec, FamilyRows(rec)))

(* heartbeat: the access token names the family, the user must be active. *)
StartHeartbeat(r, f) ==
  LET rec == Fresh("heartbeat", "update", Null, f) IN
  /\ active /\ RowsOf(f) # {}
  /\ Arrive(r, Updating(rec, FamilyRows(rec)))

(***************************************************************************)
(* Operations that end the user's sessions.  The changed user is flushed   *)
(* before the sessions are updated, so these wait for each other's user    *)
(* row.                                                                    *)
(***************************************************************************)
StartAdmin(r, kind, f) ==
  /\ kind \in {"deactivate", "change_password"} => active
  /\ kind = "change_password" => RowsOf(f) # {}
  /\ Arrive(r, Fresh(kind, "user", Null, f))

LockUser(r) ==
  /\ req[r].pc = "user"
  /\ UserFree
  /\ userLock' = r
  /\ req' = [req EXCEPT ![r] = Updating(req[r], UserRows(req[r]))]
  /\ UNCHANGED <<clock, active, duty, token, lock, taken>>

(***************************************************************************)
(* refresh                                                                 *)
(***************************************************************************)
StartRefresh(r, i) == Arrive(r, Fresh("refresh", "row", i, token[i].family))

(* Mutant: a row that was revoked is accepted like any other. *)
AnswerUnlessGone(row) == IF active THEN "ok" ELSE "gone"

(* What rotate answers, in the order of its checks. *)
Answer(row) ==
  CASE ~active -> "gone"
    [] active /\ row.revoked # Null ->
         IF row.replaced # Null /\ clock - row.revoked < Grace THEN "race" ELSE "reused"
    [] active /\ row.revoked = Null ->
         IF row.issued + Lifetime <= clock THEN "expired"
         ELSE IF clock - row.activity > IdleTimeout /\ ~duty THEN "idle" ELSE "ok"

(* Mutant: the presented row is read with a plain SELECT. *)
TokenAlwaysFree(i) == TRUE

(* SELECT ... FOR UPDATE waits for the transaction that holds the row. *)
TokenFree(i) == lock[i] = NoRequest

LockToken(r) ==
  LET i      == req[r].tok
      row    == token[i]
      answer == Answer(row)
      rec    == [req[r] EXCEPT !.result = answer, !.time = clock, !.activity = row.activity]
  IN
  /\ req[r].pc = "row"
  /\ TokenFree(i)
  /\ \/ /\ answer \in {"race", "expired"}    \* no change: rolled back, nothing stays locked
        /\ req' = [req EXCEPT ![r] = [rec EXCEPT !.pc = "done"]]
        /\ UNCHANGED lock
     \/ /\ answer \in {"gone", "reused", "idle"}
        /\ req' = [req EXCEPT ![r] = Updating(rec, FamilyRows(rec))]
        /\ lock' = [lock EXCEPT ![i] = r]
     \/ /\ answer = "ok"
        /\ req' = [req EXCEPT ![r] = [rec EXCEPT !.pc = "rotate"]]
        /\ lock' = [lock EXCEPT ![i] = r]
  /\ UNCHANGED <<clock, active, duty, token, userLock, taken>>

Released(r) == [i \in DOMAIN lock |-> IF lock[i] = r THEN NoRequest ELSE lock[i]]

(* Mutant: a refresh counts as activity. *)
ActivityNow(r) == clock

(* issue() hands the activity that was read on to the new row. *)
CarriedActivity(r) == req[r].activity

(* Mutant: the family goes on with the old row as well. *)
OldRowKept(row, time) == [row EXCEPT !.replaced = Len(token) + 1]

RotatedOut(row, time) == [row EXCEPT !.revoked = time, !.replaced = Len(token) + 1]

CommitRotate(r) ==
  LET i == req[r].tok IN
  /\ req[r].pc = "rotate"
  /\ token' = Append([token EXCEPT ![i] = RotatedOut(token[i], req[r].time)],
                     NewRow(req[r].family, CarriedActivity(r)))
  /\ lock' = Append(Released(r), NoRequest)
  /\ req' = [req EXCEPT ![r].pc = "done"]
  /\ UNCHANGED <<clock, active, duty, userLock, taken>>

(***************************************************************************)
(* UPDATE refresh_tokens                                                   *)
(***************************************************************************)
LockRow(r) ==
  /\ req[r].pc = "update"
  /\ \E i \in req[r].todo :
       /\ lock[i] \in {NoRequest, r}
       /\ lock' = [lock EXCEPT ![i] = r]
       /\ req' = [req EXCEPT ![r].todo = @ \ {i}]
  /\ UNCHANGED <<clock, active, duty, token, userLock, taken>>

(* Mutant: the rows of the snapshot are written whatever became of them. *)
Blindly(i) == TRUE

(* The row is written only if its newest version still matches. *)
StillMatches(i) == IsLive(i)

Written(rec, row) ==
  IF rec.kind = "heartbeat" THEN [row EXCEPT !.activity = rec.time]
                            ELSE [row EXCEPT !.revoked = rec.time]

CommitUpdate(r) ==
  /\ req[r].pc = "update" /\ req[r].todo = {}
  /\ token' = [i \in DOMAIN token |->
                 IF i \in req[r].seen /\ StillMatches(i) THEN Written(req[r], token[i])
                                                        ELSE token[i]]
  /\ active' = (active /\ req[r].kind # "deactivate")
  /\ lock' = Released(r)
  /\ userLock' = IF userLock = r THEN NoRequest ELSE userLock
  /\ req' = [req EXCEPT ![r].pc = "done"]
  /\ UNCHANGED <<clock, duty, taken>>

(* The process dies: every open transaction rolls back. *)
Crash ==
  /\ \E r \in Request : req[r].pc # "done"
  /\ taken < MaxRequests
  /\ taken' = taken + 1
  /\ req' = [r \in Request |-> IF req[r].pc = "done" THEN req[r]
                               ELSE Fresh("none", "done", Null, req[r].family)]
  /\ lock' = [i \in DOMAIN lock |-> NoRequest] /\ userLock' = NoRequest
  /\ UNCHANGED <<clock, active, duty, token>>

Receive(r) ==
  \/ \E f \in Family : StartLogin(r, f) \/ StartHeartbeat(r, f)
  \/ \E i \in DOMAIN token : StartRefresh(r, i) \/ StartLogout(r, i)
  \/ \E f \in Family, kind \in AdminKind : StartAdmin(r, kind, f)

Work(r) ==
  \/ CommitLogin(r)
  \/ LockUser(r)
  \/ LockToken(r)
  \/ CommitRotate(r)
  \/ LockRow(r)
  \/ CommitUpdate(r)

Next ==
  \/ Tick \/ ChangeDuty \/ Reactivate \/ Crash
  \/ \E r \in Request : Receive(r) \/ Work(r)

Spec == Init /\ [][Next]_vars

(* PostgreSQL grants a row lock to those who wait for it in turn, and the event *)
(* loop goes on with a request whose statement has returned.                    *)
FairSpec == Spec /\ \A r \in Request : SF_vars(Work(r))

(***************************************************************************)
(* Properties                                                              *)
(***************************************************************************)
(* A sign-in has at most one token that can be refreshed, however many requests *)
(* present the same one at once.                                                *)
OneLivePerFamily ==
  \A i, j \in DOMAIN token :
    token[i].family = token[j].family /\ IsLive(i) /\ IsLive(j) => i = j

(* The rows of a family form one chain in the order of their commits: each row  *)
(* but the last was replaced by the next one, and only a revoked row was.       *)
RotationChain ==
  \A i \in DOMAIN token :
    LET later == {j \in RowsOf(token[i].family) : j > i} IN
    IF later = {} THEN token[i].replaced = Null
    ELSE /\ token[i].replaced \in later
         /\ \A j \in later : token[i].replaced <= j
         /\ ~IsLive(i)

(* Whoever ends a sign-in ends it for good: a family without a live token never *)
(* gets one again, also when a refresh is under way.                            *)
EndedStaysEnded ==
  [][\A f \in Family : RowsOf(f) # {} /\ LiveOf(f) = {} => LiveOf(f)' = {}]_vars

(* revoked_at and replaced_by_id are written once: a later sign-out cannot move *)
(* the time from which the grace period of a rotated row is counted.            *)
RevokedOnce ==
  [][\A i \in DOMAIN token : ~IsLive(i) =>
       /\ token'[i].revoked = token[i].revoked
       /\ token'[i].replaced = token[i].replaced]_vars

(* A refresh is not activity, and does not lose activity that was recorded      *)
(* before it committed: the new row starts with the activity of the old one.    *)
RefreshKeepsActivity ==
  [][\A i \in DOMAIN token : token'[i].replaced # token[i].replaced =>
       token'[token'[i].replaced].activity = token[i].activity]_vars

(* While a family is being ended, a live row that the statement does not know   *)
(* is the successor of one that it does: the only rows an end of a family can   *)
(* miss are those of a refresh that committed in the meantime.                  *)
EndMissesOnlySuccessors ==
  \A r \in Request :
    req[r].pc = "update" /\ req[r].kind \in {"refresh", "logout"} =>
      \A j \in LiveOf(req[r].family) \ req[r].seen :
        \E i \in req[r].seen : i < j /\ token[i].family = req[r].family

(* Every request is answered: no two of them wait for each other's rows. *)
RequestsAnswered == \A r \in Request : req[r].pc # "done" ~> req[r].pc = "done"

(***************************************************************************)
(* What the documents say and the code does not do                         *)
(***************************************************************************)
(* When logout has answered, its family has no token left that works. *)
LogoutEndsFamily ==
  \A r \in Request :
    req[r].kind = "logout" /\ req[r].pc = "done" => LiveOf(req[r].family) = {}
=============================================================================
