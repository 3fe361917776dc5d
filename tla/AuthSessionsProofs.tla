------------------------- MODULE AuthSessionsProofs -------------------------
(***************************************************************************)
(* Proofs about AuthSessions for any number of sign-ins, requests and      *)
(* ticks, and for any periods.                                             *)
(***************************************************************************)
EXTENDS AuthSessions, TLAPS

PC     == {"done", "login", "row", "rotate", "user", "update"}
Kind   == AdminKind \cup {"none", "login", "logout", "heartbeat", "refresh"}
Result == {"none", "ok", "gone", "race", "reused", "expired", "idle"}

Row         == [family : Family, issued : Nat, activity : Nat, revoked : Nat, replaced : Nat]
Transaction == [kind : Kind, pc : PC, tok : Nat, family : Family, seen : SUBSET Nat,
                todo : SUBSET Nat, time : Nat, activity : Nat, result : Result]

TypeOK ==
  /\ clock \in Nat \ {Null} /\ active \in BOOLEAN /\ duty \in BOOLEAN
  /\ token \in Seq(Row)
  /\ lock \in Seq(Request \cup {NoRequest}) /\ Len(lock) = Len(token)
  /\ userLock \in Request \cup {NoRequest}
  /\ req \in [Request -> Transaction]
  /\ taken \in Nat

(***************************************************************************)
(* The inductive invariant: what the transaction of request r read still   *)
(* holds at each of its statements.                                        *)
(***************************************************************************)
PresentedRow(r) == req[r].tok \in DOMAIN token /\ token[req[r].tok].family = req[r].family

(* No row of the sign-in is there before the sign-in commits. *)
LoginHolds(r) == req[r].pc = "login" => RowsOf(req[r].family) = {}

RowHolds(r) == req[r].pc = "row" => PresentedRow(r) /\ req[r].kind = "refresh"

(* The row that is rotated is locked, so it is still live and as it was read. *)
RotateHolds(r) ==
  req[r].pc = "rotate" =>
    /\ PresentedRow(r)
    /\ lock[req[r].tok] = r
    /\ IsLive(req[r].tok) /\ token[req[r].tok].activity = req[r].activity
    /\ req[r].time # Null

UserHolds(r) == req[r].pc = "user" => req[r].kind \in AdminKind

(* An UPDATE holds the rows that it found, those excepted that it has to wait for. *)
UpdateHolds(r) ==
  req[r].pc = "update" =>
    /\ req[r].seen \subseteq DOMAIN token /\ req[r].todo \subseteq req[r].seen
    /\ \A i \in req[r].seen \ req[r].todo : lock[i] = r
    /\ req[r].time # Null
    /\ req[r].kind \in {"refresh", "logout"} => PresentedRow(r)

Holds(r) == LoginHolds(r) /\ RowHolds(r) /\ RotateHolds(r) /\ UserHolds(r) /\ UpdateHolds(r)

(* What EndMissesOnlySuccessors says of one request. *)
EndKnows(r) ==
  req[r].pc = "update" /\ req[r].kind \in {"refresh", "logout"} =>
    \A j \in LiveOf(req[r].family) \ req[r].seen :
      \E i \in req[r].seen : i < j /\ token[i].family = req[r].family

LoginsApart ==
  \A r, q \in Request :
    r # q /\ req[r].pc = "login" /\ req[q].pc = "login" => req[r].family # req[q].family

IInv ==
  /\ TypeOK
  /\ \A r \in Request : Holds(r) /\ EndKnows(r)
  /\ LoginsApart
  /\ RotationChain

-----------------------------------------------------------------------------
(***************************************************************************)
(* What the operators of the transactions return                           *)
(***************************************************************************)
LEMMA AppendFacts ==
  ASSUME NEW S, NEW s \in Seq(S), NEW e \in S
  PROVE  /\ Append(s, e) \in Seq(S) /\ Len(Append(s, e)) = Len(s) + 1 /\ Len(s) \in Nat
         /\ DOMAIN s = 1..Len(s) /\ DOMAIN Append(s, e) = 1..(Len(s) + 1)
         /\ Append(s, e)[Len(s) + 1] = e
         /\ \A i \in 1..Len(s) : Append(s, e)[i] = s[i]
  OBVIOUS

(* A sequence whose elements are written anew, at some of its indices or at all. *)
LEMMA RewriteFacts ==
  ASSUME NEW S, NEW s \in Seq(S), NEW t, DOMAIN t = DOMAIN s, t = [i \in DOMAIN s |-> t[i]],
         \A i \in DOMAIN s : t[i] \in S
  PROVE  t \in Seq(S) /\ Len(t) = Len(s)
  <1>1. DOMAIN s = 1..Len(s) /\ Len(s) \in Nat
    OBVIOUS
  <1>2. t \in [1..Len(s) -> S]
    BY <1>1
  <1> QED
    BY <1>1, <1>2

(* The parts of TypeOK that the steps below use. *)
LEMMA TypeParts ==
  ASSUME TypeOK
  PROVE  /\ clock \in Nat /\ clock # Null
         /\ token \in Seq(Row) /\ Len(token) \in Nat /\ DOMAIN token = 1..Len(token)
         /\ \A i \in DOMAIN token : token[i] \in Row
         /\ lock \in Seq(Request \cup {NoRequest}) /\ DOMAIN lock = DOMAIN token
         /\ \A i \in DOMAIN lock : lock[i] \in Request \cup {NoRequest}
         /\ req \in [Request -> Transaction]
         /\ \A r \in Request : req[r] \in Transaction
  <1>1. token \in Seq(Row) /\ lock \in Seq(Request \cup {NoRequest}) /\ Len(lock) = Len(token)
    BY DEF TypeOK
  <1>2. \A i \in DOMAIN token : token[i] \in Row
    BY <1>1
  <1>3. \A i \in DOMAIN lock : lock[i] \in Request \cup {NoRequest}
    BY <1>1
  <1>4. Len(token) \in Nat /\ DOMAIN token = 1..Len(token) /\ DOMAIN lock = 1..Len(lock)
    BY <1>1
  <1> QED
    BY <1>1, <1>2, <1>3, <1>4 DEF TypeOK, Null

LEMMA RowFacts ==
  ASSUME NEW row \in Row
  PROVE  /\ row.family \in Family /\ row.issued \in Nat /\ row.activity \in Nat
         /\ row.revoked \in Nat /\ row.replaced \in Nat
  BY DEF Row

LEMMA TransactionFacts ==
  ASSUME NEW rec \in Transaction
  PROVE  /\ rec.tok \in Nat /\ rec.family \in Family /\ rec.time \in Nat /\ rec.activity \in Nat
         /\ rec.seen \subseteq Nat /\ rec.todo \subseteq Nat /\ rec.kind \in Kind
  BY DEF Transaction

LEMMA FreshFacts ==
  ASSUME NEW kind \in Kind, NEW pc \in PC, NEW i \in Nat, NEW f \in Family
  PROVE  /\ Fresh(kind, pc, i, f) \in Transaction
         /\ Fresh(kind, pc, i, f).kind = kind /\ Fresh(kind, pc, i, f).pc = pc
         /\ Fresh(kind, pc, i, f).tok = i /\ Fresh(kind, pc, i, f).family = f
  BY DEF Fresh, Transaction, Result, Null

LEMMA NameFacts ==
  /\ {"login", "heartbeat", "refresh", "logout"} \subseteq Kind /\ AdminKind \subseteq Kind
  /\ {"login", "update", "row", "user", "done"} \subseteq PC /\ Null \in Nat
  BY DEF Kind, PC, Null

LEMMA UpdatingFacts ==
  ASSUME TypeOK, NEW rec \in Transaction, NEW rows \in SUBSET DOMAIN token
  PROVE  /\ Updating(rec, rows) \in Transaction
         /\ Updating(rec, rows).pc = "update" /\ Updating(rec, rows).kind = rec.kind
         /\ Updating(rec, rows).tok = rec.tok /\ Updating(rec, rows).family = rec.family
         /\ Updating(rec, rows).seen = rows /\ Updating(rec, rows).todo = rows
         /\ Updating(rec, rows).time = clock
  <1>1. clock \in Nat /\ rows \subseteq Nat
    BY TypeParts
  <1> QED
    BY <1>1 DEF Updating, Transaction, PC

(* The other records that the actions write. *)
LEMMA Progress ==
  ASSUME NEW rec \in Transaction, NEW time \in Nat, NEW activity \in Nat, NEW result \in Result,
         NEW pc \in PC, NEW todo \in SUBSET Nat
  PROVE  /\ [rec EXCEPT !.pc = pc] \in Transaction
         /\ [rec EXCEPT !.pc = pc, !.result = result] \in Transaction
         /\ [rec EXCEPT !.todo = todo] \in Transaction
         /\ [rec EXCEPT !.result = result, !.time = time, !.activity = activity] \in Transaction
  BY DEF Transaction

LEMMA AnswerType == ASSUME NEW row PROVE Answer(row) \in Result \ {"none"}
  <1>1. active \/ ~active
    OBVIOUS
  <1>2. row.revoked = Null \/ row.revoked # Null
    OBVIOUS
  <1> QED
    BY <1>1, <1>2 DEF Answer, Result

LEMMA RowSets ==
  ASSUME NEW rec
  PROVE  /\ FamilyRows(rec) \subseteq DOMAIN token /\ UserRows(rec) \subseteq DOMAIN token
         /\ FamilyRows(rec) = LiveOf(rec.family)
  BY DEF FamilyRows, UserRows, LiveOf, RowsOf

(* Request r takes the lock of row i. *)
WithLock(i, r) == [lock EXCEPT ![i] = r]

LEMMA WithLockFacts ==
  ASSUME TypeOK, NEW r \in Request, NEW i \in DOMAIN token
  PROVE  /\ WithLock(i, r) \in Seq(Request \cup {NoRequest}) /\ Len(WithLock(i, r)) = Len(lock)
         /\ WithLock(i, r)[i] = r
         /\ \A j \in DOMAIN token \ {i} : WithLock(i, r)[j] = lock[j]
  <1> DEFINE t == WithLock(i, r)
             S == Request \cup {NoRequest}
  <1>1. lock \in Seq(S) /\ r \in S /\ DOMAIN lock = DOMAIN token /\ \A k \in DOMAIN lock : lock[k] \in S
    BY TypeParts
  <1>2. /\ DOMAIN t = DOMAIN lock /\ t = [k \in DOMAIN lock |-> t[k]]
        /\ t[i] = r /\ \A j \in DOMAIN token \ {i} : t[j] = lock[j]
    BY <1>1 DEF WithLock
  <1>3. \A k \in DOMAIN lock : t[k] \in S
    BY <1>1, <1>2
  <1> HIDE DEF t, S
  <1>4. t \in Seq(S) /\ Len(t) = Len(lock)
    BY <1>1, <1>2, <1>3, RewriteFacts
  <1> QED
    BY <1>2, <1>4 DEF t, S

-----------------------------------------------------------------------------
(***************************************************************************)
(* What each action does to the requests                                   *)
(***************************************************************************)
(* Request r gets a record rec that keeps its type; the others go on. *)
Moves(r, rec) ==
  /\ req' \in [Request -> Transaction] /\ req'[r] = rec
  /\ \A q \in Request \ {r} : req'[q] = req[q]

LEMMA MovesIf ==
  ASSUME TypeOK, NEW r \in Request, NEW rec \in Transaction, req' = [req EXCEPT ![r] = rec]
  PROVE  Moves(r, rec)
  BY TypeParts DEF Moves

LEMMA ArriveMoves ==
  ASSUME TypeOK, NEW r \in Request, NEW rec \in Transaction, Arrive(r, rec)
  PROVE  TypeOK' /\ Moves(r, rec) /\ UNCHANGED <<clock, active, duty, token, locks>>
  <1>1. Moves(r, rec)
    BY MovesIf DEF Arrive
  <1> QED
    BY <1>1 DEF Arrive, TypeOK, Moves, locks

LEMMA LockUserMoves ==
  ASSUME TypeOK, NEW r \in Request, LockUser(r)
  PROVE  /\ TypeOK' /\ Moves(r, Updating(req[r], UserRows(req[r])))
         /\ UNCHANGED <<clock, token, lock>>
  <1>1. Updating(req[r], UserRows(req[r])) \in Transaction
    BY TypeParts, RowSets, UpdatingFacts
  <1>2. Moves(r, Updating(req[r], UserRows(req[r])))
    BY <1>1, MovesIf DEF LockUser
  <1> QED
    BY <1>2 DEF LockUser, TypeOK, Moves

(* A request that asks for the row lock of its token gives up, begins to end   *)
(* the sign-in, or begins to rotate the row, which is then as it was read.     *)
LEMMA LockTokenMoves ==
  ASSUME TypeOK, NEW r \in Request, PresentedRow(r), LockToken(r)
  PROVE  LET i == req[r].tok IN
         \E rec \in Transaction :
           /\ TypeOK' /\ Moves(r, rec) /\ UNCHANGED <<clock, token>>
           /\ rec.tok = i /\ rec.family = req[r].family /\ rec.kind = req[r].kind
           /\ \/ rec.pc = "done" /\ UNCHANGED lock
              \/ /\ rec.pc = "update" /\ rec.time = clock
                 /\ rec.seen = LiveOf(rec.family) /\ rec.todo = LiveOf(rec.family)
                 /\ lock[i] = NoRequest /\ lock' = WithLock(i, r)
              \/ /\ rec.pc = "rotate" /\ rec.time = clock
                 /\ IsLive(i) /\ rec.activity = token[i].activity
                 /\ lock[i] = NoRequest /\ lock' = WithLock(i, r)
  <1> DEFINE i      == req[r].tok
             answer == Answer(token[i])
             read   == [req[r] EXCEPT !.result = answer, !.time = clock,
                                      !.activity = token[i].activity]
  <1>1. i \in DOMAIN token /\ token[i] \in Row /\ req[r] \in Transaction /\ clock \in Nat
    BY TypeParts DEF PresentedRow
  <1>2. answer \in Result /\ token[i].activity \in Nat
    BY <1>1, AnswerType, RowFacts
  <1>3. /\ read \in Transaction /\ read.tok = i /\ read.family = req[r].family
        /\ read.kind = req[r].kind /\ read.time = clock /\ read.activity = token[i].activity
    BY <1>1, <1>2 DEF Transaction
  <1>4. lock[i] = NoRequest /\ UNCHANGED <<clock, active, duty, token, userLock, taken>>
    BY DEF LockToken, TokenFree
  <1> HIDE DEF read
  <1>5. WithLock(i, r) \in Seq(Request \cup {NoRequest}) /\ Len(WithLock(i, r)) = Len(lock)
    BY <1>1, WithLockFacts
  <1>6. CASE answer \in {"race", "expired"}
    <2> DEFINE rec == [read EXCEPT !.pc = "done"]
    <2>1. req' = [req EXCEPT ![r] = rec] /\ UNCHANGED lock
      BY <1>6 DEF LockToken, read, WithLock
    <2>2. /\ rec \in Transaction /\ rec.pc = "done" /\ rec.tok = i
          /\ rec.family = req[r].family /\ rec.kind = req[r].kind
      BY <1>3 DEF Transaction, PC
    <2> HIDE DEF rec
    <2>3. Moves(r, rec)
      BY <2>1, <2>2, MovesIf
    <2>4. TypeOK'
      BY <1>4, <2>1, <2>3 DEF TypeOK, Moves
    <2> QED
      BY <1>4, <2>1, <2>2, <2>3, <2>4
  <1>7. CASE answer \in {"gone", "reused", "idle"}
    <2> DEFINE rec == Updating(read, FamilyRows(read))
    <2>1. req' = [req EXCEPT ![r] = rec] /\ lock' = WithLock(i, r)
      BY <1>7 DEF LockToken, read, WithLock
    <2>2. /\ rec \in Transaction /\ rec.pc = "update" /\ rec.tok = i /\ rec.time = clock
          /\ rec.family = req[r].family /\ rec.kind = req[r].kind
          /\ rec.seen = LiveOf(rec.family) /\ rec.todo = LiveOf(rec.family)
      BY <1>3, RowSets, UpdatingFacts
    <2> HIDE DEF rec
    <2>3. Moves(r, rec)
      BY <2>1, <2>2, MovesIf
    <2>4. TypeOK'
      BY <1>4, <1>5, <2>1, <2>3 DEF TypeOK, Moves
    <2> QED
      BY <1>4, <2>1, <2>2, <2>3, <2>4
  <1>8. CASE answer = "ok"
    <2> DEFINE rec == [read EXCEPT !.pc = "rotate"]
    <2>1. req' = [req EXCEPT ![r] = rec] /\ lock' = WithLock(i, r)
      BY <1>8 DEF LockToken, read, WithLock
    <2>2. /\ rec \in Transaction /\ rec.pc = "rotate" /\ rec.tok = i /\ rec.time = clock
          /\ rec.family = req[r].family /\ rec.kind = req[r].kind
          /\ rec.activity = token[i].activity
      BY <1>3 DEF Transaction, PC
    <2> HIDE DEF rec
    <2>3. Moves(r, rec)
      BY <2>1, <2>2, MovesIf
    <2>4. TypeOK'
      BY <1>4, <1>5, <2>1, <2>3 DEF TypeOK, Moves
    <2>5. IsLive(i)
      <3>1. active /\ token[i].revoked = Null
        BY <1>8 DEF Answer
      <3> QED
        BY <3>1 DEF IsLive
    <2> QED
      BY <1>4, <2>1, <2>2, <2>3, <2>4, <2>5
  <1> QED
    BY <1>2, <1>6, <1>7, <1>8 DEF LockToken

LEMMA LockRowMoves ==
  ASSUME TypeOK, NEW r \in Request, req[r].todo \subseteq DOMAIN token, LockRow(r)
  PROVE  \E i \in req[r].todo :
           /\ TypeOK' /\ Moves(r, [req[r] EXCEPT !.todo = @ \ {i}])
           /\ UNCHANGED <<clock, token>>
           /\ lock[i] \in {NoRequest, r} /\ lock' = WithLock(i, r)
  <1>1. PICK i \in req[r].todo : /\ lock[i] \in {NoRequest, r}
                                /\ lock' = WithLock(i, r)
                                /\ req' = [req EXCEPT ![r].todo = @ \ {i}]
    BY DEF LockRow, WithLock
  <1> DEFINE rec == [req[r] EXCEPT !.todo = @ \ {i}]
  <1>2. req[r] \in Transaction /\ lock \in Seq(Request \cup {NoRequest})
    BY TypeParts
  <1>3. rec \in Transaction
    BY <1>2 DEF Transaction
  <1>4. req' = [req EXCEPT ![r] = rec]
    BY <1>1
  <1> HIDE DEF rec
  <1>5. Moves(r, rec)
    BY <1>3, <1>4, MovesIf
  <1>6. lock' \in Seq(Request \cup {NoRequest}) /\ Len(lock') = Len(lock)
    BY <1>1, WithLockFacts
  <1>7. TypeOK' /\ UNCHANGED <<clock, token>>
    BY <1>5, <1>6 DEF LockRow, TypeOK, Moves
  <1> QED
    BY <1>1, <1>5, <1>7 DEF rec

(* The locks of r are released, those of the others are not. *)
LEMMA ReleasedFacts ==
  ASSUME TypeOK, NEW r \in Request
  PROVE  /\ Released(r) \in Seq(Request \cup {NoRequest}) /\ Len(Released(r)) = Len(lock)
         /\ \A i \in DOMAIN token : \A q \in Request \ {r} : lock[i] = q => Released(r)[i] = q
  <1>1. lock \in Seq(Request \cup {NoRequest}) /\ DOMAIN lock = DOMAIN token
        /\ \A i \in DOMAIN lock : lock[i] \in Request \cup {NoRequest}
    BY TypeParts
  <1> DEFINE t == Released(r)
  <1>2. DOMAIN t = DOMAIN lock /\ t = [i \in DOMAIN lock |-> t[i]]
        /\ \A i \in DOMAIN lock : t[i] \in Request \cup {NoRequest}
    BY <1>1 DEF Released
  <1> HIDE DEF t
  <1>3. t \in Seq(Request \cup {NoRequest}) /\ Len(t) = Len(lock)
    BY <1>1, <1>2, RewriteFacts
  <1>4. \A i \in DOMAIN token : \A q \in Request \ {r} : lock[i] = q => t[i] = q
    BY <1>1 DEF t, Released
  <1> QED
    BY <1>3, <1>4 DEF t

(* A commit of request r that inserts row x: the last row of token'. *)
Inserts(x) ==
  /\ DOMAIN token' = 1..(Len(token) + 1) /\ token'[Len(token) + 1] = x
  /\ DOMAIN token = 1..Len(token) /\ Len(token) \in Nat

LEMMA CommitLoginMoves ==
  ASSUME TypeOK, NEW r \in Request, CommitLogin(r)
  PROVE  /\ TypeOK' /\ Moves(r, [req[r] EXCEPT !.pc = "done", !.result = "ok"])
         /\ Inserts(NewRow(req[r].family, clock))
         /\ \A i \in DOMAIN token : token'[i] = token[i] /\ lock'[i] = lock[i]
  <1> DEFINE x   == NewRow(req[r].family, clock)
             S   == Request \cup {NoRequest}
             rec == [req[r] EXCEPT !.pc = "done", !.result = "ok"]
  <1>1. req[r] \in Transaction /\ clock \in Nat /\ req[r].family \in Family
    BY TypeParts, TransactionFacts
  <1>2. x \in Row
    BY <1>1 DEF NewRow, Row, Null
  <1>3. rec \in Transaction
    BY <1>1, Progress DEF PC, Result
  <1>4. /\ token' = Append(token, x) /\ lock' = Append(lock, NoRequest)
        /\ req' = [req EXCEPT ![r] = rec] /\ UNCHANGED <<clock, active, duty, userLock, taken>>
    BY DEF CommitLogin
  <1>5. token \in Seq(Row) /\ lock \in Seq(S) /\ DOMAIN lock = DOMAIN token /\ NoRequest \in S
        /\ Len(lock) = Len(token)
    BY TypeParts DEF TypeOK
  <1> HIDE DEF x, S, rec
  <1>6. Moves(r, rec)
    BY <1>3, <1>4, MovesIf
  <1>7. /\ token' \in Seq(Row) /\ Len(token') = Len(token) + 1 /\ Inserts(x)
        /\ \A i \in DOMAIN token : token'[i] = token[i]
    BY <1>2, <1>4, <1>5, AppendFacts DEF Inserts
  <1>8. /\ lock' \in Seq(S) /\ Len(lock') = Len(lock) + 1
        /\ \A i \in DOMAIN token : lock'[i] = lock[i]
    BY <1>4, <1>5, AppendFacts
  <1>9. TypeOK'
    BY <1>4, <1>5, <1>6, <1>7, <1>8 DEF TypeOK, Moves, S
  <1> QED
    BY <1>6, <1>7, <1>8, <1>9 DEF rec, x

LEMMA CommitRotateMoves ==
  ASSUME TypeOK, NEW r \in Request, CommitRotate(r), PresentedRow(r)
  PROVE  LET i == req[r].tok IN
         /\ TypeOK' /\ Moves(r, [req[r] EXCEPT !.pc = "done"])
         /\ Inserts(NewRow(req[r].family, req[r].activity))
         /\ token'[i] = RotatedOut(token[i], req[r].time)
         /\ \A k \in DOMAIN token \ {i} : token'[k] = token[k]
         /\ \A k \in DOMAIN token : \A q \in Request \ {r} : lock[k] = q => lock'[k] = q
  <1> DEFINE i   == req[r].tok
             x   == NewRow(req[r].family, req[r].activity)
             old == RotatedOut(token[i], req[r].time)
             t   == [token EXCEPT ![i] = old]
             S   == Request \cup {NoRequest}
             rec == [req[r] EXCEPT !.pc = "done"]
  <1>1. /\ req[r] \in Transaction /\ clock \in Nat /\ req[r].family \in Family
        /\ req[r].activity \in Nat /\ req[r].time \in Nat
        /\ i \in DOMAIN token /\ token \in Seq(Row) /\ Len(token) \in Nat
        /\ \A k \in DOMAIN token : token[k] \in Row
    BY TypeParts, TransactionFacts DEF PresentedRow
  <1>2. x \in Row
    BY <1>1 DEF NewRow, Row, Null
  <1>3. old \in Row
    <2>1. token[i] \in Row /\ Len(token) + 1 \in Nat
      BY <1>1
    <2> QED
      BY <1>1, <2>1 DEF RotatedOut, Row
  <1>4. rec \in Transaction
    BY <1>1 DEF Transaction, PC
  <1>5. /\ token' = Append(t, x) /\ lock' = Append(Released(r), NoRequest)
        /\ req' = [req EXCEPT ![r] = rec] /\ UNCHANGED <<clock, active, duty, userLock, taken>>
    BY DEF CommitRotate, CarriedActivity
  <1>6. /\ Released(r) \in Seq(S) /\ Len(Released(r)) = Len(token) /\ NoRequest \in S
        /\ \A k \in DOMAIN token : \A q \in Request \ {r} : lock[k] = q => Released(r)[k] = q
    BY ReleasedFacts DEF TypeOK
  <1> HIDE DEF S, rec, x, old
  <1>7. /\ DOMAIN t = DOMAIN token /\ t = [k \in DOMAIN token |-> t[k]]
        /\ \A k \in DOMAIN token : t[k] \in Row
        /\ t[i] = old /\ \A k \in DOMAIN token \ {i} : t[k] = token[k]
    BY <1>1, <1>3
  <1> HIDE DEF t
  <1>8. t \in Seq(Row) /\ Len(t) = Len(token)
    BY <1>1, <1>7, RewriteFacts
  <1>9. Moves(r, rec)
    BY <1>4, <1>5, MovesIf
  <1>10. /\ token' \in Seq(Row) /\ Len(token') = Len(token) + 1 /\ Inserts(x)
         /\ token'[i] = old /\ \A k \in DOMAIN token \ {i} : token'[k] = token[k]
    <2>1. /\ token' \in Seq(Row) /\ Len(token') = Len(t) + 1
          /\ DOMAIN t = 1..Len(t) /\ DOMAIN token' = 1..(Len(t) + 1)
          /\ token'[Len(t) + 1] = x /\ \A k \in 1..Len(t) : token'[k] = t[k]
      BY <1>2, <1>5, <1>8, AppendFacts
    <2> QED
      BY <1>1, <1>7, <1>8, <2>1 DEF Inserts
  <1>11. /\ lock' \in Seq(S) /\ Len(lock') = Len(token) + 1
         /\ \A k \in DOMAIN token : lock'[k] = Released(r)[k]
    <2>1. DOMAIN token = 1..Len(token)
      BY TypeParts
    <2> QED
      BY <1>5, <1>6, <2>1, AppendFacts
  <1>12. TypeOK'
    BY <1>5, <1>9, <1>10, <1>11 DEF TypeOK, Moves, S
  <1> QED
    BY <1>6, <1>9, <1>10, <1>11, <1>12 DEF rec, x, old

LEMMA CommitUpdateMoves ==
  ASSUME TypeOK, NEW r \in Request, CommitUpdate(r)
  PROVE  /\ TypeOK' /\ Moves(r, [req[r] EXCEPT !.pc = "done"]) /\ DOMAIN token' = DOMAIN token
         /\ \A k \in DOMAIN token :
              /\ token'[k].family = token[k].family /\ token'[k].replaced = token[k].replaced
              /\ token'[k].revoked \in {token[k].revoked, req[r].time}
              /\ ~(k \in req[r].seen /\ IsLive(k)) => token'[k] = token[k]
         /\ \A k \in DOMAIN token : \A q \in Request \ {r} : lock[k] = q => lock'[k] = q
  <1> DEFINE rec == [req[r] EXCEPT !.pc = "done"]
             S   == Request \cup {NoRequest}
             t   == token'
  <1>1. /\ req[r] \in Transaction /\ req[r].time \in Nat /\ token \in Seq(Row)
        /\ \A k \in DOMAIN token : token[k] \in Row
    BY TypeParts, TransactionFacts
  <1>2. /\ t = [k \in DOMAIN token |-> IF k \in req[r].seen /\ StillMatches(k)
                                       THEN Written(req[r], token[k]) ELSE token[k]]
        /\ req' = [req EXCEPT ![r] = rec] /\ lock' = Released(r)
        /\ userLock' \in {NoRequest, userLock} /\ active' \in BOOLEAN
        /\ UNCHANGED <<clock, duty, taken>>
    BY DEF CommitUpdate
  <1>3. ASSUME NEW row \in Row
        PROVE  /\ Written(req[r], row) \in Row
               /\ Written(req[r], row).family = row.family
               /\ Written(req[r], row).replaced = row.replaced
               /\ Written(req[r], row).revoked \in {row.revoked, req[r].time}
    BY <1>1 DEF Written, Row
  <1> HIDE DEF t
  <1>4. /\ DOMAIN t = DOMAIN token
        /\ \A k \in DOMAIN token :
             /\ t[k] \in Row
             /\ t[k].family = token[k].family /\ t[k].replaced = token[k].replaced
             /\ t[k].revoked \in {token[k].revoked, req[r].time}
             /\ ~(k \in req[r].seen /\ IsLive(k)) => t[k] = token[k]
    BY <1>1, <1>2, <1>3 DEF StillMatches
  <1>5. t = [k \in DOMAIN token |-> t[k]]
    BY <1>2, <1>4
  <1>6. t \in Seq(Row) /\ Len(t) = Len(token)
    BY <1>1, <1>4, <1>5, RewriteFacts
  <1>7. rec \in Transaction
    BY <1>1 DEF Transaction, PC
  <1> HIDE DEF rec
  <1>8. Moves(r, rec)
    BY <1>2, <1>7, MovesIf
  <1>9. /\ lock' \in Seq(S) /\ Len(lock') = Len(lock)
        /\ \A k \in DOMAIN token : \A q \in Request \ {r} : lock[k] = q => lock'[k] = q
    BY <1>2, ReleasedFacts
  <1>10. TypeOK'
    BY <1>2, <1>6, <1>8, <1>9 DEF TypeOK, Moves, t
  <1> QED
    BY <1>4, <1>8, <1>9, <1>10 DEF t, rec

-----------------------------------------------------------------------------
(***************************************************************************)
(* Steps and the invariant                                                 *)
(***************************************************************************)
(* A step of the requests R leaves to the others the rows that they have   *)
(* locked, moves no row to another sign-in and makes no revoked row live.  *)
RespectsLocks(R) ==
  /\ \A q \in Request \ R : req'[q] = req[q]
  /\ \A q \in Request \ R : \A i \in DOMAIN token :
       lock[i] = q => lock'[i] = q /\ token'[i] = token[i]
  /\ DOMAIN token \subseteq DOMAIN token'
  /\ \A i \in DOMAIN token : token'[i].family = token[i].family
                             /\ (token'[i].revoked = Null => token[i].revoked = Null)

(* A row that it inserts starts a sign-in that no other request may start, or  *)
(* succeeds a live row of one.                                                 *)
InsertsWell(R) ==
  \A j \in DOMAIN token' \ DOMAIN token :
    /\ \A q \in Request \ R : req[q].pc = "login" => token'[j].family # req[q].family
    /\ \A i \in DOMAIN token : i < j
    /\ RowsOf(token'[j].family) = {} \/ LiveOf(token'[j].family) # {}

LEMMA OthersHold ==
  ASSUME IInv, TypeOK', NEW R, RespectsLocks(R), InsertsWell(R), NEW q \in Request \ R
  PROVE  Holds(q)' /\ EndKnows(q)'
  <1>0. Holds(q) /\ EndKnows(q) /\ req'[q] = req[q] /\ DOMAIN token \subseteq DOMAIN token'
        /\ \A i \in DOMAIN token :
             /\ token'[i].family = token[i].family
             /\ token'[i].revoked = Null => token[i].revoked = Null
             /\ lock[i] = q => lock'[i] = q /\ token'[i] = token[i]
    BY DEF IInv, RespectsLocks
  <1>1. PresentedRow(q) => PresentedRow(q)'
    BY <1>0 DEF PresentedRow
  <1>2. LoginHolds(q)'
    <2> SUFFICES ASSUME req[q].pc = "login", NEW j \in DOMAIN token', token'[j].family = req[q].family
                 PROVE  FALSE
      BY <1>0 DEF LoginHolds, RowsOf
    <2>1. CASE j \in DOMAIN token
      BY <1>0, <2>1 DEF Holds, LoginHolds, RowsOf
    <2>2. CASE j \notin DOMAIN token
      BY <2>2 DEF InsertsWell
    <2> QED
      BY <2>1, <2>2
  <1>3. RowHolds(q)'
    BY <1>0, <1>1 DEF Holds, RowHolds
  <1>4. RotateHolds(q)'
    <2> SUFFICES ASSUME req[q].pc = "rotate" PROVE RotateHolds(q)'
      BY <1>0 DEF RotateHolds
    <2> DEFINE i == req[q].tok
    <2>1. /\ PresentedRow(q) /\ lock[i] = q /\ IsLive(i) /\ token[i].activity = req[q].activity
          /\ req[q].time # Null /\ i \in DOMAIN token
      BY <1>0 DEF Holds, RotateHolds, PresentedRow
    <2>2. lock'[i] = q /\ token'[i] = token[i]
      BY <1>0, <2>1
    <2> QED
      BY <1>0, <1>1, <2>1, <2>2 DEF RotateHolds, IsLive
  <1>5. UserHolds(q)'
    BY <1>0 DEF Holds, UserHolds
  <1>6. UpdateHolds(q)'
    BY <1>0, <1>1 DEF Holds, UpdateHolds
  <1>7. EndKnows(q)'
    <2> SUFFICES ASSUME req[q].pc = "update", req[q].kind \in {"refresh", "logout"},
                        NEW j \in DOMAIN token', token'[j].family = req[q].family,
                        token'[j].revoked = Null, j \notin req[q].seen
                 PROVE  \E i \in req[q].seen : i < j /\ token'[i].family = req[q].family
      BY <1>0 DEF EndKnows, LiveOf, RowsOf, IsLive
    <2>0. req[q].seen \subseteq DOMAIN token /\ PresentedRow(q) /\ req[q].seen \subseteq Nat
      BY <1>0, TypeParts DEF Holds, UpdateHolds, IInv
    <2>1. ASSUME NEW k \in LiveOf(req[q].family), k \notin req[q].seen
          PROVE  \E i \in req[q].seen : i < k /\ token'[i].family = req[q].family
      BY <1>0, <2>0, <2>1 DEF EndKnows
    <2>2. CASE j \in DOMAIN token
      <3>1. j \in LiveOf(req[q].family)
        BY <1>0, <2>2 DEF LiveOf, RowsOf, IsLive
      <3> QED
        BY <2>1, <3>1
    <2>3. CASE j \notin DOMAIN token
      <3>1. PICK k \in LiveOf(req[q].family) : k < j
        <4>1. RowsOf(req[q].family) # {}
          BY <2>0 DEF PresentedRow, RowsOf
        <4> QED
          BY <2>3, <4>1 DEF InsertsWell, LiveOf, RowsOf
      <3>2. k \in Nat /\ j \in Nat /\ k \in DOMAIN token
        <4>1. DOMAIN token' \subseteq Nat
          <5>1. token' \in Seq(Row)
            BY DEF TypeOK
          <5> QED
            BY <5>1
        <4>2. DOMAIN token \subseteq Nat
          BY TypeParts DEF IInv
        <4> QED
          BY <4>1, <4>2 DEF LiveOf, RowsOf
      <3>3. CASE k \in req[q].seen
        <4>1. token[k].family = req[q].family
          BY DEF LiveOf, RowsOf
        <4> QED
          BY <1>0, <3>1, <3>2, <3>3, <4>1
      <3>4. CASE k \notin req[q].seen
        <4>1. PICK i \in req[q].seen : i < k /\ token'[i].family = req[q].family
          BY <2>1, <3>4
        <4>2. i \in Nat
          BY <2>0
        <4> QED
          BY <3>1, <3>2, <4>1, <4>2
      <3> QED
        BY <3>3, <3>4
    <2> QED
      BY <2>2, <2>3
  <1> QED
    BY <1>2, <1>3, <1>4, <1>5, <1>6, <1>7 DEF Holds

(* Logins stay apart when one request moves and does not begin to sign in. *)
LEMMA StillApart ==
  ASSUME IInv, NEW R, RespectsLocks(R), \A r \in R \cap Request : req'[r].pc # "login"
  PROVE  LoginsApart'
  BY DEF IInv, LoginsApart, RespectsLocks

(* A step that writes no row. *)
LEMMA QuietStep ==
  ASSUME IInv, TypeOK', NEW R, UNCHANGED token,
         \A q \in Request \ R : req'[q] = req[q] /\ \A i \in DOMAIN token : lock[i] = q => lock'[i] = q,
         \A r \in R \cap Request : Holds(r)' /\ EndKnows(r)',
         LoginsApart'
  PROVE  IInv'
  <1>1. RespectsLocks(R) /\ InsertsWell(R)
    BY DEF RespectsLocks, InsertsWell
  <1>2. \A q \in Request : Holds(q)' /\ EndKnows(q)'
    BY <1>1, OthersHold
  <1>3. RotationChain'
    BY DEF IInv, RotationChain, RowsOf, IsLive
  <1> QED
    BY <1>2, <1>3 DEF IInv

(* A request that is done holds nothing. *)
LEMMA DoneHolds ==
  ASSUME NEW r \in Request, req'[r].pc = "done"
  PROVE  Holds(r)' /\ EndKnows(r)'
  BY DEF Holds, EndKnows, LoginHolds, RowHolds, RotateHolds, UserHolds, UpdateHolds

(* The chain of a sequence s of rows at row i, without the set of its later rows. *)
Chained(s, i) ==
  LET Later(j) == j \in DOMAIN s /\ s[j].family = s[i].family /\ j > i IN
  \/ s[i].replaced = Null /\ \A j \in DOMAIN s : ~Later(j)
  \/ /\ Later(s[i].replaced) /\ s[i].revoked # Null
     /\ \A j \in DOMAIN s : Later(j) => s[i].replaced <= j

LEMMA ChainIs ==
  /\ RotationChain <=> \A i \in DOMAIN token : Chained(token, i)
  /\ RotationChain' <=> \A i \in DOMAIN token' : Chained(token', i)
  <1>1. ASSUME NEW i \in DOMAIN token
        PROVE  Chained(token, i) <=>
                 LET later == {j \in RowsOf(token[i].family) : j > i} IN
                 IF later = {} THEN token[i].replaced = Null
                 ELSE /\ token[i].replaced \in later
                      /\ \A j \in later : token[i].replaced <= j
                      /\ ~IsLive(i)
    BY DEF Chained, RowsOf, IsLive
  <1>2. ASSUME NEW i \in DOMAIN token'
        PROVE  Chained(token', i) <=>
                 LET later == {j \in {k \in DOMAIN token' : token'[k].family = token'[i].family} : j > i} IN
                 IF later = {} THEN token'[i].replaced = Null
                 ELSE /\ token'[i].replaced \in later
                      /\ \A j \in later : token'[i].replaced <= j
                      /\ ~(token'[i].revoked = Null)
    BY DEF Chained
  <1>3. RotationChain <=> \A i \in DOMAIN token : Chained(token, i)
    BY <1>1 DEF RotationChain
  <1>4. RotationChain' <=> \A i \in DOMAIN token' : Chained(token', i)
    BY <1>2 DEF RotationChain, RowsOf, IsLive
  <1> QED
    BY <1>3, <1>4

LEMMA CommitLoginStep ==
  ASSUME IInv, NEW r \in Request, CommitLogin(r)
  PROVE  IInv'
  <1> DEFINE n == Len(token)
             f == req[r].family
             x == NewRow(f, clock)
  <1>1. /\ TypeOK' /\ \A q \in Request \ {r} : req'[q] = req[q]
        /\ req'[r] = [req[r] EXCEPT !.pc = "done", !.result = "ok"]
        /\ Inserts(x) /\ \A i \in DOMAIN token : token'[i] = token[i] /\ lock'[i] = lock[i]
    BY CommitLoginMoves DEF IInv, Moves
  <1>2. req'[r].pc = "done"
    BY <1>1, TypeParts DEF IInv, Transaction
  <1>3. x.family = f /\ x.replaced = Null
    BY DEF NewRow
  <1> HIDE DEF x
  <1>4. RowsOf(f) = {} /\ req[r].pc = "login"
    BY DEF IInv, Holds, LoginHolds, CommitLogin
  <1>5. RespectsLocks({r})
    BY <1>1 DEF RespectsLocks, Inserts
  <1>6. InsertsWell({r})
    <2> SUFFICES ASSUME NEW j \in DOMAIN token' \ DOMAIN token
                 PROVE  /\ \A q \in Request \ {r} : req[q].pc = "login" => token'[j].family # req[q].family
                        /\ \A i \in DOMAIN token : i < j
                        /\ RowsOf(token'[j].family) = {}
      BY DEF InsertsWell
    <2>1. j = n + 1 /\ token'[j].family = f
      BY <1>1, <1>3 DEF Inserts
    <2> QED
      BY <1>1, <1>4, <2>1 DEF Inserts, IInv, LoginsApart
  <1>7. \A q \in Request : Holds(q)' /\ EndKnows(q)'
    <2>1. \A q \in Request \ {r} : Holds(q)' /\ EndKnows(q)'
      BY <1>1, <1>5, <1>6, OthersHold
    <2>2. Holds(r)' /\ EndKnows(r)'
      BY <1>2, DoneHolds
    <2> QED
      BY <2>1, <2>2
  <1>8. LoginsApart'
    BY <1>2, <1>5, StillApart
  <1>9. RotationChain'
    <2>1. DOMAIN token' = DOMAIN token \cup {n + 1} /\ \A i \in DOMAIN token : i < n + 1
      BY <1>1 DEF Inserts
    <2>2. \A i \in DOMAIN token : token[i].family # f /\ token'[i] = token[i]
      BY <1>1, <1>4 DEF RowsOf
    <2>3. token'[n + 1] = x /\ n + 1 \in Nat
      BY <1>1 DEF Inserts
    <2>4. \A i \in DOMAIN token : Chained(token, i)
      BY ChainIs DEF IInv
    <2> SUFFICES ASSUME NEW i \in DOMAIN token' PROVE Chained(token', i)
      BY ChainIs
    <2> HIDE DEF n, f
    <2>5. CASE i = n + 1
      <3>1. \A j \in DOMAIN token' : ~(j > n + 1)
        BY <1>1, <2>1, <2>3 DEF Inserts, n
      <3> QED
        BY <1>3, <2>3, <2>5, <3>1 DEF Chained
    <2>6. CASE i \in DOMAIN token
      BY <1>3, <2>1, <2>2, <2>3, <2>4, <2>6 DEF Chained
    <2> QED
      BY <2>1, <2>5, <2>6
  <1> QED
    BY <1>1, <1>7, <1>8, <1>9 DEF IInv

(* What the invariant knows of a row that is being rotated, and what its commit writes. *)
LEMMA Rotation ==
  ASSUME IInv, NEW r \in Request, CommitRotate(r)
  PROVE  LET i == req[r].tok
             n == Len(token) + 1
             f == req[r].family IN
         /\ TypeOK' /\ \A q \in Request \ {r} : req'[q] = req[q]
         /\ req'[r].pc = "done"
         /\ DOMAIN token = 1..Len(token) /\ Len(token) \in Nat /\ DOMAIN token' = 1..n
         /\ i \in DOMAIN token /\ token[i].family = f /\ IsLive(i) /\ lock[i] = r
         /\ {j \in RowsOf(f) : j > i} = {} /\ token[i].replaced = Null
         /\ token'[i].family = f /\ token'[i].revoked # Null /\ token'[i].replaced = n
         /\ token'[n].family = f /\ token'[n].replaced = Null
         /\ token'[n].activity = token[i].activity
         /\ \A k \in DOMAIN token \ {i} : token'[k] = token[k]
         /\ \A k \in DOMAIN token : \A q \in Request \ {r} : lock[k] = q => lock'[k] = q
  <1> DEFINE i == req[r].tok
             n == Len(token) + 1
             f == req[r].family
             x == NewRow(f, req[r].activity)
  <1>1. /\ PresentedRow(r) /\ lock[i] = r /\ IsLive(i)
        /\ token[i].activity = req[r].activity /\ req[r].time # Null
    BY DEF IInv, Holds, RotateHolds, CommitRotate
  <1>2. /\ TypeOK' /\ \A q \in Request \ {r} : req'[q] = req[q]
        /\ req'[r] = [req[r] EXCEPT !.pc = "done"]
        /\ Inserts(x) /\ token'[i] = RotatedOut(token[i], req[r].time)
        /\ \A k \in DOMAIN token \ {i} : token'[k] = token[k]
        /\ \A k \in DOMAIN token : \A q \in Request \ {r} : lock[k] = q => lock'[k] = q
    BY <1>1, CommitRotateMoves DEF IInv, Moves
  <1>3. req'[r].pc = "done"
    BY <1>2, TypeParts DEF IInv, Transaction
  <1>4. x.family = f /\ x.replaced = Null /\ x.activity = req[r].activity
    BY DEF NewRow
  <1>5. i \in DOMAIN token /\ token[i] \in Row /\ token[i].family = f
    BY <1>1, TypeParts DEF IInv, PresentedRow
  <1>6. token'[i].family = f /\ token'[i].revoked # Null /\ token'[i].replaced = n
    BY <1>1, <1>2, <1>5 DEF RotatedOut, Row
  <1>7. {j \in RowsOf(f) : j > i} = {} /\ token[i].replaced = Null
    BY <1>1, <1>5 DEF IInv, RotationChain
  <1> QED
    BY <1>1, <1>2, <1>3, <1>4, <1>5, <1>6, <1>7 DEF Inserts

LEMMA CommitRotateStep ==
  ASSUME IInv, NEW r \in Request, CommitRotate(r)
  PROVE  IInv'
  <1> DEFINE i == req[r].tok
             n == Len(token) + 1
             f == req[r].family
  <1>1. /\ TypeOK' /\ \A q \in Request \ {r} : req'[q] = req[q]
        /\ req'[r].pc = "done"
        /\ DOMAIN token = 1..Len(token) /\ Len(token) \in Nat /\ DOMAIN token' = 1..n
        /\ i \in DOMAIN token /\ token[i].family = f /\ IsLive(i) /\ lock[i] = r
        /\ {j \in RowsOf(f) : j > i} = {} /\ token[i].replaced = Null
        /\ token'[i].family = f /\ token'[i].revoked # Null /\ token'[i].replaced = n
        /\ token'[n].family = f /\ token'[n].replaced = Null
        /\ token'[n].activity = token[i].activity
        /\ \A k \in DOMAIN token \ {i} : token'[k] = token[k]
        /\ \A k \in DOMAIN token : \A q \in Request \ {r} : lock[k] = q => lock'[k] = q
    BY Rotation
  <1> HIDE DEF i, f
  <1>2. RespectsLocks({r})
    BY <1>1 DEF RespectsLocks
  <1>3. i \in LiveOf(f)
    BY <1>1 DEF LiveOf, RowsOf
  <1>4. InsertsWell({r})
    <2> SUFFICES ASSUME NEW j \in DOMAIN token' \ DOMAIN token
                 PROVE  /\ \A q \in Request \ {r} : req[q].pc = "login" => token'[j].family # req[q].family
                        /\ \A k \in DOMAIN token : k < j
                        /\ LiveOf(token'[j].family) # {}
      BY DEF InsertsWell
    <2>1. j = n /\ token'[j].family = f
      BY <1>1
    <2>2. \A q \in Request : req[q].pc = "login" => f # req[q].family
      <3>1. \A q \in Request : LoginHolds(q)
        BY DEF IInv, Holds
      <3> QED
        BY <1>3, <3>1 DEF LoginHolds, LiveOf
    <2> QED
      BY <1>1, <1>3, <2>1, <2>2
  <1>5. \A q \in Request : Holds(q)' /\ EndKnows(q)'
    BY <1>1, <1>2, <1>4, OthersHold, DoneHolds
  <1>6. LoginsApart'
    BY <1>1, <1>2, StillApart
  <1>7. RotationChain'
    <2>1. DOMAIN token' = DOMAIN token \cup {n} /\ n \in Nat /\ DOMAIN token \subseteq Nat
          /\ \A k \in DOMAIN token : k < n
      BY <1>1
    <2>2. /\ i \in DOMAIN token /\ token[i].family = f /\ token[i].revoked = Null
          /\ token'[i].family = f /\ token'[i].revoked # Null /\ token'[i].replaced = n
          /\ token'[n].family = f /\ token'[n].replaced = Null
          /\ \A k \in DOMAIN token \ {i} : token'[k] = token[k]
      BY <1>1 DEF IsLive
    <2>3. \A k \in DOMAIN token : Chained(token, k)
      BY ChainIs DEF IInv
    <2>4. \A j \in DOMAIN token : ~(token[j].family = f /\ j > i)
      BY <1>1 DEF RowsOf
    <2> SUFFICES ASSUME NEW k \in DOMAIN token' PROVE Chained(token', k)
      BY ChainIs
    <2> HIDE DEF n
    <2>5. CASE k = n
      BY <2>1, <2>2, <2>5 DEF Chained
    <2>6. CASE k = i
      BY <2>1, <2>2, <2>4, <2>6 DEF Chained
    <2>7. CASE k \in DOMAIN token /\ k # i /\ token[k].family = f
      <3>1. k < i
        BY <2>1, <2>2, <2>4, <2>7
      <3>2. /\ token[k].replaced \in DOMAIN token /\ token[token[k].replaced].family = f
            /\ token[k].replaced > k /\ token[k].revoked # Null
            /\ \A j \in DOMAIN token : token[j].family = f /\ j > k => token[k].replaced <= j
        BY <2>2, <2>3, <2>7, <3>1 DEF Chained
      <3>3. token'[k] = token[k] /\ \A j \in DOMAIN token : token'[j].family = token[j].family
        BY <2>2, <2>7
      <3>4. token[k].replaced <= n
        BY <2>1, <3>2
      <3> QED
        BY <2>1, <2>2, <2>7, <3>2, <3>3, <3>4 DEF Chained
    <2>8. CASE k \in DOMAIN token /\ token[k].family # f
      <3>1. token'[k] = token[k] /\ \A j \in DOMAIN token : token'[j].family = token[j].family
        BY <2>2, <2>8
      <3> QED
        BY <2>1, <2>2, <2>3, <2>8, <3>1 DEF Chained
    <2> QED
      BY <2>1, <2>5, <2>6, <2>7, <2>8
  <1> QED
    BY <1>1, <1>5, <1>6, <1>7 DEF IInv

(* What the invariant knows of a row that an UPDATE writes: nobody else has locked it. *)
LEMMA Update ==
  ASSUME IInv, NEW r \in Request, CommitUpdate(r)
  PROVE  /\ TypeOK' /\ \A q \in Request \ {r} : req'[q] = req[q]
         /\ req'[r].pc = "done" /\ DOMAIN token' = DOMAIN token
         /\ \A k \in DOMAIN token :
              /\ token'[k].family = token[k].family /\ token'[k].replaced = token[k].replaced
              /\ token[k].revoked # Null => token'[k] = token[k]
              /\ token'[k].revoked = Null => token[k].revoked = Null
         /\ RespectsLocks({r})
  <1>1. /\ TypeOK' /\ \A q \in Request \ {r} : req'[q] = req[q]
        /\ req'[r] = [req[r] EXCEPT !.pc = "done"]
        /\ DOMAIN token' = DOMAIN token
        /\ \A k \in DOMAIN token :
             /\ token'[k].family = token[k].family /\ token'[k].replaced = token[k].replaced
             /\ token'[k].revoked \in {token[k].revoked, req[r].time}
             /\ ~(k \in req[r].seen /\ IsLive(k)) => token'[k] = token[k]
        /\ \A k \in DOMAIN token : \A q \in Request \ {r} : lock[k] = q => lock'[k] = q
    BY CommitUpdateMoves DEF IInv, Moves
  <1>2. \A k \in req[r].seen : lock[k] = r
    BY DEF IInv, Holds, UpdateHolds, CommitUpdate
  <1>3. req[r].time # Null
    BY DEF IInv, Holds, UpdateHolds, CommitUpdate
  <1>4. req'[r].pc = "done"
    BY <1>1, TypeParts DEF IInv, Transaction
  <1>5. \A k \in DOMAIN token : \A q \in Request \ {r} : lock[k] = q => token'[k] = token[k]
    BY <1>1, <1>2
  <1> QED
    BY <1>1, <1>3, <1>4, <1>5 DEF RespectsLocks, IsLive

LEMMA CommitUpdateStep ==
  ASSUME IInv, NEW r \in Request, CommitUpdate(r)
  PROVE  IInv'
  <1>1. /\ TypeOK' /\ req'[r].pc = "done" /\ RespectsLocks({r}) /\ DOMAIN token' = DOMAIN token
        /\ \A k \in DOMAIN token :
             /\ token'[k].family = token[k].family /\ token'[k].replaced = token[k].replaced
             /\ token'[k].revoked = Null => token[k].revoked = Null
    BY Update
  <1>2. InsertsWell({r})
    BY <1>1 DEF InsertsWell
  <1>3. \A q \in Request : Holds(q)' /\ EndKnows(q)'
    BY <1>1, <1>2, OthersHold, DoneHolds
  <1>4. LoginsApart'
    BY <1>1, StillApart
  <1>5. \A f : RowsOf(f)' = RowsOf(f)
    BY <1>1 DEF RowsOf
  <1>6. RotationChain'
    BY <1>1, <1>5 DEF IInv, RotationChain, IsLive
  <1> QED
    BY <1>1, <1>3, <1>4, <1>6 DEF IInv

-----------------------------------------------------------------------------
(* A request that arrives, or goes on without writing a row, as the invariant sees it. *)
LEMMA MoveStep ==
  ASSUME IInv, TypeOK', UNCHANGED token, NEW r \in Request, NEW rec, Moves(r, rec),
         \A q \in Request \ {r} : \A i \in DOMAIN token : lock[i] = q => lock'[i] = q,
         Holds(r)', EndKnows(r)',
         rec.pc = "login" => \A q \in Request \ {r} : req[q].pc = "login" => rec.family # req[q].family
  PROVE  IInv'
  <1>1. \A q \in Request \ {r} : req'[q] = req[q] /\ \A i \in DOMAIN token : lock[i] = q => lock'[i] = q
    BY DEF Moves
  <1>2. \A q \in {r} \cap Request : Holds(q)' /\ EndKnows(q)'
    OBVIOUS
  <1>3. LoginsApart'
    BY DEF IInv, LoginsApart, Moves
  <1> QED
    BY <1>1, <1>2, <1>3, QuietStep

(* The UPDATE of a request that begins: it has found some rows, all of its sign-in *)
(* if it is a refresh or a logout.                                                 *)
LEMMA UpdateBegins ==
  ASSUME IInv, TypeOK', UNCHANGED <<clock, token>>, NEW r \in Request, NEW rec, Moves(r, rec),
         rec.pc = "update", rec.seen \subseteq DOMAIN token, rec.todo = rec.seen, rec.time = clock,
         rec.kind \in {"refresh", "logout"} =>
           /\ rec.tok \in DOMAIN token /\ token[rec.tok].family = rec.family
           /\ rec.seen = LiveOf(rec.family),
         \A q \in Request \ {r} : \A i \in DOMAIN token : lock[i] = q => lock'[i] = q
  PROVE  IInv'
  <1>1. req'[r] = rec /\ clock # Null
    BY TypeParts DEF Moves, IInv
  <1>2. Holds(r)'
    BY <1>1 DEF Holds, LoginHolds, RowHolds, RotateHolds, UserHolds, UpdateHolds, PresentedRow
  <1>3. EndKnows(r)'
    BY <1>1 DEF EndKnows, LiveOf, RowsOf, IsLive
  <1> QED
    BY <1>2, <1>3, MoveStep

LEMMA ReceiveStep == ASSUME IInv, NEW r \in Request, Receive(r) PROVE IInv'
  <1>0. /\ TypeOK /\ \A f \in Family : RowsOf(f) \subseteq DOMAIN token
        /\ \A i \in DOMAIN token : i \in Nat /\ token[i].family \in Family
    BY TypeParts, RowFacts DEF IInv, RowsOf
  <1>1. ASSUME NEW rec \in Transaction, Arrive(r, rec)
        PROVE  /\ TypeOK' /\ Moves(r, rec) /\ UNCHANGED <<clock, token>>
               /\ req'[r] = rec
               /\ \A q \in Request \ {r} : \A i \in DOMAIN token : lock[i] = q => lock'[i] = q
    BY <1>0, <1>1, ArriveMoves DEF Moves, locks
  <1>2. ASSUME NEW f \in Family, StartLogin(r, f) PROVE IInv'
    <2> DEFINE rec == Fresh("login", "login", Null, f)
    <2>1. rec \in Transaction /\ rec.pc = "login" /\ rec.family = f
      BY NameFacts, FreshFacts
    <2>2. /\ Arrive(r, rec) /\ RowsOf(f) = {}
          /\ \A q \in Request : req[q].pc = "login" => req[q].family # f
      BY <1>2 DEF StartLogin
    <2> HIDE DEF rec
    <2>3. Holds(r)' /\ EndKnows(r)'
      BY <1>1, <2>1, <2>2 DEF Holds, EndKnows, LoginHolds, RowHolds, RotateHolds, UserHolds, UpdateHolds, RowsOf
    <2> QED
      BY <1>1, <2>1, <2>2, <2>3, MoveStep
  <1>3. ASSUME NEW f \in Family, StartHeartbeat(r, f) PROVE IInv'
    <2> DEFINE fresh == Fresh("heartbeat", "update", Null, f)
               rec   == Updating(fresh, FamilyRows(fresh))
    <2>1. fresh \in Transaction /\ fresh.kind = "heartbeat"
      BY NameFacts, FreshFacts
    <2> HIDE DEF fresh
    <2>2. /\ rec \in Transaction /\ rec.pc = "update" /\ rec.kind = "heartbeat" /\ rec.time = clock
          /\ rec.seen \subseteq DOMAIN token /\ rec.todo = rec.seen
      BY <1>0, <2>1, RowSets, UpdatingFacts
    <2>3. Arrive(r, rec)
      BY <1>3 DEF StartHeartbeat, fresh
    <2> HIDE DEF rec
    <2> QED
      BY <1>1, <2>2, <2>3, UpdateBegins
  <1>4. ASSUME NEW i \in DOMAIN token, StartRefresh(r, i) PROVE IInv'
    <2> DEFINE rec == Fresh("refresh", "row", i, token[i].family)
    <2>1. /\ rec \in Transaction /\ rec.pc = "row" /\ rec.kind = "refresh"
          /\ rec.tok = i /\ rec.family = token[i].family
      BY <1>0, NameFacts, FreshFacts
    <2>2. Arrive(r, rec)
      BY <1>4 DEF StartRefresh
    <2> HIDE DEF rec
    <2>3. Holds(r)' /\ EndKnows(r)'
      BY <1>1, <2>1, <2>2 DEF Holds, EndKnows, LoginHolds, RowHolds, RotateHolds, UserHolds,
                              UpdateHolds, PresentedRow
    <2> QED
      BY <1>1, <2>1, <2>2, <2>3, MoveStep
  <1>5. ASSUME NEW i \in DOMAIN token, StartLogout(r, i) PROVE IInv'
    <2> DEFINE fresh == Fresh("logout", "update", i, token[i].family)
               rec   == Updating(fresh, FamilyRows(fresh))
    <2>1. /\ fresh \in Transaction /\ fresh.tok = i /\ fresh.family = token[i].family
      BY <1>0, NameFacts, FreshFacts
    <2>2. Arrive(r, rec)
      BY <1>5 DEF StartLogout
    <2> HIDE DEF fresh
    <2>3. /\ rec \in Transaction /\ rec.pc = "update" /\ rec.time = clock
          /\ rec.tok = i /\ rec.family = token[i].family
          /\ rec.seen = LiveOf(rec.family) /\ rec.todo = rec.seen /\ rec.seen \subseteq DOMAIN token
      BY <1>0, <2>1, RowSets, UpdatingFacts
    <2> HIDE DEF rec
    <2> QED
      BY <1>1, <2>2, <2>3, UpdateBegins
  <1>6. ASSUME NEW f \in Family, NEW kind \in AdminKind, StartAdmin(r, kind, f) PROVE IInv'
    <2> DEFINE rec == Fresh(kind, "user", Null, f)
    <2>1. rec \in Transaction /\ rec.pc = "user" /\ rec.kind = kind
      BY NameFacts, FreshFacts
    <2>2. Arrive(r, rec)
      BY <1>6 DEF StartAdmin
    <2> HIDE DEF rec
    <2>3. Holds(r)' /\ EndKnows(r)'
      BY <1>1, <2>1, <2>2 DEF Holds, EndKnows, LoginHolds, RowHolds, RotateHolds, UserHolds, UpdateHolds
    <2> QED
      BY <1>1, <2>1, <2>2, <2>3, MoveStep
  <1> QED
    BY <1>2, <1>3, <1>4, <1>5, <1>6 DEF Receive

LEMMA WorkStep == ASSUME IInv, NEW r \in Request, Work(r) PROVE IInv'
  <1>0. TypeOK /\ req[r] \in Transaction /\ Holds(r) /\ EndKnows(r)
    BY TypeParts DEF IInv
  <1>1. CASE LockUser(r)
    <2> DEFINE rec == Updating(req[r], UserRows(req[r]))
    <2>1. /\ TypeOK' /\ Moves(r, rec) /\ UNCHANGED <<clock, token, lock>>
      BY <1>0, <1>1, LockUserMoves
    <2>2. /\ rec.pc = "update" /\ rec.kind = req[r].kind /\ rec.time = clock
          /\ rec.seen \subseteq DOMAIN token /\ rec.todo = rec.seen
      BY <1>0, RowSets, UpdatingFacts
    <2>3. req[r].kind \in AdminKind
      BY <1>0, <1>1 DEF LockUser, Holds, UserHolds
    <2> HIDE DEF rec
    <2> QED
      BY <2>1, <2>2, <2>3, UpdateBegins DEF AdminKind
  <1>2. CASE LockToken(r)
    <2> DEFINE i == req[r].tok
    <2>0. PresentedRow(r) /\ req[r].kind = "refresh" /\ i \in DOMAIN token
      BY <1>0, <1>2 DEF LockToken, Holds, RowHolds, PresentedRow
    <2>1. PICK rec \in Transaction :
            /\ TypeOK' /\ Moves(r, rec) /\ UNCHANGED <<clock, token>>
            /\ rec.tok = i /\ rec.family = req[r].family /\ rec.kind = req[r].kind
            /\ \/ rec.pc = "done" /\ UNCHANGED lock
               \/ /\ rec.pc = "update" /\ rec.time = clock
                  /\ rec.seen = LiveOf(rec.family) /\ rec.todo = LiveOf(rec.family)
                  /\ lock[i] = NoRequest /\ lock' = WithLock(i, r)
               \/ /\ rec.pc = "rotate" /\ rec.time = clock
                  /\ IsLive(i) /\ rec.activity = token[i].activity
                  /\ lock[i] = NoRequest /\ lock' = WithLock(i, r)
      BY <1>0, <1>2, <2>0, LockTokenMoves
    <2>2. req'[r] = rec /\ clock # Null
      BY <1>0, <2>1, TypeParts DEF Moves
    <2>3. \A q \in Request \ {r} : \A k \in DOMAIN token : lock[k] = q => lock'[k] = q
      BY <1>0, <2>0, <2>1, WithLockFacts, RequestAssumption
    <2>4. CASE rec.pc = "done"
      <3>1. Holds(r)' /\ EndKnows(r)'
        BY <2>2, <2>4, DoneHolds
      <3> QED
        BY <2>1, <2>3, <2>4, <3>1, MoveStep
    <2>5. CASE rec.pc = "update"
      <3>1. LiveOf(rec.family) \subseteq DOMAIN token
        BY DEF LiveOf, RowsOf
      <3>2. token[rec.tok].family = rec.family
        BY <2>0, <2>1 DEF PresentedRow
      <3> HIDE DEF i
      <3> QED
        BY <2>0, <2>1, <2>3, <2>5, <3>1, <3>2, UpdateBegins
    <2>6. CASE rec.pc = "rotate"
      <3>1. lock'[i] = r /\ PresentedRow(r)'
        BY <1>0, <2>0, <2>1, <2>2, <2>6, WithLockFacts DEF PresentedRow
      <3>2. RotateHolds(r)'
        BY <2>1, <2>2, <2>6, <3>1 DEF RotateHolds, IsLive
      <3>3. Holds(r)' /\ EndKnows(r)'
        BY <2>2, <2>6, <3>2 DEF Holds, EndKnows, LoginHolds, RowHolds, UserHolds, UpdateHolds
      <3> QED
        BY <2>1, <2>3, <2>6, <3>3, MoveStep
    <2> QED
      BY <2>1, <2>4, <2>5, <2>6
  <1>3. CASE LockRow(r)
    <2>0. /\ req[r].pc = "update" /\ UpdateHolds(r) /\ req[r].todo \subseteq DOMAIN token
          /\ req[r].seen \subseteq DOMAIN token
      BY <1>0, <1>3 DEF LockRow, Holds, UpdateHolds
    <2>1. PICK i \in req[r].todo :
            /\ TypeOK' /\ Moves(r, [req[r] EXCEPT !.todo = @ \ {i}])
            /\ UNCHANGED <<clock, token>>
            /\ lock[i] \in {NoRequest, r} /\ lock' = WithLock(i, r)
      BY <1>0, <1>3, <2>0, LockRowMoves
    <2> DEFINE rec == [req[r] EXCEPT !.todo = @ \ {i}]
    <2>2. /\ rec.pc = "update" /\ rec.kind = req[r].kind /\ rec.tok = req[r].tok
          /\ rec.family = req[r].family /\ rec.seen = req[r].seen /\ rec.time = req[r].time
          /\ rec.todo = req[r].todo \ {i}
      BY <1>0, <2>0 DEF Transaction
    <2>3. Moves(r, rec)
      BY <2>1
    <2> HIDE DEF rec
    <2>4. req'[r] = rec
      BY <2>3 DEF Moves
    <2>5. lock'[i] = r /\ \A k \in DOMAIN token \ {i} : lock'[k] = lock[k]
      BY <1>0, <2>0, <2>1, WithLockFacts
    <2>6. UpdateHolds(r)'
      BY <2>0, <2>1, <2>2, <2>4, <2>5 DEF UpdateHolds, PresentedRow
    <2>7. Holds(r)'
      BY <2>2, <2>4, <2>6 DEF Holds, LoginHolds, RowHolds, RotateHolds, UserHolds
    <2>8. EndKnows(r)'
      BY <1>0, <2>0, <2>1, <2>2, <2>4 DEF EndKnows, LiveOf, RowsOf, IsLive
    <2>9. \A q \in Request \ {r} : \A k \in DOMAIN token : lock[k] = q => lock'[k] = q
      BY <2>1, <2>5, RequestAssumption
    <2> QED
      BY <2>1, <2>2, <2>3, <2>7, <2>8, <2>9, MoveStep
  <1> QED
    BY <1>1, <1>2, <1>3, CommitLoginStep, CommitRotateStep, CommitUpdateStep DEF Work

LEMMA InitIInv == Init => IInv
  <1> SUFFICES ASSUME Init PROVE IInv
    OBVIOUS
  <1>1. PICK f \in Family : req = [r \in Request |-> Fresh("none", "done", Null, f)]
    BY DEF Init
  <1>2. Fresh("none", "done", Null, f) \in Transaction /\ Fresh("none", "done", Null, f).pc = "done"
    BY DEF Fresh, Transaction, Kind, PC, Result, Null
  <1>3. req \in [Request -> Transaction] /\ \A r \in Request : req[r].pc = "done"
    BY <1>1, <1>2
  <1>4. token = <<>> /\ lock = <<>> /\ token \in Seq(Row) /\ lock \in Seq(Request \cup {NoRequest})
        /\ Len(lock) = Len(token)
    BY DEF Init
  <1>5. TypeOK
    BY <1>3, <1>4 DEF Init, TypeOK, Null
  <1>6. \A r \in Request : Holds(r) /\ EndKnows(r)
    BY <1>3 DEF Holds, EndKnows, LoginHolds, RowHolds, RotateHolds, UserHolds, UpdateHolds
  <1>7. LoginsApart /\ RotationChain
    BY <1>3, <1>4 DEF LoginsApart, RotationChain
  <1> QED
    BY <1>5, <1>6, <1>7 DEF IInv

(* The steps of nobody's request, and the crash that ends all of them. *)
LEMMA OtherStep ==
  ASSUME IInv, Tick \/ ChangeDuty \/ Reactivate \/ Crash \/ UNCHANGED vars
  PROVE  IInv' /\ UNCHANGED token
  <1>1. TypeOK
    BY DEF IInv
  <1>2. CASE Tick \/ ChangeDuty \/ Reactivate \/ UNCHANGED vars
    <2>1. TypeOK'
      <3>1. UNCHANGED <<token, lock, userLock, req, taken>>
        BY <1>2 DEF Tick, ChangeDuty, Reactivate, vars, locks
      <3>2. clock' \in Nat \ {Null}
        <4>1. clock' = clock + 1 \/ clock' = clock
          BY <1>2 DEF Tick, ChangeDuty, Reactivate, vars
        <4> QED
          BY <1>1, <4>1 DEF TypeOK, Null
      <3>3. active' \in BOOLEAN
        <4>1. active' = active \/ active' = TRUE
          BY <1>2 DEF Tick, ChangeDuty, Reactivate, vars
        <4> QED
          BY <1>1, <4>1 DEF TypeOK
      <3>4. duty' \in BOOLEAN
        <4>1. duty' = duty \/ duty' = ~duty
          BY <1>2 DEF Tick, ChangeDuty, Reactivate, vars
        <4> QED
          BY <1>1, <4>1 DEF TypeOK
      <3> QED
        BY <1>1, <3>1, <3>2, <3>3, <3>4 DEF TypeOK
    <2>2. UNCHANGED <<token, lock, req>>
      BY <1>2 DEF Tick, ChangeDuty, Reactivate, vars, locks
    <2>3. LoginsApart'
      BY <2>2 DEF IInv, LoginsApart
    <2> DEFINE R == {}
    <2>4. \A q \in Request \ R : req'[q] = req[q] /\ \A i \in DOMAIN token : lock[i] = q => lock'[i] = q
      BY <2>2
    <2>5. \A r \in R \cap Request : Holds(r)' /\ EndKnows(r)'
      OBVIOUS
    <2> HIDE DEF R
    <2> QED
      BY <2>1, <2>2, <2>3, <2>4, <2>5, QuietStep
  <1>3. CASE Crash
    <2>1. \A r \in Request : req[r] \in Transaction /\ req[r].family \in Family
      BY <1>1, TypeParts, TransactionFacts
    <2>2. \A r \in Request : /\ Fresh("none", "done", Null, req[r].family) \in Transaction
                             /\ Fresh("none", "done", Null, req[r].family).pc = "done"
      <3>1. "none" \in Kind
        BY DEF Kind
      <3> QED
        BY <2>1, <3>1, NameFacts, FreshFacts
    <2>3. req' \in [Request -> Transaction] /\ \A r \in Request : req'[r].pc = "done"
      BY <1>3, <2>1, <2>2 DEF Crash
    <2>4. lock' \in Seq(Request \cup {NoRequest}) /\ Len(lock') = Len(lock)
      <3> DEFINE S == Request \cup {NoRequest}
      <3>1. lock' = [i \in DOMAIN lock |-> NoRequest] /\ lock \in Seq(S) /\ NoRequest \in S
        BY <1>1, <1>3, TypeParts DEF Crash
      <3>2. DOMAIN lock' = DOMAIN lock /\ lock' = [i \in DOMAIN lock |-> lock'[i]]
            /\ \A i \in DOMAIN lock : lock'[i] \in S
        BY <3>1
      <3> HIDE DEF S
      <3>3. lock' \in Seq(S) /\ Len(lock') = Len(lock)
        BY <3>1, <3>2, RewriteFacts
      <3> QED
        BY <3>3 DEF S
    <2>5. TypeOK' /\ UNCHANGED token
      BY <1>1, <1>3, <2>3, <2>4 DEF TypeOK, Crash
    <2>6. LoginsApart'
      BY <2>3 DEF LoginsApart
    <2>7. \A r \in Request : Holds(r)' /\ EndKnows(r)'
      BY <2>3, DoneHolds
    <2> QED
      BY <2>5, <2>6, <2>7, QuietStep
  <1> QED
    BY <1>2, <1>3 DEF Tick, ChangeDuty, Reactivate, Crash, vars

LEMMA NextIInv == IInv /\ [Next]_vars => IInv'
  BY ReceiveStep, WorkStep, OtherStep DEF Next

(* Rows are written by three commits only. *)
LEMMA Writers ==
  ASSUME IInv, [Next]_vars
  PROVE  UNCHANGED token \/ \E r \in Request : CommitLogin(r) \/ CommitRotate(r) \/ CommitUpdate(r)
  <1>1. ASSUME NEW r \in Request, Receive(r) PROVE UNCHANGED token
    BY <1>1 DEF Receive, StartLogin, StartHeartbeat, StartRefresh, StartLogout, StartAdmin, Arrive
  <1>2. ASSUME NEW r \in Request, LockUser(r) \/ LockToken(r) \/ LockRow(r) PROVE UNCHANGED token
    BY <1>2 DEF LockUser, LockToken, LockRow
  <1> QED
    BY <1>1, <1>2, OtherStep DEF Next, Work

-----------------------------------------------------------------------------
(* The inductive invariant holds in every behaviour: what a transaction read of the *)
(* rows that it has locked stays true until it commits, a crash included.           *)
THEOREM Invariant == Spec => []IInv
  BY InitIInv, NextIInv, PTL DEF Spec

(* The rows of a sign-in form one chain, each replaced by the next: of requests     *)
(* that present the same token at once only one rotates it (RotationChain).         *)
THEOREM OneChain == Spec => []RotationChain
  <1>1. IInv => RotationChain
    BY DEF IInv
  <1> QED
    BY <1>1, Invariant, PTL

(* A sign-in has at most one token that can be refreshed (OneLivePerFamily). *)
THEOREM OneLive == Spec => []OneLivePerFamily
  <1>1. IInv => OneLivePerFamily
    <2> SUFFICES ASSUME IInv, NEW i \in DOMAIN token, NEW j \in DOMAIN token,
                        token[i].family = token[j].family, IsLive(i), IsLive(j), i < j
                 PROVE  FALSE
      <3>1. \A i, j \in DOMAIN token : i < j \/ i = j \/ j < i
        BY TypeParts DEF IInv
      <3> QED
        BY <3>1 DEF OneLivePerFamily
    <2>1. Chained(token, i)
      BY ChainIs DEF IInv
    <2> QED
      BY <2>1 DEF Chained, IsLive
  <1> QED
    BY <1>1, Invariant, PTL

(* The only live row that an end of a sign-in can miss is the successor of one that *)
(* it found, of a refresh that committed meanwhile (EndMissesOnlySuccessors).       *)
THEOREM EndMisses == Spec => []EndMissesOnlySuccessors
  <1>1. IInv => EndMissesOnlySuccessors
    BY DEF IInv, EndKnows, EndMissesOnlySuccessors
  <1> QED
    BY <1>1, Invariant, PTL

(* A sign-in that was ended gets no live token again, also when a refresh or an     *)
(* administrator is under way (EndedStaysEnded).                                    *)
THEOREM EndedForGood == Spec => EndedStaysEnded
  <1>1. ASSUME IInv, [Next]_vars
        PROVE  [\A f \in Family : RowsOf(f) # {} /\ LiveOf(f) = {} => LiveOf(f)' = {}]_vars
    <2> SUFFICES ASSUME NEW f \in Family, RowsOf(f) # {}, LiveOf(f) = {} PROVE LiveOf(f)' = {}
      OBVIOUS
    <2>1. CASE UNCHANGED token
      BY <2>1 DEF LiveOf, RowsOf, IsLive
    <2>2. ASSUME NEW r \in Request, CommitLogin(r) PROVE LiveOf(f)' = {}
      <3>1. Inserts(NewRow(req[r].family, clock)) /\ \A i \in DOMAIN token : token'[i] = token[i]
        BY <1>1, <2>2, CommitLoginMoves DEF IInv
      <3>2. req[r].family # f
        BY <1>1, <2>2 DEF IInv, Holds, LoginHolds, CommitLogin
      <3>3. NewRow(req[r].family, clock).family # f
        BY <3>2 DEF NewRow
      <3> QED
        BY <3>1, <3>3 DEF LiveOf, RowsOf, IsLive, Inserts
    <2>3. ASSUME NEW r \in Request, CommitRotate(r) PROVE LiveOf(f)' = {}
      <3> DEFINE i == req[r].tok
                 n == Len(token) + 1
                 g == req[r].family
      <3>1. /\ DOMAIN token = 1..Len(token) /\ Len(token) \in Nat /\ DOMAIN token' = 1..n
            /\ i \in DOMAIN token /\ token[i].family = g /\ IsLive(i)
            /\ token'[i].family = g /\ token'[n].family = g
            /\ \A k \in DOMAIN token \ {i} : token'[k] = token[k]
        BY <1>1, <2>3, Rotation
      <3>2. g # f
        BY <3>1 DEF LiveOf, RowsOf
      <3> HIDE DEF i, g
      <3> QED
        BY <3>1, <3>2 DEF LiveOf, RowsOf, IsLive
    <2>4. ASSUME NEW r \in Request, CommitUpdate(r) PROVE LiveOf(f)' = {}
      BY <1>1, <2>4, Update DEF LiveOf, RowsOf, IsLive
    <2> QED
      BY <1>1, <2>1, <2>2, <2>3, <2>4, Writers
  <1> QED
    BY <1>1, Invariant, PTL DEF Spec, EndedStaysEnded

(* revoked_at and replaced_by_id are written once: no sign-out moves the time from  *)
(* which the grace period of a rotated token is counted (RevokedOnce).              *)
THEOREM RevokedForGood == Spec => RevokedOnce
  <1>1. ASSUME IInv, [Next]_vars
        PROVE  [\A i \in DOMAIN token : ~IsLive(i) =>
                  /\ token'[i].revoked = token[i].revoked
                  /\ token'[i].replaced = token[i].replaced]_vars
    <2> SUFFICES ASSUME NEW k \in DOMAIN token, ~IsLive(k)
                 PROVE  token'[k].revoked = token[k].revoked /\ token'[k].replaced = token[k].replaced
      OBVIOUS
    <2>1. ASSUME NEW r \in Request, CommitLogin(r) PROVE token'[k] = token[k]
      BY <1>1, <2>1, CommitLoginMoves DEF IInv
    <2>2. ASSUME NEW r \in Request, CommitRotate(r) PROVE token'[k] = token[k]
      BY <1>1, <2>2, Rotation
    <2>3. ASSUME NEW r \in Request, CommitUpdate(r) PROVE token'[k] = token[k]
      BY <1>1, <2>3, Update DEF IsLive
    <2> QED
      BY <1>1, <2>1, <2>2, <2>3, Writers
  <1> QED
    BY <1>1, Invariant, PTL DEF Spec, RevokedOnce

(* A rotation hands on the activity that the replaced row has when it commits: a    *)
(* refresh neither counts as activity nor loses a heartbeat (RefreshKeepsActivity). *)
THEOREM ActivityKept == Spec => RefreshKeepsActivity
  <1>1. ASSUME IInv, [Next]_vars
        PROVE  [\A i \in DOMAIN token : token'[i].replaced # token[i].replaced =>
                  token'[token'[i].replaced].activity = token[i].activity]_vars
    <2> SUFFICES ASSUME NEW k \in DOMAIN token, token'[k].replaced # token[k].replaced
                 PROVE  token'[token'[k].replaced].activity = token[k].activity
      OBVIOUS
    <2>1. ASSUME NEW r \in Request, CommitLogin(r) PROVE FALSE
      BY <1>1, <2>1, CommitLoginMoves DEF IInv
    <2>2. ASSUME NEW r \in Request, CommitRotate(r)
          PROVE  token'[token'[k].replaced].activity = token[k].activity
      BY <1>1, <2>2, Rotation
    <2>3. ASSUME NEW r \in Request, CommitUpdate(r) PROVE FALSE
      BY <1>1, <2>3, Update
    <2> QED
      BY <1>1, <2>1, <2>2, <2>3, Writers
  <1> QED
    BY <1>1, Invariant, PTL DEF Spec, RefreshKeepsActivity
=============================================================================
