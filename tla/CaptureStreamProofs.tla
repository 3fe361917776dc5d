------------------------ MODULE CaptureStreamProofs ------------------------
(***************************************************************************)
(* Proofs about CaptureStream, for any limit of frames in flight and any   *)
(* number of connections and of grabs: the client's count of unanswered    *)
(* frames errs on the safe side, and a stop is always seen as one.         *)
(***************************************************************************)
EXTENDS CaptureStream, FunctionTheorems, SequenceTheorems, FiniteSetTheorems, TLAPS

Upward   == {"frame", "stop", "close"}
Downward == {"started", "answer", "alert", "error", "close"}
Ups      == Seq(Upward)
Downs    == Seq(Downward)

ConnectionFields ==
  {"phone", "server", "broken", "up", "down", "code", "grabbing", "encoding", "latest", "busy", "clean"}

IsConnection(k) ==
  /\ DOMAIN k = ConnectionFields
  /\ k.phone \in {"none", "connecting", "open", "closed"}
  /\ k.server \in {"none", "hello", "streaming", "ended"}
  /\ k.broken \in BOOLEAN /\ k.up \in Ups /\ k.down \in Downs /\ k.code \in {1006, 4401, 4403}
  /\ k.grabbing \in Nat /\ k.encoding \in Nat
  /\ k.latest \in BOOLEAN /\ k.busy \in BOOLEAN /\ k.clean \in BOOLEAN

Client ==
  [started : BOOLEAN, running : BOOLEAN, ws : Conn \cup {None}, opened : Conn \cup {None},
   timer : BOOLEAN, retry : BOOLEAN, inFlight : Nat, asked : BOOLEAN]

TypeOK == client \in Client /\ DOMAIN conn = Conn /\ \A c \in Conn : IsConnection(conn[c])

(***************************************************************************)
(* The inductive invariant                                                 *)
(***************************************************************************)
Live(k) == k.phone \in {"connecting", "open"}

Count(q, m) == Cardinality({i \in DOMAIN q : q[i] = m})

Owed(k) == k.encoding + Count(k.up, "frame") + Flag(k.latest) + Flag(k.busy) + Count(k.down, "answer")

(* The phone has not read yet that the server takes its frames. *)
Says(q)  == \E i \in DOMAIN q : q[i] = "started"
Fresh(k) == k.server \in {"none", "hello"} \/ Says(k.down)

OnlyFirst(q) == \A i \in DOMAIN q : q[i] = "started" => i = 1
StopFirst(q) == \A i \in DOMAIN q : q[i] = "close" => \E j \in 1..(i - 1) : q[j] = "stop"

(* What holds of a connection, whatever the client does next: the server says *)
(* once, and before all else, that it takes frames; until that is read there  *)
(* are none; and the close that the client sends comes after its stop.        *)
StartedFirst(k) ==
  /\ k.phone \in {"none", "connecting"} => k.server = "none"
  /\ k.server \in {"none", "hello"} => k.down = <<>>
  /\ OnlyFirst(k.down)

NothingOwedAtFirst(k) == Fresh(k) => k.grabbing = 0 /\ Owed(k) = 0

StopBeforeClose(k) == k.server # "ended" => StopFirst(k.up)

EndedCleanly(k) == k.server = "ended" /\ ~k.broken /\ k.code = 1006 => k.clean

(* What the client cl believes of its connection c: only the one that it uses *)
(* is alive, and while its interval runs, that one is open, taken by the      *)
(* server, and owes no more answers than the client counts.                   *)
OnlyOneLive(cl, c, k) ==
  /\ Live(k) => cl.ws = c /\ cl.started /\ ~cl.retry
  /\ c > cl.opened => k.phone = "none" /\ k.server = "none"

CountCovers(cl, c, k) ==
  cl.timer /\ cl.ws = c => k.phone = "open" /\ ~Fresh(k) /\ Owed(k) <= cl.inFlight

Holds(cl, c, k) ==
  /\ StartedFirst(k) /\ NothingOwedAtFirst(k) /\ StopBeforeClose(k) /\ EndedCleanly(k)
  /\ OnlyOneLive(cl, c, k) /\ CountCovers(cl, c, k)

(* What holds of the client alone. *)
Consistent(cl) ==
  /\ cl.timer => cl.ws # None
  /\ cl.retry => cl.started
  /\ cl.ws <= cl.opened

IInv ==
  /\ TypeOK /\ Consistent(client)
  /\ \A c \in Conn : Holds(client, c, conn[c])
-----------------------------------------------------------------------------
(* What the operations on a queue do to the number of its messages of a kind, *)
(* and to the order of those that matter.                                     *)
LEMMA CountType ==
  ASSUME NEW S, NEW q \in Seq(S), NEW m
  PROVE  Count(q, m) \in Nat /\ IsFiniteSet({i \in DOMAIN q : q[i] = m})
<1>1. DOMAIN q = 1..Len(q) /\ Len(q) \in Nat
  BY LenProperties
<1>2. IsFiniteSet(DOMAIN q)
  BY <1>1, FS_Interval
<1>3. {i \in DOMAIN q : q[i] = m} \in SUBSET (DOMAIN q)
  OBVIOUS
<1> QED
  BY <1>2, <1>3, FS_Subset, FS_CardinalityType DEF Count

LEMMA CountAppend ==
  ASSUME NEW S, NEW q \in Seq(S), NEW x \in S, NEW m
  PROVE  Count(Append(q, x), m) = Count(q, m) + Flag(x = m)
<1> DEFINE n == Len(q) + 1
           r == Append(q, x)
           I == {i \in DOMAIN q : q[i] = m}
           J == {i \in DOMAIN r : r[i] = m}
<1>1. DOMAIN q = 1..Len(q) /\ Len(q) \in Nat /\ DOMAIN r = 1..n
  BY LenProperties, AppendProperties
<1>2. r[n] = x /\ \A i \in 1..Len(q) : r[i] = q[i]
  BY <1>1, AppendProperties
<1>3. \A i : i \in 1..n <=> (i \in 1..Len(q) \/ i = n)
  BY <1>1
<1>4. n \notin I
  BY <1>1
<1>5. IsFiniteSet(I) /\ Cardinality(I) \in Nat
  BY CountType DEF Count
<1> HIDE DEF n, r
<1>6. CASE x = m
  <2>1. J = I \cup {n}
    BY <1>1, <1>2, <1>3, <1>6
  <2>2. Cardinality(J) = Cardinality(I) + 1
    BY <1>4, <1>5, <2>1, FS_AddElement
  <2> QED
    BY <1>6, <2>2 DEF Count, Flag, r
<1>7. CASE x # m
  <2>1. J = I
    BY <1>1, <1>2, <1>3, <1>7
  <2>2. Count(r, m) = Count(q, m) /\ Count(q, m) \in Nat
    BY <1>5, <2>1 DEF Count
  <2> QED
    BY <1>7, <2>2 DEF Flag, r
<1> QED
  BY <1>6, <1>7

LEMMA CountTail ==
  ASSUME NEW S, NEW q \in Seq(S), q # <<>>, NEW m
  PROVE  Count(q, m) = Count(Tail(q), m) + Flag(Head(q) = m)
<1> DEFINE n == Len(q)
           r == Tail(q)
           I == {i \in DOMAIN q : q[i] = m}
           J == {i \in DOMAIN r : r[i] = m}
           K == I \ {1}
           f == [i \in J |-> i + 1]
<1>1. /\ DOMAIN q = 1..n /\ n \in Nat /\ n >= 1 /\ Head(q) = q[1] /\ r \in Seq(S)
      /\ DOMAIN r = 1..(n - 1) /\ \A i \in 1..(n - 1) : r[i] = q[i + 1]
  BY HeadTailProperties, LenProperties, EmptySeq
<1>2. IsFiniteSet(I) /\ Cardinality(I) \in Nat
  BY CountType DEF Count
<1>3. IsFiniteSet(J) /\ Cardinality(J) \in Nat
  BY <1>1, CountType DEF Count
<1> HIDE DEF n, r
<1>4. \A i \in J : i \in Nat /\ i + 1 \in K
  BY <1>1
<1>5. \A k \in K : k - 1 \in J /\ k = (k - 1) + 1
  <2> SUFFICES ASSUME NEW k \in K PROVE k - 1 \in J /\ k = (k - 1) + 1
    OBVIOUS
  <2>1. k - 1 \in 1..(n - 1) /\ k = (k - 1) + 1
    BY <1>1
  <2> QED
    BY <1>1, <2>1
<1> HIDE DEF I, J
<1>6. f \in Bijection(J, K)
  <2>1. f \in [J -> K]
    BY <1>4
  <2>2. \A i, j \in J : f[i] = f[j] => i = j
    BY <1>4
  <2>3. \A k \in K : \E i \in J : f[i] = k
    BY <1>5
  <2> HIDE DEF f, K
  <2> QED
    BY <2>1, <2>2, <2>3 DEF Bijection, Injection, Surjection, IsInjective
<1>7. Cardinality(K) = Cardinality(J)
  BY <1>3, <1>6, FS_Bijection DEF ExistsBijection
<1>8. Cardinality(K) = IF 1 \in I THEN Cardinality(I) - 1 ELSE Cardinality(I)
  BY <1>2, FS_RemoveElement
<1>9. 1 \in I <=> Head(q) = m
  BY <1>1 DEF I
<1>10. Count(q, m) = Cardinality(I) /\ Count(r, m) = Cardinality(J)
  BY DEF Count, I, J
<1> QED
  BY <1>2, <1>3, <1>7, <1>8, <1>9, <1>10 DEF Flag, r

LEMMA CountEmpty == ASSUME NEW m PROVE Count(<<>>, m) = 0
BY FS_EmptySet DEF Count

LEMMA DownAppend ==
  ASSUME NEW q \in Downs, NEW x \in Downward, x # "started"
  PROVE  /\ Append(q, x) \in Downs
         /\ Says(Append(q, x)) <=> Says(q)
         /\ OnlyFirst(q) => OnlyFirst(Append(q, x))
<1>1. /\ Append(q, x) \in Downs /\ DOMAIN q = 1..Len(q) /\ Len(q) \in Nat
      /\ DOMAIN Append(q, x) = 1..(Len(q) + 1) /\ Append(q, x)[Len(q) + 1] = x
      /\ \A i \in 1..Len(q) : Append(q, x)[i] = q[i]
  BY LenProperties, AppendProperties DEF Downs
<1>2. \A i : i \in 1..(Len(q) + 1) <=> (i \in 1..Len(q) \/ i = Len(q) + 1)
  BY <1>1
<1> QED
  BY <1>1, <1>2 DEF Says, OnlyFirst

LEMMA DownTail ==
  ASSUME NEW q \in Downs, q # <<>>, OnlyFirst(q)
  PROVE  /\ Head(q) \in Downward /\ Tail(q) \in Downs /\ ~Says(Tail(q)) /\ OnlyFirst(Tail(q))
         /\ Says(q) <=> Head(q) = "started"
<1>1. /\ DOMAIN q = 1..Len(q) /\ Len(q) \in Nat /\ Len(q) >= 1 /\ Head(q) = q[1] /\ Tail(q) \in Downs
      /\ Head(q) \in Downward
      /\ DOMAIN Tail(q) = 1..(Len(q) - 1) /\ \A i \in 1..(Len(q) - 1) : Tail(q)[i] = q[i + 1]
  BY HeadTailProperties, LenProperties, EmptySeq DEF Downs
<1>2. \A i \in 1..(Len(q) - 1) : i + 1 \in 1..Len(q) /\ i + 1 # 1
  BY <1>1
<1>3. \A i \in 1..(Len(q) - 1) : Tail(q)[i] # "started"
  BY <1>1, <1>2 DEF OnlyFirst
<1>4. ~Says(Tail(q)) /\ OnlyFirst(Tail(q))
  BY <1>1, <1>3 DEF Says, OnlyFirst
<1>5. 1 \in 1..Len(q)
  BY <1>1
<1> QED
  BY <1>1, <1>4, <1>5 DEF Says, OnlyFirst

LEMMA UpAppend ==
  ASSUME NEW q \in Ups, NEW x \in Upward,
         x # "close" \/ \E j \in DOMAIN q : q[j] = "stop"
  PROVE  Append(q, x) \in Ups /\ (StopFirst(q) => StopFirst(Append(q, x)))
<1>1. /\ Append(q, x) \in Ups /\ DOMAIN q = 1..Len(q) /\ Len(q) \in Nat
      /\ DOMAIN Append(q, x) = 1..(Len(q) + 1) /\ Append(q, x)[Len(q) + 1] = x
      /\ \A i \in 1..Len(q) : Append(q, x)[i] = q[i]
  BY LenProperties, AppendProperties DEF Ups
<1> DEFINE r == Append(q, x)
<1> HIDE DEF r
<1>2. ASSUME StopFirst(q) PROVE StopFirst(r)
  <2> SUFFICES ASSUME NEW i \in 1..(Len(q) + 1), r[i] = "close"
               PROVE  \E j \in 1..(i - 1) : r[j] = "stop"
    BY <1>1 DEF StopFirst, r
  <2>1. CASE i \in 1..Len(q)
    <3>1. PICK j \in 1..(i - 1) : q[j] = "stop"
      BY <1>1, <1>2, <2>1 DEF StopFirst, r
    <3>2. r[j] = "stop"
      BY <1>1, <2>1, <3>1 DEF r
    <3> QED
      BY <3>2
  <2>2. CASE i = Len(q) + 1
    <3>1. PICK j \in DOMAIN q : q[j] = "stop"
      BY <1>1, <2>2 DEF r
    <3>2. j \in 1..(i - 1) /\ r[j] = "stop"
      BY <1>1, <2>2, <3>1 DEF r
    <3> QED
      BY <3>2
  <2> QED
    BY <1>1, <2>1, <2>2
<1> QED
  BY <1>1, <1>2 DEF r

LEMMA UpTail ==
  ASSUME NEW q \in Ups, q # <<>>
  PROVE  /\ Head(q) \in Upward /\ Tail(q) \in Ups
         /\ StopFirst(q) => Head(q) # "close" /\ (Head(q) = "frame" => StopFirst(Tail(q)))
<1>1. /\ DOMAIN q = 1..Len(q) /\ Len(q) \in Nat /\ Len(q) >= 1 /\ Head(q) = q[1] /\ Tail(q) \in Ups
      /\ Head(q) \in Upward
      /\ DOMAIN Tail(q) = 1..(Len(q) - 1) /\ \A i \in 1..(Len(q) - 1) : Tail(q)[i] = q[i + 1]
  BY HeadTailProperties, LenProperties, EmptySeq DEF Ups
<1>2. ASSUME StopFirst(q) PROVE Head(q) # "close"
  <2>1. 1 \in DOMAIN q /\ 1..(1 - 1) = {}
    BY <1>1
  <2> QED
    BY <1>1, <1>2, <2>1 DEF StopFirst
<1>3. ASSUME StopFirst(q), Head(q) = "frame" PROVE StopFirst(Tail(q))
  <2> SUFFICES ASSUME NEW i \in 1..(Len(q) - 1), q[i + 1] = "close"
               PROVE  \E j \in 1..(i - 1) : Tail(q)[j] = "stop"
    BY <1>1 DEF StopFirst
  <2>1. i + 1 \in DOMAIN q /\ (i + 1) - 1 = i
    BY <1>1
  <2>2. PICK j \in 1..i : q[j] = "stop"
    BY <1>3, <2>1 DEF StopFirst
  <2>3. j # 1
    BY <1>1, <1>3, <2>2
  <2>4. j - 1 \in 1..(i - 1) /\ j - 1 \in 1..(Len(q) - 1) /\ (j - 1) + 1 = j
    BY <1>1, <2>3
  <2> QED
    BY <1>1, <2>2, <2>4
<1> QED
  BY <1>1, <1>2, <1>3

-----------------------------------------------------------------------------
(* r is k but for the fields F. *)
But(F, r, k) == DOMAIN r = ConnectionFields /\ \A f \in ConnectionFields \ F : r[f] = k[f]

(* What is sent on a connection changes nothing else of it, and is lost if it *)
(* broke.                                                                     *)
LEMMA SentUp ==
  ASSUME NEW k, IsConnection(k), NEW msgs
  PROVE  /\ But({"up"}, SendUp(k, msgs), k)
         /\ SendUp(k, msgs).up = IF k.broken THEN k.up ELSE k.up \o msgs
BY DEF SendUp, IsConnection, ConnectionFields, But

LEMMA SentDown ==
  ASSUME NEW k, IsConnection(k), NEW msgs
  PROVE  /\ But({"down"}, SendDown(k, msgs), k)
         /\ SendDown(k, msgs).down = IF k.broken THEN k.down ELSE k.down \o msgs
BY DEF SendDown, IsConnection, ConnectionFields, But

(* The parts of what a connection owes. *)
LEMMA OwedParts ==
  ASSUME NEW k, IsConnection(k)
  PROVE  /\ Count(k.up, "frame") \in Nat /\ Count(k.down, "answer") \in Nat
         /\ k.encoding \in Nat /\ Flag(k.latest) \in {0, 1} /\ Flag(k.busy) \in {0, 1} /\ Owed(k) \in Nat
<1>1. k.up \in Seq(Upward) /\ k.down \in Seq(Downward) /\ k.encoding \in Nat
  BY DEF IsConnection, Ups, Downs
<1>2. Count(k.up, "frame") \in Nat /\ Count(k.down, "answer") \in Nat
  BY <1>1, CountType
<1> QED
  BY <1>1, <1>2 DEF Owed, Flag

LEMMA OweNothing ==
  ASSUME NEW k, IsConnection(k), Owed(k) = 0
  PROVE  /\ Count(k.up, "frame") = 0 /\ Count(k.down, "answer") = 0
         /\ k.encoding = 0 /\ ~k.latest /\ ~k.busy
<1>1. k.latest \in BOOLEAN /\ k.busy \in BOOLEAN
  BY DEF IsConnection
<1>2. /\ Count(k.up, "frame") = 0 /\ Count(k.down, "answer") = 0 /\ k.encoding = 0
      /\ Flag(k.latest) = 0 /\ Flag(k.busy) = 0
  BY OwedParts DEF Owed
<1> QED
  BY <1>1, <1>2 DEF Flag

(* The invariant of a step that touches one connection. *)
LEMMA OneConnection ==
  ASSUME IInv, NEW c \in Conn, NEW r, IsConnection(r), conn' = [conn EXCEPT ![c] = r],
         client' \in Client, Consistent(client)',
         Holds(client', c, r), \A d \in Conn \ {c} : Holds(client', d, conn[d])
  PROVE  IInv'
<1>1. DOMAIN conn = Conn /\ \A d \in Conn : IsConnection(conn[d])
  BY DEF IInv, TypeOK
<1>2. DOMAIN conn' = Conn /\ conn'[c] = r /\ \A d \in Conn \ {c} : conn'[d] = conn[d]
  BY <1>1
<1>3. \A d \in Conn : Holds(client', d, conn'[d])
  BY <1>2
<1> QED
  BY <1>1, <1>2, <1>3 DEF IInv, TypeOK

LEMMA SameClient ==
  ASSUME IInv, NEW c \in Conn, NEW r, IsConnection(r), conn' = [conn EXCEPT ![c] = r],
         client' = client, Holds(client, c, r)
  PROVE  IInv'
<1>1. client' \in Client /\ Consistent(client)'
  BY DEF IInv, TypeOK, Consistent
<1>2. \A d \in Conn \ {c} : Holds(client', d, conn[d])
  BY DEF IInv
<1> QED
  BY <1>1, <1>2, OneConnection

(* Nobody else is alive beside a connection that is. *)
LEMMA OthersHold ==
  ASSUME IInv, NEW c \in Conn, Live(conn[c]), NEW cl, cl.opened = client.opened,
         ~cl.timer \/ cl.ws = c
  PROVE  \A d \in Conn \ {c} : Holds(cl, d, conn[d])
<1> SUFFICES ASSUME NEW d \in Conn \ {c} PROVE Holds(cl, d, conn[d])
  OBVIOUS
<1>1. Holds(client, c, conn[c]) /\ Holds(client, d, conn[d])
  BY DEF IInv
<1>2. ~Live(conn[d])
  BY <1>1 DEF Holds, OnlyOneLive
<1> QED
  BY <1>1, <1>2 DEF Holds, OnlyOneLive, CountCovers

LEMMA Facts ==
  ASSUME IInv, NEW c \in Conn
  PROVE  IsConnection(conn[c]) /\ Holds(client, c, conn[c]) /\ client \in Client /\ DOMAIN conn = Conn
BY DEF IInv, TypeOK

-----------------------------------------------------------------------------
(* A connection that owes something is not fresh. *)
LEMMA OwesNotFresh ==
  ASSUME NEW k, IsConnection(k), NothingOwedAtFirst(k), k.encoding > 0 \/ k.latest \/ k.busy \/ k.grabbing > 0
  PROVE  ~Fresh(k)
BY OweNothing DEF NothingOwedAtFirst, IsConnection

(* One that owes no more, says no more and keeps its phone and its ends. *)
LEMMA LessOwed ==
  ASSUME NEW cl, NEW c, NEW k, NEW r, IsConnection(k), IsConnection(r), Holds(cl, c, k),
         r.phone = k.phone, r.server = k.server, r.broken = k.broken, r.code = k.code, r.clean = k.clean,
         Says(r.down) <=> Says(k.down), OnlyFirst(r.down), StopFirst(k.up) => StopFirst(r.up),
         k.server \in {"none", "hello"} => r.down = <<>>,
         ~Fresh(k) \/ (r.grabbing = k.grabbing /\ Owed(r) = Owed(k)),
         Owed(r) <= Owed(k), cl.timer => cl.inFlight \in Nat
  PROVE  Holds(cl, c, r)
<1>1. Fresh(r) <=> Fresh(k)
  BY DEF Fresh
<1>2. StartedFirst(r) /\ NothingOwedAtFirst(r) /\ StopBeforeClose(r) /\ EndedCleanly(r) /\ OnlyOneLive(cl, c, r)
  BY <1>1 DEF Holds, StartedFirst, NothingOwedAtFirst, StopBeforeClose, EndedCleanly, OnlyOneLive, Live
<1>3. CountCovers(cl, c, r)
  <2> SUFFICES ASSUME cl.timer, cl.ws = c PROVE r.phone = "open" /\ ~Fresh(r) /\ Owed(r) <= cl.inFlight
    BY DEF CountCovers
  <2>1. k.phone = "open" /\ ~Fresh(k) /\ Owed(k) <= cl.inFlight
    BY DEF Holds, CountCovers
  <2>2. Owed(k) \in Nat /\ Owed(r) \in Nat
    BY OwedParts
  <2> QED
    BY <1>1, <2>1, <2>2
<1> QED
  BY <1>2, <1>3 DEF Holds

-----------------------------------------------------------------------------
(* The steps of one connection that leave the client as it is. *)
LEMMA OpenStep == ASSUME IInv, NEW c \in Conn, Open(c) PROVE IInv'
<1> DEFINE k == conn[c]
           r == [k EXCEPT !.phone = "open", !.server = "hello"]
<1>1. IsConnection(k) /\ Holds(client, c, k) /\ DOMAIN conn = Conn /\ DOMAIN k = ConnectionFields
  BY Facts DEF IsConnection
<1>2. conn' = [conn EXCEPT ![c] = r] /\ client' = client /\ k.phone = "connecting"
  BY <1>1 DEF Open
<1> HIDE DEF k
<1>3. But({"phone", "server"}, r, k)
  BY <1>1 DEF But
<1>4. r.phone = "open" /\ r.server = "hello"
  BY <1>1 DEF ConnectionFields
<1> HIDE DEF r
<1>5. IsConnection(r)
  BY <1>1, <1>3, <1>4 DEF IsConnection, But, ConnectionFields
<1>6. Holds(client, c, r)
  BY <1>1, <1>2, <1>3, <1>4 DEF Holds, StartedFirst, NothingOwedAtFirst, StopBeforeClose, EndedCleanly,
     OnlyOneLive, CountCovers, Fresh, Owed, Live, But, ConnectionFields
<1> QED
  BY <1>2, <1>5, <1>6, SameClient

LEMMA GrabStep == ASSUME IInv, NEW c \in Conn, Grab(c) PROVE IInv'
<1> DEFINE k == conn[c]
           r == [k EXCEPT !.grabbing = @ + 1]
<1>1. /\ IsConnection(k) /\ Holds(client, c, k) /\ DOMAIN conn = Conn /\ DOMAIN k = ConnectionFields
      /\ client \in Client
  BY Facts DEF IsConnection
<1>2. conn' = [conn EXCEPT ![c] = r] /\ client' = client /\ client.timer /\ client.ws = c
  BY <1>1 DEF Grab
<1> HIDE DEF k
<1>3. But({"grabbing"}, r, k)
  BY <1>1 DEF But
<1>4. r.grabbing = k.grabbing + 1
  BY <1>1 DEF ConnectionFields
<1> HIDE DEF r
<1>5. IsConnection(r)
  BY <1>1, <1>3, <1>4 DEF IsConnection, But, ConnectionFields
<1>6. Owed(r) = Owed(k) /\ Owed(k) \in Nat
  BY <1>1, <1>3, OwedParts DEF Owed, But, ConnectionFields
<1>7. ~Fresh(k)
  BY <1>1, <1>2 DEF Holds, CountCovers
<1>8. /\ r.phone = k.phone /\ r.server = k.server /\ r.broken = k.broken /\ r.code = k.code
      /\ r.clean = k.clean /\ r.down = k.down /\ r.up = k.up
  BY <1>3 DEF But, ConnectionFields
<1>9. Holds(client, c, r)
  <2>1. OnlyFirst(k.down) /\ (k.server \in {"none", "hello"} => k.down = <<>>) /\ client.inFlight \in Nat
    BY <1>1 DEF Holds, StartedFirst, Client
  <2> QED
    BY <1>1, <1>5, <1>6, <1>7, <1>8, <2>1, LessOwed
<1> QED
  BY <1>2, <1>5, <1>9, SameClient

LEMMA SendFrameStep == ASSUME IInv, NEW c \in Conn, SendFrame(c) PROVE IInv'
<1> DEFINE k == conn[c]
           j == [k EXCEPT !.encoding = @ - 1]
           r == IF j.phone = "open" THEN SendUp(j, <<"frame">>) ELSE j
<1>1. /\ IsConnection(k) /\ Holds(client, c, k) /\ DOMAIN conn = Conn /\ DOMAIN k = ConnectionFields
      /\ client \in Client
  BY Facts DEF IsConnection
<1>2. conn' = [conn EXCEPT ![c] = r] /\ client' = client /\ k.encoding > 0
  BY <1>1 DEF SendFrame
<1> HIDE DEF k
<1>3. But({"encoding"}, j, k)
  BY <1>1 DEF But
<1>4. j.encoding = k.encoding - 1
  BY <1>1 DEF ConnectionFields
<1> HIDE DEF j
<1>5. IsConnection(j)
  BY <1>1, <1>2, <1>3, <1>4 DEF IsConnection, But, ConnectionFields
<1>6. But({"up"}, r, j) /\ (r.up = j.up \/ r.up = j.up \o <<"frame">>)
  <2>1. CASE j.phone = "open"
    BY <1>5, <2>1, SentUp
  <2>2. CASE j.phone # "open"
    BY <1>5, <2>2 DEF But, IsConnection
  <2> QED
    BY <2>1, <2>2
<1> HIDE DEF r
<1>7. /\ r.up \in Ups /\ (StopFirst(k.up) => StopFirst(r.up))
      /\ Count(r.up, "frame") <= Count(k.up, "frame") + 1 /\ Count(r.up, "frame") \in Nat
  <2>1. k.up \in Ups /\ k.up \in Seq(Upward) /\ "frame" \in Upward
    BY <1>1 DEF IsConnection, Ups, Upward
  <2>2. k.up \o <<"frame">> = Append(k.up, "frame")
    BY <2>1, AppendIsConcat
  <2>3. Append(k.up, "frame") \in Ups /\ (StopFirst(k.up) => StopFirst(Append(k.up, "frame")))
    BY <2>1, UpAppend
  <2>4. Count(Append(k.up, "frame"), "frame") = Count(k.up, "frame") + 1 /\ Count(k.up, "frame") \in Nat
    BY <2>1, CountAppend, CountType DEF Flag
  <2>5. j.up = k.up
    BY <1>3 DEF But, ConnectionFields
  <2>6. CASE r.up = k.up
    BY <2>1, <2>4, <2>6
  <2>7. CASE r.up = Append(k.up, "frame")
    BY <2>3, <2>4, <2>7
  <2> QED
    BY <1>6, <2>2, <2>5, <2>6, <2>7
<1>8. IsConnection(r)
  BY <1>5, <1>6, <1>7 DEF IsConnection, But, ConnectionFields
<1>9. Owed(r) <= Owed(k)
  <2>1. r.encoding = k.encoding - 1 /\ r.latest = k.latest /\ r.busy = k.busy /\ r.down = k.down
    BY <1>3, <1>4, <1>6 DEF But, ConnectionFields
  <2> QED
    BY <1>1, <1>7, <2>1, OwedParts DEF Owed
<1>10. ~Fresh(k)
  BY <1>1, <1>2, OwesNotFresh DEF Holds
<1>11. /\ r.phone = k.phone /\ r.server = k.server /\ r.broken = k.broken /\ r.code = k.code
       /\ r.clean = k.clean /\ r.down = k.down
  BY <1>3, <1>6 DEF But, ConnectionFields
<1>12. Holds(client, c, r)
  <2>1. OnlyFirst(k.down) /\ (k.server \in {"none", "hello"} => k.down = <<>>) /\ client.inFlight \in Nat
    BY <1>1 DEF Holds, StartedFirst, Client
  <2> QED
    BY <1>1, <1>7, <1>8, <1>9, <1>10, <1>11, <2>1, LessOwed
<1> QED
  BY <1>2, <1>8, <1>12, SameClient

LEMMA TakeLatestStep == ASSUME IInv, NEW c \in Conn, TakeLatest(c) PROVE IInv'
<1> DEFINE k == conn[c]
           r == [k EXCEPT !.latest = FALSE, !.busy = TRUE]
<1>1. /\ IsConnection(k) /\ Holds(client, c, k) /\ DOMAIN conn = Conn /\ DOMAIN k = ConnectionFields
      /\ client \in Client
  BY Facts DEF IsConnection
<1>2. conn' = [conn EXCEPT ![c] = r] /\ client' = client /\ k.latest /\ ~k.busy
  BY <1>1 DEF TakeLatest
<1> HIDE DEF k
<1>3. But({"latest", "busy"}, r, k)
  BY <1>1 DEF But
<1>4. r.latest = FALSE /\ r.busy = TRUE
  BY <1>1 DEF ConnectionFields
<1> HIDE DEF r
<1>5. IsConnection(r)
  <2>1. r.latest \in BOOLEAN /\ r.busy \in BOOLEAN
    BY <1>4
  <2> QED
    BY <1>1, <1>3, <2>1 DEF IsConnection, But, ConnectionFields
<1>6. Owed(r) <= Owed(k)
  <2>1. r.encoding = k.encoding /\ r.up = k.up /\ r.down = k.down
    BY <1>3 DEF But, ConnectionFields
  <2>2. Flag(k.latest) = 1 /\ Flag(k.busy) = 0 /\ Flag(r.latest) = 0 /\ Flag(r.busy) = 1
    BY <1>2, <1>4 DEF Flag
  <2> QED
    BY <1>1, <2>1, <2>2, OwedParts DEF Owed
<1>7. ~Fresh(k)
  BY <1>1, <1>2, OwesNotFresh DEF Holds
<1>8. /\ r.phone = k.phone /\ r.server = k.server /\ r.broken = k.broken /\ r.code = k.code
      /\ r.clean = k.clean /\ r.down = k.down /\ r.up = k.up
  BY <1>3 DEF But, ConnectionFields
<1>9. Holds(client, c, r)
  <2>1. OnlyFirst(k.down) /\ (k.server \in {"none", "hello"} => k.down = <<>>) /\ client.inFlight \in Nat
    BY <1>1 DEF Holds, StartedFirst, Client
  <2> QED
    BY <1>1, <1>5, <1>6, <1>7, <1>8, <2>1, LessOwed
<1> QED
  BY <1>2, <1>5, <1>9, SameClient

LEMMA AnswerStep == ASSUME IInv, NEW c \in Conn, AnswerFrame(c) PROVE IInv'
<1> DEFINE k == conn[c]
<1>1. /\ IsConnection(k) /\ Holds(client, c, k) /\ DOMAIN conn = Conn /\ DOMAIN k = ConnectionFields
      /\ client \in Client
  BY Facts DEF IsConnection
<1>2. PICK msgs \in {<<"answer">>, <<"answer", "alert">>} :
        conn' = [conn EXCEPT ![c] = [SendDown(k, msgs) EXCEPT !.busy = FALSE]]
  BY <1>1 DEF AnswerFrame
<1> DEFINE j == SendDown(k, msgs)
           r == [j EXCEPT !.busy = FALSE]
<1>3. client' = client /\ k.busy
  BY DEF AnswerFrame
<1> HIDE DEF k
<1>4. But({"down"}, j, k) /\ (j.down = k.down \/ j.down = k.down \o msgs)
  BY <1>1, SentDown
<1> HIDE DEF j
<1>5. But({"busy"}, r, j)
  BY <1>4 DEF But
<1>6. r.busy = FALSE
  BY <1>4 DEF But, ConnectionFields
<1>7. conn' = [conn EXCEPT ![c] = r]
  BY <1>2 DEF j
<1> HIDE DEF r
<1>8. k.down \in Downs /\ OnlyFirst(k.down)
  BY <1>1 DEF IsConnection, Holds, StartedFirst
<1>9. /\ r.down \in Downs /\ OnlyFirst(r.down) /\ (Says(r.down) <=> Says(k.down))
      /\ Count(r.down, "answer") <= Count(k.down, "answer") + 1 /\ Count(r.down, "answer") \in Nat
  <2> DEFINE a == Append(k.down, "answer")
             b == Append(a, "alert")
  <2>1. "answer" \in Downward /\ "alert" \in Downward
    BY DEF Downward
  <2>2. a \in Downs /\ OnlyFirst(a) /\ (Says(a) <=> Says(k.down))
    BY <1>8, <2>1, DownAppend
  <2>3. Count(a, "answer") = Count(k.down, "answer") + 1 /\ Count(k.down, "answer") \in Nat
    BY <1>8, <2>1, CountAppend, CountType DEF Flag, Downs
  <2> HIDE DEF a
  <2>4. b \in Downs /\ OnlyFirst(b) /\ (Says(b) <=> Says(k.down))
    BY <2>1, <2>2, DownAppend
  <2>5. Count(b, "answer") = Count(a, "answer") + Flag("alert" = "answer")
    BY <2>1, <2>2, CountAppend DEF Downs
  <2>6. Count(b, "answer") = Count(a, "answer")
    BY <2>3, <2>5 DEF Flag
  <2>7. k.down \o <<"answer">> = a /\ k.down \o <<"answer", "alert">> = b
    BY <1>8, <2>1 DEF a, Downs
  <2>8. r.down = k.down \/ r.down = a \/ r.down = b
    BY <1>4, <1>5, <2>7 DEF But, ConnectionFields
  <2> HIDE DEF b
  <2>9. CASE r.down = k.down
    BY <1>8, <2>3, <2>9
  <2>10. CASE r.down = a
    BY <2>2, <2>3, <2>10
  <2>11. CASE r.down = b
    BY <2>3, <2>4, <2>6, <2>11
  <2> QED
    BY <2>8, <2>9, <2>10, <2>11
<1>10. /\ r.phone = k.phone /\ r.server = k.server /\ r.broken = k.broken /\ r.code = k.code
       /\ r.clean = k.clean /\ r.up = k.up /\ r.encoding = k.encoding /\ r.latest = k.latest
       /\ r.grabbing = k.grabbing /\ DOMAIN r = ConnectionFields
  BY <1>4, <1>5 DEF But, ConnectionFields
<1>11. IsConnection(r)
  <2>1. r.busy \in BOOLEAN
    BY <1>6
  <2> QED
    BY <1>1, <1>9, <1>10, <2>1 DEF IsConnection
<1>12. Owed(r) <= Owed(k)
  <2>1. Flag(k.busy) = 1 /\ Flag(r.busy) = 0
    BY <1>3, <1>6 DEF Flag
  <2> QED
    BY <1>1, <1>9, <1>10, <2>1, OwedParts DEF Owed
<1>13. ~Fresh(k)
  BY <1>1, <1>3, OwesNotFresh DEF Holds
<1>14. Holds(client, c, r)
  <2>1. client.inFlight \in Nat /\ k.server \notin {"none", "hello"}
    BY <1>1, <1>13 DEF Client, Fresh
  <2> QED
    BY <1>1, <1>9, <1>10, <1>11, <1>12, <1>13, <2>1, LessOwed
<1> QED
  BY <1>3, <1>7, <1>11, <1>14, SameClient

LEMMA BreakStep == ASSUME IInv, NEW c \in Conn, Break(c) PROVE IInv'
<1> DEFINE k == conn[c]
           r == [k EXCEPT !.broken = TRUE]
<1>1. IsConnection(k) /\ Holds(client, c, k) /\ DOMAIN conn = Conn /\ DOMAIN k = ConnectionFields
  BY Facts DEF IsConnection
<1>2. conn' = [conn EXCEPT ![c] = r] /\ client' = client
  BY <1>1 DEF Break
<1> HIDE DEF k
<1>3. But({"broken"}, r, k)
  BY <1>1 DEF But
<1>4. r.broken = TRUE
  BY <1>1 DEF ConnectionFields
<1> HIDE DEF r
<1>5. IsConnection(r)
  <2>1. r.broken \in BOOLEAN
    BY <1>4
  <2> QED
    BY <1>1, <1>3, <2>1 DEF IsConnection, But, ConnectionFields
<1>6. Holds(client, c, r)
  BY <1>1, <1>3, <1>4 DEF Holds, StartedFirst, NothingOwedAtFirst, StopBeforeClose, EndedCleanly,
     OnlyOneLive, CountCovers, Fresh, Owed, Live, But, ConnectionFields
<1> QED
  BY <1>2, <1>5, <1>6, SameClient

(* A handler that ends answers nothing more. *)
LEMMA EndedFacts ==
  ASSUME NEW k, IsConnection(k), NEW b \in BOOLEAN
  PROVE  /\ But({"server", "clean", "latest", "busy"}, Ended(k, b), k) /\ IsConnection(Ended(k, b))
         /\ Ended(k, b).server = "ended" /\ Ended(k, b).clean = b
         /\ Owed(Ended(k, b)) <= Owed(k)
<1> DEFINE r == Ended(k, b)
<1>1. DOMAIN k = ConnectionFields
  BY DEF IsConnection
<1>2. But({"server", "clean", "latest", "busy"}, r, k)
  BY <1>1 DEF But, Ended
<1>3. r.server = "ended" /\ r.clean = b /\ r.latest = FALSE /\ r.busy = FALSE
  BY <1>1 DEF Ended, ConnectionFields
<1> HIDE DEF r
<1>4. IsConnection(r)
  <2>1. r.latest \in BOOLEAN /\ r.busy \in BOOLEAN /\ r.clean \in BOOLEAN
    BY <1>3
  <2>2. r.server = "ended"
    BY <1>3
  <2> QED
    BY <1>2, <2>1, <2>2 DEF IsConnection, But, ConnectionFields
<1>5. Owed(r) <= Owed(k)
  <2>1. Flag(r.latest) = 0 /\ Flag(r.busy) = 0
    BY <1>3 DEF Flag
  <2>2. r.encoding = k.encoding /\ r.up = k.up /\ r.down = k.down
    BY <1>2 DEF But, ConnectionFields
  <2> QED
    BY <2>1, <2>2, OwedParts DEF Owed
<1> QED
  BY <1>2, <1>3, <1>4, <1>5 DEF r

LEMMA EndHolds ==
  ASSUME NEW cl, NEW c, NEW k, NEW r, IsConnection(k), IsConnection(r), Holds(cl, c, k),
         r.phone = k.phone, r.broken = k.broken, r.code = k.code, r.grabbing = k.grabbing,
         r.down = k.down, r.server = "ended", k.server \notin {"none"},
         ~r.broken => r.clean, Owed(r) <= Owed(k), cl.timer => cl.inFlight \in Nat
  PROVE  Holds(cl, c, r)
<1>1. Fresh(r) => Fresh(k)
  BY DEF Fresh
<1>2. Owed(k) \in Nat /\ Owed(r) \in Nat
  BY OwedParts
<1>3. StartedFirst(r) /\ StopBeforeClose(r) /\ EndedCleanly(r) /\ OnlyOneLive(cl, c, r)
  BY DEF Holds, StartedFirst, StopBeforeClose, EndedCleanly, OnlyOneLive, Live
<1>4. NothingOwedAtFirst(r)
  BY <1>1, <1>2 DEF Holds, NothingOwedAtFirst
<1>5. CountCovers(cl, c, r)
  <2> SUFFICES ASSUME cl.timer, cl.ws = c PROVE r.phone = "open" /\ ~Fresh(r) /\ Owed(r) <= cl.inFlight
    BY DEF CountCovers
  <2>1. k.phone = "open" /\ ~Fresh(k) /\ Owed(k) <= cl.inFlight
    BY DEF Holds, CountCovers
  <2> QED
    BY <1>1, <1>2, <2>1
<1> QED
  BY <1>3, <1>4, <1>5 DEF Holds

LEMMA ServerNoticesStep == ASSUME IInv, NEW c \in Conn, ServerNotices(c) PROVE IInv'
<1> DEFINE k == conn[c]
           r == Ended(k, FALSE)
<1>1. IsConnection(k) /\ Holds(client, c, k) /\ DOMAIN conn = Conn /\ client \in Client
  BY Facts
<1>2. conn' = [conn EXCEPT ![c] = r] /\ client' = client /\ k.broken /\ k.server \notin {"none"}
  BY <1>1 DEF ServerNotices
<1> HIDE DEF k
<1>3. /\ But({"server", "clean", "latest", "busy"}, r, k) /\ IsConnection(r)
      /\ r.server = "ended" /\ Owed(r) <= Owed(k)
  BY <1>1, EndedFacts
<1> HIDE DEF r
<1>4. /\ r.phone = k.phone /\ r.broken = k.broken /\ r.code = k.code /\ r.grabbing = k.grabbing
      /\ r.down = k.down
  BY <1>3 DEF But, ConnectionFields
<1>5. Holds(client, c, r)
  <2>1. r.broken /\ client.inFlight \in Nat
    BY <1>1, <1>2, <1>4 DEF Client
  <2> QED
    BY <1>1, <1>2, <1>3, <1>4, <2>1, EndHolds
<1> QED
  BY <1>2, <1>3, <1>5, SameClient

LEMMA ReceiveUpStep == ASSUME IInv, NEW c \in Conn, ReceiveUp(c) PROVE IInv'
<1> DEFINE k == conn[c]
           j == [k EXCEPT !.up = Tail(@)]
           m == Head(k.up)
<1>1. /\ IsConnection(k) /\ Holds(client, c, k) /\ DOMAIN conn = Conn /\ DOMAIN k = ConnectionFields
      /\ client \in Client
  BY Facts DEF IsConnection
<1>2. /\ conn' = [conn EXCEPT ![c] = IF m = "frame" THEN [j EXCEPT !.latest = TRUE] ELSE Ended(j, m = "stop")]
      /\ client' = client /\ k.server = "streaming" /\ k.up # <<>>
  BY <1>1 DEF ReceiveUp
<1> HIDE DEF k
<1>3. But({"up"}, j, k)
  BY <1>1 DEF But
<1>4. j.up = Tail(k.up)
  BY <1>1 DEF ConnectionFields
<1> HIDE DEF j
<1>5. /\ m \in Upward /\ Tail(k.up) \in Ups /\ StopFirst(k.up) /\ m # "close"
      /\ m = "frame" => StopFirst(Tail(k.up))
  BY <1>1, <1>2, UpTail DEF IsConnection, Holds, StopBeforeClose
<1>6. /\ Count(k.up, "frame") = Count(Tail(k.up), "frame") + Flag(m = "frame")
      /\ Count(Tail(k.up), "frame") \in Nat
  <2>1. k.up \in Seq(Upward) /\ k.up # <<>> /\ Tail(k.up) \in Seq(Upward)
    BY <1>1, <1>2, <1>5 DEF IsConnection, Ups
  <2> QED
    BY <2>1, CountTail, CountType
<1> HIDE DEF m
<1>7. IsConnection(j)
  BY <1>1, <1>3, <1>4, <1>5 DEF IsConnection, But, ConnectionFields
<1>8. /\ j.phone = k.phone /\ j.server = k.server /\ j.broken = k.broken /\ j.code = k.code
      /\ j.clean = k.clean /\ j.down = k.down /\ j.encoding = k.encoding /\ j.latest = k.latest
      /\ j.busy = k.busy /\ j.grabbing = k.grabbing
  BY <1>3 DEF But, ConnectionFields
<1>9. client.inFlight \in Nat /\ OnlyFirst(k.down)
  BY <1>1 DEF Client, Holds, StartedFirst
<1>10. CASE m = "frame"
  <2> DEFINE r == [j EXCEPT !.latest = TRUE]
  <2>1. But({"latest"}, r, j)
    BY <1>7 DEF But, IsConnection
  <2>2. r.latest = TRUE
    BY <1>7 DEF IsConnection, ConnectionFields
  <2>3. conn' = [conn EXCEPT ![c] = r]
    BY <1>2, <1>10
  <2> HIDE DEF r
  <2>4. /\ r.phone = k.phone /\ r.server = k.server /\ r.broken = k.broken /\ r.code = k.code
        /\ r.clean = k.clean /\ r.down = k.down /\ r.up = Tail(k.up) /\ r.encoding = k.encoding
        /\ r.busy = k.busy /\ r.grabbing = k.grabbing
    BY <1>4, <1>8, <2>1 DEF But, ConnectionFields
  <2>5. IsConnection(r)
    <3>1. r.latest \in BOOLEAN
      BY <2>2
    <3> QED
      BY <1>7, <2>1, <3>1 DEF IsConnection, But, ConnectionFields
  <2>6. Count(k.up, "frame") = Count(r.up, "frame") + 1
    BY <1>6, <1>10, <2>4 DEF Flag
  <2>7. Owed(r) <= Owed(k)
    <3>1. Flag(r.latest) = 1
      BY <2>2 DEF Flag
    <3> QED
      BY <1>1, <2>4, <2>5, <2>6, <3>1, OwedParts DEF Owed
  <2>8. ~Fresh(k)
    <3>1. Count(k.up, "frame") # 0
      BY <1>6, <2>4, <2>6
    <3> QED
      BY <1>1, <3>1, OweNothing DEF Holds, NothingOwedAtFirst
  <2>9. Holds(client, c, r)
    BY <1>1, <1>2, <1>5, <1>9, <1>10, <2>4, <2>5, <2>7, <2>8, LessOwed
  <2> QED
    BY <1>2, <2>3, <2>5, <2>9, SameClient
<1>11. CASE m # "frame"
  <2> DEFINE r == Ended(j, TRUE)
  <2>1. m = "stop"
    BY <1>5, <1>11 DEF Upward
  <2>2. conn' = [conn EXCEPT ![c] = r]
    <3>1. (m = "stop") = TRUE
      BY <2>1
    <3> QED
      BY <1>2, <1>11, <3>1
  <2>3. /\ But({"server", "clean", "latest", "busy"}, r, j) /\ IsConnection(r)
        /\ r.server = "ended" /\ r.clean = TRUE /\ Owed(r) <= Owed(j)
    BY <1>7, EndedFacts
  <2> HIDE DEF r
  <2>4. /\ r.phone = k.phone /\ r.broken = k.broken /\ r.code = k.code /\ r.grabbing = k.grabbing
        /\ r.down = k.down
    BY <1>8, <2>3 DEF But, ConnectionFields
  <2>5. Owed(j) <= Owed(k)
    <3>1. Flag(m = "frame") = 0
      BY <1>11 DEF Flag
    <3> QED
      BY <1>1, <1>4, <1>6, <1>8, <3>1, OwedParts DEF Owed
  <2>6. Owed(r) <= Owed(k)
    BY <1>1, <1>7, <2>3, <2>5, OwedParts
  <2>7. Holds(client, c, r)
    <3>1. r.clean
      BY <2>3
    <3> QED
      BY <1>1, <1>2, <1>9, <2>3, <2>4, <2>6, <3>1, EndHolds
  <2> QED
    BY <1>2, <2>2, <2>3, <2>7, SameClient
<1> QED
  BY <1>10, <1>11

LEMMA AcceptStep == ASSUME IInv, NEW c \in Conn, Accept(c) PROVE IInv'
<1> DEFINE k == conn[c]
           j == SendDown(k, <<"started">>)
           r == [j EXCEPT !.server = "streaming"]
<1>1. /\ IsConnection(k) /\ Holds(client, c, k) /\ DOMAIN conn = Conn /\ DOMAIN k = ConnectionFields
      /\ client \in Client
  BY Facts DEF IsConnection
<1>2. conn' = [conn EXCEPT ![c] = r] /\ client' = client /\ k.server = "hello"
  BY <1>1 DEF Accept
<1> HIDE DEF k
<1>3. But({"down"}, j, k) /\ (j.down = k.down \/ j.down = k.down \o <<"started">>)
  BY <1>1, SentDown
<1> HIDE DEF j
<1>4. But({"server"}, r, j)
  BY <1>3 DEF But
<1>5. r.server = "streaming"
  BY <1>3 DEF But, ConnectionFields
<1> HIDE DEF r
<1>6. k.down = <<>> /\ Fresh(k) /\ k.grabbing = 0 /\ Owed(k) = 0
  BY <1>1, <1>2 DEF Holds, StartedFirst, NothingOwedAtFirst, Fresh
<1>7. r.down \in Downs /\ OnlyFirst(r.down) /\ Count(r.down, "answer") = 0
  <2> DEFINE q == <<"started">>
  <2>1. r.down = <<>> \/ r.down = q
    BY <1>3, <1>4, <1>6 DEF But, ConnectionFields
  <2>2. q \in Downs /\ <<>> \in Downs /\ OnlyFirst(q) /\ OnlyFirst(<<>>)
    BY DEF Downs, Downward, OnlyFirst
  <2>3. Count(<<>>, "answer") = 0
    BY CountEmpty
  <2>4. Count(q, "answer") = 0
    <3>1. {i \in DOMAIN q : q[i] = "answer"} = {}
      OBVIOUS
    <3> QED
      BY <3>1, FS_EmptySet DEF Count
  <2> HIDE DEF q
  <2> QED
    BY <2>1, <2>2, <2>3, <2>4
<1>8. /\ r.phone = k.phone /\ r.broken = k.broken /\ r.code = k.code /\ r.clean = k.clean
      /\ r.up = k.up /\ r.encoding = k.encoding /\ r.latest = k.latest /\ r.busy = k.busy
      /\ r.grabbing = k.grabbing /\ DOMAIN r = ConnectionFields
  BY <1>3, <1>4 DEF But, ConnectionFields
<1>9. IsConnection(r)
  BY <1>1, <1>5, <1>7, <1>8 DEF IsConnection
<1>10. Owed(r) = 0
  BY <1>1, <1>6, <1>7, <1>8, OweNothing, OwedParts DEF Owed
<1>11. Holds(client, c, r)
  <2>1. /\ StartedFirst(r) /\ NothingOwedAtFirst(r) /\ StopBeforeClose(r) /\ EndedCleanly(r)
        /\ OnlyOneLive(client, c, r)
    BY <1>1, <1>2, <1>5, <1>6, <1>7, <1>8, <1>10
       DEF Holds, StartedFirst, NothingOwedAtFirst, StopBeforeClose, EndedCleanly, OnlyOneLive, Live
  <2>2. CountCovers(client, c, r)
    BY <1>1, <1>6 DEF Holds, CountCovers
  <2> QED
    BY <2>1, <2>2 DEF Holds
<1> QED
  BY <1>2, <1>9, <1>11, SameClient

LEMMA RejectedFacts ==
  ASSUME NEW k, IsConnection(k), NEW x
  PROVE  /\ But({"down", "server", "code"}, Rejected(k, x), k)
         /\ Rejected(k, x).server = "ended" /\ Rejected(k, x).code = x
         /\ Rejected(k, x).down \in {k.down, k.down \o <<"error", "close">>}
<1> DEFINE j == SendDown(k, <<"error", "close">>)
           r == [j EXCEPT !.server = "ended", !.code = x]
<1>1. But({"down"}, j, k) /\ j.down \in {k.down, k.down \o <<"error", "close">>}
  BY SentDown
<1> HIDE DEF j
<1>2. But({"server", "code"}, r, j)
  BY <1>1 DEF But
<1>3. r.server = "ended" /\ r.code = x
  BY <1>1 DEF But, ConnectionFields
<1>4. Rejected(k, x) = r
  BY DEF Rejected, j
<1> HIDE DEF r
<1>5. But({"down", "server", "code"}, r, k) /\ r.down = j.down
  BY <1>1, <1>2 DEF But, ConnectionFields
<1> QED
  BY <1>1, <1>3, <1>4, <1>5

LEMMA RejectedHolds ==
  ASSUME IInv, NEW c \in Conn, conn[c].server = "hello", NEW x \in RejectCodes
  PROVE  IsConnection(Rejected(conn[c], x)) /\ Holds(client, c, Rejected(conn[c], x))
<1> DEFINE k == conn[c]
           r == Rejected(k, x)
<1>1. /\ IsConnection(k) /\ Holds(client, c, k) /\ DOMAIN conn = Conn /\ DOMAIN k = ConnectionFields
      /\ client \in Client
  BY Facts DEF IsConnection
<1>3. k.server = "hello"
  OBVIOUS
<1>4. /\ But({"down", "server", "code"}, r, k) /\ r.server = "ended" /\ r.code = x
      /\ r.down \in {k.down, k.down \o <<"error", "close">>}
  BY <1>1, RejectedFacts
<1> HIDE DEF k, r
<1>6. k.down = <<>> /\ Fresh(k) /\ k.grabbing = 0 /\ Owed(k) = 0
  BY <1>1, <1>3 DEF Holds, StartedFirst, NothingOwedAtFirst, Fresh
<1>7. r.down \in Downs /\ OnlyFirst(r.down) /\ ~Says(r.down)
  <2>1. r.down = <<>> \/ r.down = <<"error", "close">>
    BY <1>1, <1>4, <1>6 DEF IsConnection, Downs
  <2>2. CASE r.down = <<>>
    BY <2>2 DEF Downs, Downward, OnlyFirst, Says
  <2>3. CASE r.down = <<"error", "close">>
    BY <2>3 DEF Downs, Downward, OnlyFirst, Says
  <2> QED
    BY <2>1, <2>2, <2>3
<1>8. /\ r.phone = k.phone /\ r.broken = k.broken /\ r.clean = k.clean
      /\ r.up = k.up /\ r.encoding = k.encoding /\ r.latest = k.latest /\ r.busy = k.busy
      /\ r.grabbing = k.grabbing /\ DOMAIN r = ConnectionFields
  BY <1>4 DEF But, ConnectionFields
<1>9. IsConnection(r)
  BY <1>1, <1>4, <1>7, <1>8 DEF IsConnection, RejectCodes
<1>10. Holds(client, c, r)
  <2>1. /\ StartedFirst(r) /\ NothingOwedAtFirst(r) /\ StopBeforeClose(r) /\ EndedCleanly(r)
        /\ OnlyOneLive(client, c, r)
    BY <1>1, <1>3, <1>4, <1>7, <1>8
       DEF RejectCodes, Holds, StartedFirst, NothingOwedAtFirst, StopBeforeClose, EndedCleanly, OnlyOneLive, Live, Fresh
  <2>2. CountCovers(client, c, r)
    BY <1>1, <1>6 DEF Holds, CountCovers
  <2> QED
    BY <2>1, <2>2 DEF Holds
<1> QED
  BY <1>9, <1>10 DEF k, r

LEMMA RejectStep == ASSUME IInv, NEW c \in Conn, Reject(c) PROVE IInv'
<1>1. conn[c].server = "hello" /\ client' = client
  BY DEF Reject
<1>2. PICK code \in RejectCodes : conn' = [conn EXCEPT ![c] = Rejected(conn[c], code)]
  BY DEF Reject
<1>3. IsConnection(Rejected(conn[c], code)) /\ Holds(client, c, Rejected(conn[c], code))
  BY <1>1, RejectedHolds
<1>4. PICK r : r = Rejected(conn[c], code)
  OBVIOUS
<1>5. conn' = [conn EXCEPT ![c] = r] /\ IsConnection(r) /\ Holds(client, c, r)
  BY <1>2, <1>3, <1>4
<1> QED
  BY <1>1, <1>5, SameClient

-----------------------------------------------------------------------------
(* The steps that change the client.  A camera that gives its picture in time *)
(* is counted before its bytes are sent.                                      *)
LEMMA GrabbedStep == ASSUME IInv, NEW c \in Conn, Grabbed(c) PROVE IInv'
<1> DEFINE k == conn[c]
<1>1. /\ IsConnection(k) /\ Holds(client, c, k) /\ DOMAIN conn = Conn /\ DOMAIN k = ConnectionFields
      /\ client \in Client /\ Consistent(client)
  BY Facts DEF IsConnection, IInv
<1>2. k.grabbing > 0 /\ k.grabbing \in Nat /\ k.encoding \in Nat
  BY <1>1 DEF Grabbed, IsConnection
<1>3. ~Fresh(k) /\ client.inFlight \in Nat /\ OnlyFirst(k.down)
      /\ (k.server \in {"none", "hello"} => k.down = <<>>)
  BY <1>1, <1>2, OwesNotFresh DEF Holds, Client, StartedFirst
<1>4. CASE k.phone = "open"
  <2> DEFINE r  == [k EXCEPT !.grabbing = @ - 1, !.encoding = @ + 1]
             cl == [client EXCEPT !.inFlight = @ + 1]
  <2>1. conn' = [conn EXCEPT ![c] = r] /\ client' = cl
    BY <1>1, <1>4 DEF Grabbed
  <2>2. cl \in Client /\ cl.inFlight = client.inFlight + 1
    BY <1>1 DEF Client
  <2>3. /\ cl.started = client.started /\ cl.ws = client.ws /\ cl.opened = client.opened
        /\ cl.timer = client.timer /\ cl.retry = client.retry
    BY <1>1 DEF Client
  <2> HIDE DEF k, cl
  <2>4. But({"grabbing", "encoding"}, r, k)
    BY <1>1 DEF But
  <2>5. r.grabbing = k.grabbing - 1 /\ r.encoding = k.encoding + 1
    BY <1>1 DEF ConnectionFields
  <2> HIDE DEF r
  <2>6. /\ r.phone = k.phone /\ r.server = k.server /\ r.broken = k.broken /\ r.code = k.code
        /\ r.clean = k.clean /\ r.down = k.down /\ r.up = k.up /\ r.latest = k.latest /\ r.busy = k.busy
        /\ DOMAIN r = ConnectionFields
    BY <2>4 DEF But, ConnectionFields
  <2>7. IsConnection(r)
    <3>1. r.grabbing \in Nat /\ r.encoding \in Nat
      BY <1>2, <2>5
    <3> QED
      BY <1>1, <2>6, <3>1 DEF IsConnection
  <2>8. Owed(r) = Owed(k) + 1 /\ Owed(k) \in Nat
    BY <1>1, <2>5, <2>6, OwedParts DEF Owed
  <2>9. Holds(cl, c, r)
    <3>1. /\ StartedFirst(r) /\ NothingOwedAtFirst(r) /\ StopBeforeClose(r) /\ EndedCleanly(r)
          /\ OnlyOneLive(cl, c, r)
      BY <1>1, <1>3, <2>3, <2>6
         DEF Holds, StartedFirst, NothingOwedAtFirst, StopBeforeClose, EndedCleanly, OnlyOneLive, Live, Fresh
    <3>2. CountCovers(cl, c, r)
      <4>1. ASSUME cl.timer, cl.ws = c PROVE r.phone = "open" /\ ~Fresh(r) /\ Owed(r) <= cl.inFlight
        <5>1. Owed(k) <= client.inFlight
          BY <1>1, <2>3, <4>1 DEF Holds, CountCovers
        <5> QED
          BY <1>3, <1>4, <2>2, <2>6, <2>8, <5>1 DEF Fresh
      <4> QED
        BY <4>1 DEF CountCovers
    <3> QED
      BY <3>1, <3>2 DEF Holds
  <2>10. \A d \in Conn \ {c} : Holds(cl, d, conn[d])
    <3>1. Live(conn[c]) /\ client.ws = c
      BY <1>1, <1>4 DEF k, Live, Holds, OnlyOneLive
    <3> QED
      BY <2>3, <3>1, OthersHold
  <2>11. Consistent(client)'
    BY <1>1, <2>1, <2>3 DEF Consistent
  <2> QED
    BY <2>1, <2>2, <2>7, <2>9, <2>10, <2>11, OneConnection
<1>5. CASE k.phone # "open"
  <2> DEFINE r == [k EXCEPT !.grabbing = @ - 1]
  <2>1. conn' = [conn EXCEPT ![c] = r] /\ client' = client
    BY <1>1, <1>5 DEF Grabbed
  <2> HIDE DEF k
  <2>2. But({"grabbing"}, r, k)
    BY <1>1 DEF But
  <2>3. r.grabbing = k.grabbing - 1
    BY <1>1 DEF ConnectionFields
  <2> HIDE DEF r
  <2>4. IsConnection(r)
    <3>1. r.grabbing \in Nat
      BY <1>2, <2>3
    <3> QED
      BY <1>1, <2>2, <3>1 DEF IsConnection, But, ConnectionFields
  <2>5. /\ r.phone = k.phone /\ r.server = k.server /\ r.broken = k.broken /\ r.code = k.code
        /\ r.clean = k.clean /\ r.down = k.down /\ r.up = k.up
    BY <2>2 DEF But, ConnectionFields
  <2>6. Owed(r) = Owed(k) /\ Owed(k) \in Nat
    BY <1>1, <2>2, OwedParts DEF Owed, But, ConnectionFields
  <2>7. Holds(client, c, r)
    BY <1>1, <1>3, <2>4, <2>5, <2>6, LessOwed
  <2> QED
    BY <2>1, <2>4, <2>7, SameClient
<1> QED
  BY <1>4, <1>5

(* The end of a connection by the client. *)
LEMMA HungUp ==
  ASSUME NEW k, IsConnection(k), NEW r, r = HangUp(k)
  PROVE  /\ But({"up", "phone"}, r, k) /\ r.phone = "closed" /\ r.up \in Ups
         /\ StopFirst(k.up) => StopFirst(r.up)
         /\ Count(r.up, "frame") = Count(k.up, "frame")
<1> DEFINE j == SendUp(k, <<"stop", "close">>)
           a == Append(k.up, "stop")
           b == Append(a, "close")
<1>1. But({"up"}, j, k) /\ (j.up = k.up \/ j.up = k.up \o <<"stop", "close">>)
  BY SentUp
<1>2. k.up \in Ups /\ k.up \in Seq(Upward) /\ "stop" \in Upward /\ "close" \in Upward
  BY DEF IsConnection, Ups, Upward
<1>3. a \in Ups /\ (StopFirst(k.up) => StopFirst(a)) /\ a \in Seq(Upward)
  BY <1>2, UpAppend DEF Ups
<1>4. \E i \in DOMAIN a : a[i] = "stop"
  BY <1>2, AppendProperties
<1>5. k.up \o <<"stop", "close">> = b
  BY <1>2
<1>6. Count(a, "frame") = Count(k.up, "frame") + Flag("stop" = "frame") /\ Count(k.up, "frame") \in Nat
  <2>1. Count(k.up, "frame") \in Nat
    BY <1>2, CountType
  <2> QED
    BY <1>2, <2>1, CountAppend
<1> HIDE DEF a
<1>7. b \in Ups /\ (StopFirst(k.up) => StopFirst(b))
  BY <1>2, <1>3, <1>4, UpAppend
<1>8. Count(b, "frame") = Count(a, "frame") + Flag("close" = "frame")
  BY <1>2, <1>3, CountAppend
<1>9. Count(b, "frame") = Count(k.up, "frame")
  BY <1>6, <1>8 DEF Flag
<1> HIDE DEF b
<1>10. j.up \in Ups /\ (StopFirst(k.up) => StopFirst(j.up)) /\ Count(j.up, "frame") = Count(k.up, "frame")
  <2>1. CASE j.up = k.up
    BY <1>2, <2>1
  <2>2. CASE j.up = b
    BY <1>7, <1>9, <2>2
  <2> QED
    BY <1>1, <1>5, <2>1, <2>2
<1>11. DOMAIN k = ConnectionFields
  BY DEF IsConnection
<1>12. CASE k.phone = "open"
  <2>1. r = [j EXCEPT !.phone = "closed"]
    BY <1>12 DEF HangUp
  <2> HIDE DEF j
  <2>2. But({"phone"}, r, j)
    BY <1>1, <2>1 DEF But
  <2>3. r.phone = "closed" /\ r.up = j.up
    BY <1>1, <2>1 DEF But, ConnectionFields
  <2>4. But({"up", "phone"}, r, k)
    BY <1>1, <2>2 DEF But
  <2> QED
    BY <1>10, <2>3, <2>4
<1>13. CASE k.phone # "open"
  <2>1. r = [k EXCEPT !.phone = "closed"]
    BY <1>13 DEF HangUp
  <2>2. But({"up", "phone"}, r, k)
    BY <1>11, <2>1 DEF But
  <2>3. r.phone = "closed" /\ r.up = k.up
    BY <1>11, <2>1 DEF ConnectionFields
  <2> QED
    BY <1>2, <2>2, <2>3
<1> QED
  BY <1>12, <1>13

(* The phone is done with connection c, of which nobody else is alive: what it *)
(* had still to read may be read before, and what it sends last is the stop.   *)
LEMMA PhoneGone ==
  ASSUME NEW cl, NEW cx, NEW c, NEW k, NEW r, IsConnection(k), IsConnection(r), Holds(cl, c, k),
         But({"phone", "up", "down"}, r, k), r.phone = "closed",
         StopFirst(k.up) => StopFirst(r.up), Count(r.up, "frame") = Count(k.up, "frame"),
         r.down = k.down \/ (k.down # <<>> /\ r.down = Tail(k.down)),
         ~cx.timer, ~(c > cx.opened)
  PROVE  Holds(cx, c, r)
<1>1. /\ r.server = k.server /\ r.broken = k.broken /\ r.code = k.code /\ r.clean = k.clean
      /\ r.encoding = k.encoding /\ r.latest = k.latest /\ r.busy = k.busy /\ r.grabbing = k.grabbing
  BY DEF But, ConnectionFields
<1>2. k.down \in Downs /\ (k.server \in {"none", "hello"} => k.down = <<>>) /\ OnlyFirst(k.down)
  BY DEF IsConnection, Holds, StartedFirst
<1>3. StartedFirst(r) /\ NothingOwedAtFirst(r)
  <2>1. CASE r.down = k.down
    <3>1. Owed(r) = Owed(k) /\ (Fresh(r) <=> Fresh(k))
      BY <1>1, <2>1 DEF Owed, Fresh
    <3> QED
      BY <1>1, <1>2, <2>1, <3>1 DEF Holds, StartedFirst, NothingOwedAtFirst
  <2>2. CASE k.down # <<>> /\ r.down = Tail(k.down)
    <3>1. ~Says(r.down) /\ OnlyFirst(r.down)
      BY <1>2, <2>2, DownTail
    <3>2. k.server \notin {"none", "hello"}
      BY <1>2, <2>2
    <3> QED
      BY <1>1, <3>1, <3>2 DEF StartedFirst, NothingOwedAtFirst, Fresh
  <2> QED
    BY <2>1, <2>2
<1>4. StopBeforeClose(r) /\ EndedCleanly(r) /\ OnlyOneLive(cx, c, r) /\ CountCovers(cx, c, r)
  BY <1>1 DEF Holds, StopBeforeClose, EndedCleanly, OnlyOneLive, CountCovers, Live
<1> QED
  BY <1>3, <1>4 DEF Holds

LEMMA LeaveStep ==
  ASSUME IInv, NEW c \in Conn, ~(c > client.opened), \A d \in Conn \ {c} : ~Live(conn[d]),
         NEW r, IsConnection(r), conn' = [conn EXCEPT ![c] = r],
         But({"phone", "up", "down"}, r, conn[c]), r.phone = "closed",
         StopFirst(conn[c].up) => StopFirst(r.up), Count(r.up, "frame") = Count(conn[c].up, "frame"),
         r.down = conn[c].down \/ (conn[c].down # <<>> /\ r.down = Tail(conn[c].down)),
         client' \in Client, Consistent(client)', client'.opened = client.opened, ~client'.timer
  PROVE  IInv'
<1>1. IsConnection(conn[c]) /\ Holds(client, c, conn[c])
  BY Facts
<1>2. PICK cx : cx = client'
  OBVIOUS
<1>3. Holds(cx, c, r)
  <2> DEFINE k == conn[c]
  <2>1. /\ IsConnection(k) /\ Holds(client, c, k) /\ But({"phone", "up", "down"}, r, k)
        /\ StopFirst(k.up) => StopFirst(r.up)
        /\ Count(r.up, "frame") = Count(k.up, "frame")
        /\ r.down = k.down \/ (k.down # <<>> /\ r.down = Tail(k.down))
    BY <1>1
  <2>2. ~cx.timer /\ ~(c > cx.opened)
    BY <1>2
  <2> HIDE DEF k
  <2> QED
    BY <2>1, <2>2, PhoneGone
<1>4. \A d \in Conn \ {c} : Holds(cx, d, conn[d])
  <2> SUFFICES ASSUME NEW d \in Conn \ {c} PROVE Holds(cx, d, conn[d])
    OBVIOUS
  <2>1. Holds(client, d, conn[d])
    BY DEF IInv
  <2>2. ~cx.timer /\ cx.opened = client.opened
    BY <1>2
  <2> QED
    BY <2>1, <2>2 DEF Holds, OnlyOneLive, CountCovers
<1> QED
  BY <1>2, <1>3, <1>4, OneConnection

(* The client uses the only connection that is alive. *)
LEMMA LiveAlone ==
  ASSUME IInv, NEW c \in Conn, Live(conn[c])
  PROVE  /\ client.ws = c /\ client.started /\ ~client.retry /\ ~(c > client.opened)
         /\ \A d \in Conn \ {c} : ~Live(conn[d])
<1>1. Holds(client, c, conn[c]) /\ \A d \in Conn \ {c} : Holds(client, d, conn[d])
  BY DEF IInv
<1>2. client.ws = c /\ client.started /\ ~client.retry
  BY <1>1 DEF Holds, OnlyOneLive
<1>3. ~(c > client.opened)
  BY <1>1 DEF Holds, OnlyOneLive, Live
<1>4. \A d \in Conn \ {c} : ~Live(conn[d])
  BY <1>1, <1>2 DEF Holds, OnlyOneLive
<1> QED
  BY <1>2, <1>3, <1>4

LEMMA StoppedClient ==
  ASSUME NEW cl \in Client, Consistent(cl)
  PROVE  /\ Stopped(cl) \in Client /\ Consistent(Stopped(cl))
         /\ Stopped(cl).opened = cl.opened /\ ~Stopped(cl).timer /\ Stopped(cl).ws = None
<1> DEFINE r == Stopped(cl)
<1>1. /\ r \in Client /\ r.opened = cl.opened /\ r.opened \in Conn \cup {None}
      /\ r.timer = FALSE /\ r.retry = FALSE /\ r.ws = None
  BY DEF Stopped, Client
<1>2. r.ws <= r.opened
  BY <1>1, StreamBounds DEF Conn, None
<1> HIDE DEF r
<1>3. Consistent(r)
  BY <1>1, <1>2 DEF Consistent
<1> QED
  BY <1>1, <1>3 DEF r

LEMMA StopStep == ASSUME IInv, Stop PROVE IInv'
<1> DEFINE cl == [client EXCEPT !.asked = TRUE]
<1>1. client \in Client /\ Consistent(client) /\ DOMAIN conn = Conn /\ \A c \in Conn : IsConnection(conn[c])
  BY DEF IInv, TypeOK
<1>2. cl \in Client /\ cl.ws = client.ws /\ cl.opened = client.opened /\ cl.timer = client.timer
      /\ cl.retry = client.retry /\ cl.started = client.started
  BY <1>1 DEF Client
<1>3. Consistent(cl)
  BY <1>1, <1>2 DEF Consistent
<1>4. StopClient(cl, conn)
  BY DEF Stop
<1> HIDE DEF cl
<1>5. client' = Stopped(cl)
  BY <1>4 DEF StopClient
<1>6. client' \in Client /\ Consistent(client)' /\ client'.opened = client.opened /\ ~client'.timer
  <2>1. PICK cx : cx = Stopped(cl)
    OBVIOUS
  <2>2. cx \in Client /\ Consistent(cx) /\ cx.opened = client.opened /\ ~cx.timer
    BY <1>2, <1>3, <2>1, StoppedClient
  <2> QED
    BY <1>5, <2>1, <2>2 DEF Consistent
<1>7. \A d \in Conn : d # client.ws => ~Live(conn[d])
  BY DEF IInv, Holds, OnlyOneLive
<1>8. CASE client.ws = None
  <2>1. conn' = conn
    BY <1>2, <1>4, <1>8 DEF StopClient
  <2>2. PICK cx : cx = client'
    OBVIOUS
  <2>3. ASSUME NEW d \in Conn PROVE Holds(cx, d, conn[d])
    <3>1. Holds(client, d, conn[d]) /\ ~Live(conn[d])
      BY <1>7, <1>8 DEF IInv, None, Conn
    <3>2. ~cx.timer /\ cx.opened = client.opened
      BY <1>6, <2>2
    <3> QED
      BY <3>1, <3>2 DEF Holds, OnlyOneLive, CountCovers
  <2> QED
    BY <1>1, <1>6, <2>1, <2>2, <2>3 DEF IInv, TypeOK
<1>9. CASE client.ws # None
  <2>1. PICK c \in Conn : c = client.ws
    BY <1>1, <1>9 DEF Client
  <2>2. PICK k : k = conn[c]
    OBVIOUS
  <2>3. IsConnection(k)
    BY <1>1, <2>2
  <2>4. PICK r : r = HangUp(k)
    OBVIOUS
  <2>5. conn' = [conn EXCEPT ![c] = r]
    BY <1>2, <1>4, <1>9, <2>1, <2>2, <2>4 DEF StopClient
  <2>6. /\ But({"up", "phone"}, r, k) /\ r.phone = "closed" /\ r.up \in Ups
        /\ StopFirst(k.up) => StopFirst(r.up)
        /\ Count(r.up, "frame") = Count(k.up, "frame")
    BY <2>3, <2>4, HungUp
  <2>7. But({"phone", "up", "down"}, r, k) /\ r.down = k.down
    BY <2>6 DEF But, ConnectionFields
  <2>8. IsConnection(r)
    BY <2>3, <2>6 DEF IsConnection, But, ConnectionFields
  <2>9. ~(c > client.opened)
    BY <1>1, <2>1, StreamBounds DEF Consistent, Client, Conn, None
  <2>10. \A d \in Conn \ {c} : ~Live(conn[d])
    BY <1>7, <2>1
  <2> QED
    BY <1>6, <2>2, <2>5, <2>6, <2>7, <2>8, <2>9, <2>10, LeaveStep
<1> QED
  BY <1>8, <1>9


(* A new connection is opened when none is alive. *)
LEMMA ConnectStep ==
  ASSUME IInv, \A d \in Conn : ~Live(conn[d]), NEW cl \in Client, cl.opened = client.opened,
         cl.timer = client.timer, cl.started, ~cl.retry, Connect(cl)
  PROVE  IInv'
<1>1. client \in Client /\ Consistent(client) /\ DOMAIN conn = Conn /\ \A c \in Conn : IsConnection(conn[c])
  BY DEF IInv, TypeOK
<1>2. ~client.timer
  <2>1. SUFFICES ASSUME client.timer PROVE FALSE
    OBVIOUS
  <2>2. PICK c \in Conn : c = client.ws
    BY <1>1, <2>1 DEF Client, Consistent
  <2>3. Holds(client, c, conn[c]) /\ ~Live(conn[c])
    BY DEF IInv
  <2> QED
    BY <2>1, <2>2, <2>3 DEF Holds, CountCovers, Live
<1>3. PICK c : c = cl.opened + 1
  OBVIOUS
<1>4. c \in Conn /\ c = client.opened + 1 /\ client.opened \in Nat
  BY <1>1, <1>3, StreamBounds DEF Connect, Client, Conn, None
<1>5. PICK cx : cx = Connected(cl)
  OBVIOUS
<1>6. client' = cx
  BY <1>5 DEF Connect
<1>7. cx \in Client /\ cx.ws = c /\ cx.opened = c /\ cx.timer = FALSE /\ cx.started /\ ~cx.retry
  <2>1. cx = [cl EXCEPT !.ws = c, !.opened = c]
    BY <1>3, <1>5 DEF Connected
  <2> QED
    BY <1>1, <1>2, <1>4, <2>1 DEF Client
<1>8. PICK k : k = conn[c]
  OBVIOUS
<1>9. IsConnection(k) /\ Holds(client, c, k) /\ k.phone = "none" /\ k.server = "none"
  BY <1>1, <1>4, <1>8 DEF IInv, Holds, OnlyOneLive
<1>10. PICK r : r = [k EXCEPT !.phone = "connecting"]
  OBVIOUS
<1>11. conn' = [conn EXCEPT ![c] = r]
  BY <1>3, <1>8, <1>10 DEF Connect
<1>12. But({"phone"}, r, k) /\ r.phone = "connecting"
  BY <1>9, <1>10 DEF IsConnection, But, ConnectionFields
<1>13. /\ r.server = k.server /\ r.broken = k.broken /\ r.code = k.code /\ r.clean = k.clean
       /\ r.up = k.up /\ r.down = k.down /\ r.encoding = k.encoding /\ r.latest = k.latest
       /\ r.busy = k.busy /\ r.grabbing = k.grabbing /\ DOMAIN r = ConnectionFields
  BY <1>12 DEF But, ConnectionFields
<1>14. IsConnection(r)
  BY <1>9, <1>12, <1>13 DEF IsConnection
<1>15. Holds(cx, c, r)
  <2>1. Owed(r) = Owed(k) /\ (Fresh(r) <=> Fresh(k))
    BY <1>13 DEF Owed, Fresh
  <2>2. ~(c > cx.opened)
    BY <1>4, <1>7
  <2> QED
    BY <1>7, <1>9, <1>12, <1>13, <2>1, <2>2
       DEF Holds, StartedFirst, NothingOwedAtFirst, StopBeforeClose, EndedCleanly, OnlyOneLive, CountCovers, Live
<1>16. \A d \in Conn \ {c} : Holds(cx, d, conn[d])
  <2> SUFFICES ASSUME NEW d \in Conn \ {c} PROVE Holds(cx, d, conn[d])
    OBVIOUS
  <2>1. Holds(client, d, conn[d]) /\ ~Live(conn[d])
    BY DEF IInv
  <2>2. d > cx.opened => d > client.opened
    BY <1>4, <1>7 DEF Conn
  <2> QED
    BY <1>7, <2>1, <2>2 DEF Holds, OnlyOneLive, CountCovers
<1>17. Consistent(client)'
  BY <1>4, <1>6, <1>7 DEF Consistent, Conn, None
<1> QED
  BY <1>4, <1>6, <1>7, <1>11, <1>14, <1>15, <1>16, <1>17, OneConnection

LEMMA StartStep == ASSUME IInv, Start PROVE IInv'
<1>1. client \in Client /\ \A d \in Conn : ~Live(conn[d])
  BY DEF IInv, TypeOK, Start, Holds, OnlyOneLive
<1>2. ~client.retry
  BY <1>1 DEF IInv, Consistent, Start
<1>3. PICK cl : cl = [client EXCEPT !.started = TRUE, !.running = TRUE]
  OBVIOUS
<1>4. cl \in Client /\ cl.opened = client.opened /\ cl.timer = client.timer /\ cl.started /\ ~cl.retry
  BY <1>1, <1>2, <1>3 DEF Client
<1>5. Connect(cl)
  BY <1>3 DEF Start
<1> QED
  BY <1>1, <1>4, <1>5, ConnectStep

LEMMA RetryStep == ASSUME IInv, Retry PROVE IInv'
<1>1. client \in Client /\ \A d \in Conn : ~Live(conn[d])
  BY DEF IInv, TypeOK, Retry, Holds, OnlyOneLive
<1>2. client.started
  BY DEF IInv, Consistent, Retry
<1>3. PICK cl : cl = [client EXCEPT !.retry = FALSE]
  OBVIOUS
<1>4. cl \in Client /\ cl.opened = client.opened /\ cl.timer = client.timer /\ cl.started /\ ~cl.retry
  BY <1>1, <1>2, <1>3 DEF Client
<1>5. Connect(cl)
  BY <1>3 DEF Retry
<1> QED
  BY <1>1, <1>4, <1>5, ConnectStep

(* What onclose makes of the client. *)
LEMMA ClosedClient ==
  ASSUME client \in Client, Consistent(client), client.started, NEW c, NEW ks, NEW code, Closed(c, ks, code)
  PROVE  client' \in Client /\ Consistent(client)' /\ client'.opened = client.opened /\ ~client'.timer
<1>1. PICK cl : cl = [client EXCEPT !.timer = FALSE]
  OBVIOUS
<1>2. /\ cl \in Client /\ cl.opened = client.opened /\ cl.timer = FALSE /\ cl.ws = client.ws
      /\ cl.started = client.started /\ cl.retry = client.retry
  BY <1>1 DEF Client
<1>3. Consistent(cl)
  BY <1>2 DEF Consistent
<1>4. PICK r : r = [cl EXCEPT !.retry = TRUE]
  OBVIOUS
<1>5. r \in Client /\ r.opened = client.opened /\ r.timer = FALSE /\ r.ws = client.ws /\ r.started
  BY <1>2, <1>4 DEF Client
<1>6. Consistent(r)
  BY <1>5 DEF Consistent
<1>7. PICK s : s = Stopped(cl)
  OBVIOUS
<1>8. s \in Client /\ Consistent(s) /\ s.opened = client.opened /\ ~s.timer
  BY <1>2, <1>3, <1>7, StoppedClient
<1>9. client' = cl \/ client' = r \/ client' = s
  BY <1>1, <1>4, <1>7 DEF Closed
<1> QED
  BY <1>2, <1>3, <1>5, <1>6, <1>8, <1>9 DEF Consistent

(* The phone closes connection c, of which it has read j. *)
LEMMA ClosedStep ==
  ASSUME IInv, NEW c \in Conn, Live(conn[c]), NEW j, IsConnection(j), But({"down"}, j, conn[c]),
         j.down = conn[c].down \/ (conn[c].down # <<>> /\ j.down = Tail(conn[c].down)),
         NEW r, r = [j EXCEPT !.phone = "closed"], conn' = [conn EXCEPT ![c] = r],
         client' \in Client, Consistent(client)', client'.opened = client.opened, ~client'.timer
  PROVE  IInv'
<1>1. But({"phone"}, r, j) /\ r.phone = "closed"
  BY DEF IsConnection, But, ConnectionFields
<1>2. IsConnection(r)
  BY <1>1 DEF IsConnection, But, ConnectionFields
<1>3. But({"phone", "up", "down"}, r, conn[c]) /\ r.up = conn[c].up /\ r.down = j.down
  BY <1>1 DEF But, ConnectionFields
<1>4. ~(c > client.opened) /\ \A d \in Conn \ {c} : ~Live(conn[d])
  BY LiveAlone
<1> QED
  BY <1>1, <1>2, <1>3, <1>4, LeaveStep

LEMMA PhoneNoticesStep == ASSUME IInv, NEW c \in Conn, PhoneNotices(c) PROVE IInv'
<1>1. client \in Client /\ Consistent(client) /\ DOMAIN conn = Conn /\ Live(conn[c])
  BY DEF IInv, TypeOK, PhoneNotices, Live
<1>2. client.started
  BY <1>1, LiveAlone
<1>3. PICK k : k = conn[c]
  OBVIOUS
<1>4. IsConnection(k)
  BY <1>3, Facts
<1>5. But({"down"}, k, conn[c])
  BY <1>3, <1>4 DEF But, IsConnection
<1>6. PICK r : r = [k EXCEPT !.phone = "closed"]
  OBVIOUS
<1>7. conn' = [conn EXCEPT ![c] = r]
  BY <1>3, <1>6 DEF PhoneNotices, Closed
<1>8. Closed(c, conn, 1006)
  BY DEF PhoneNotices
<1>9. client' \in Client /\ Consistent(client)' /\ client'.opened = client.opened /\ ~client'.timer
  BY <1>1, <1>2, <1>8, ClosedClient
<1> QED
  BY <1>1, <1>3, <1>4, <1>5, <1>6, <1>7, <1>9, ClosedStep

(* What the phone reads is no longer owed. *)
LEMMA ReadsOne ==
  ASSUME NEW k, IsConnection(k), k.down # <<>>, StartedFirst(k), NEW j, j = [k EXCEPT !.down = Tail(@)]
  PROVE  /\ But({"down"}, j, k) /\ j.down = Tail(k.down) /\ IsConnection(j) /\ ~Fresh(j)
         /\ OnlyFirst(j.down) /\ Head(k.down) \in Downward /\ (Fresh(k) <=> Head(k.down) = "started")
         /\ Owed(k) = Owed(j) + Flag(Head(k.down) = "answer") /\ Owed(j) \in Nat
<1>1. k.down \in Downs /\ OnlyFirst(k.down) /\ k.server \notin {"none", "hello"}
  BY DEF IsConnection, StartedFirst
<1>2. But({"down"}, j, k) /\ j.down = Tail(k.down)
  BY DEF IsConnection, But, ConnectionFields
<1>3. /\ Head(k.down) \in Downward /\ Tail(k.down) \in Downs /\ ~Says(Tail(k.down)) /\ OnlyFirst(Tail(k.down))
      /\ Says(k.down) <=> Head(k.down) = "started"
  BY <1>1, DownTail
<1>4. IsConnection(j)
  BY <1>2, <1>3 DEF IsConnection, But, ConnectionFields
<1>5. Count(k.down, "answer") = Count(j.down, "answer") + Flag(Head(k.down) = "answer")
  BY <1>1, <1>2, CountTail DEF Downs
<1>6. /\ j.up = k.up /\ j.encoding = k.encoding /\ j.latest = k.latest /\ j.busy = k.busy /\ j.server = k.server
  BY <1>2 DEF But, ConnectionFields
<1>7. Owed(k) = Owed(j) + Flag(Head(k.down) = "answer") /\ Owed(j) \in Nat
  <2>1. Owed(j) \in Nat /\ Count(j.down, "answer") \in Nat /\ Count(j.up, "frame") \in Nat /\ j.encoding \in Nat
        /\ Flag(j.latest) \in {0, 1} /\ Flag(j.busy) \in {0, 1}
    BY <1>4, OwedParts
  <2>2. Flag(Head(k.down) = "answer") \in {0, 1}
    BY DEF Flag
  <2> QED
    BY <1>5, <1>6, <2>1, <2>2 DEF Owed
<1> QED
  BY <1>1, <1>2, <1>3, <1>4, <1>6, <1>7 DEF Fresh

(* The number of unanswered frames that is left covers what is still owed. *)
LEMMA CreditCovers ==
  ASSUME NEW n \in Nat, NEW m, m \in {"started", "answer", "alert"}, NEW a \in Nat, NEW b \in Nat,
         a = b + Flag(m = "answer"), m = "started" => a = 0, m = "started" \/ a <= n
  PROVE  Credit(n, m) \in Nat /\ b <= Credit(n, m)
BY DEF Credit, Flag

LEMMA ReceiveStep == ASSUME IInv, NEW c \in Conn, Receive(c) PROVE IInv'
<1>1. /\ client \in Client /\ Consistent(client) /\ DOMAIN conn = Conn /\ Live(conn[c])
      /\ conn[c].phone = "open" /\ conn[c].down # <<>>
  BY DEF IInv, TypeOK, Receive, Live
<1>2. /\ client.ws = c /\ client.started /\ ~client.retry /\ ~(c > client.opened)
      /\ \A d \in Conn \ {c} : ~Live(conn[d])
  BY <1>1, LiveAlone
<1>3. PICK k : k = conn[c]
  OBVIOUS
<1>4. IsConnection(k) /\ Holds(client, c, k) /\ k.phone = "open" /\ k.down # <<>> /\ StartedFirst(k)
  BY <1>1, <1>3, Facts DEF Holds
<1>5. PICK j : j = [k EXCEPT !.down = Tail(@)]
  OBVIOUS
<1>6. /\ But({"down"}, j, k) /\ j.down = Tail(k.down) /\ IsConnection(j) /\ ~Fresh(j)
      /\ OnlyFirst(j.down) /\ Head(k.down) \in Downward /\ (Fresh(k) <=> Head(k.down) = "started")
      /\ Owed(k) = Owed(j) + Flag(Head(k.down) = "answer") /\ Owed(j) \in Nat
  BY <1>4, <1>5, ReadsOne
<1>7. PICK ks : ks = [conn EXCEPT ![c].down = Tail(@)]
  OBVIOUS
<1>8. ks = [conn EXCEPT ![c] = j] /\ ks[c] = j
  BY <1>1, <1>3, <1>5, <1>7
<1>9. CASE Head(k.down) = "error"
  <2>1. StopClient(client, ks)
    BY <1>3, <1>7, <1>9 DEF Receive
  <2>2. PICK r : r = HangUp(j)
    OBVIOUS
  <2>3. conn' = [conn EXCEPT ![c] = r]
    <3>1. client.ws # None
      BY <1>2 DEF Conn, None
    <3>2. conn' = [ks EXCEPT ![client.ws] = HangUp(@)]
      BY <2>1, <3>1 DEF StopClient
    <3>3. conn' = [ks EXCEPT ![c] = r]
      BY <1>2, <1>8, <2>2, <3>2
    <3> QED
      BY <1>1, <1>8, <3>3
  <2>4. client' = Stopped(client)
    BY <2>1 DEF StopClient
  <2>5. client' \in Client /\ Consistent(client)' /\ client'.opened = client.opened /\ ~client'.timer
    <3>1. PICK cx : cx = Stopped(client)
      OBVIOUS
    <3>2. PICK cl : cl = client
      OBVIOUS
    <3>3. cx \in Client /\ Consistent(cx) /\ cx.opened = client.opened /\ ~cx.timer
      BY <1>1, <3>1, <3>2, StoppedClient
    <3> QED
      BY <2>4, <3>1, <3>3 DEF Consistent
  <2>6. /\ But({"up", "phone"}, r, j) /\ r.phone = "closed" /\ r.up \in Ups
        /\ StopFirst(j.up) => StopFirst(r.up)
        /\ Count(r.up, "frame") = Count(j.up, "frame")
    BY <1>6, <2>2, HungUp
  <2>7. But({"phone", "up", "down"}, r, k) /\ r.down = Tail(k.down) /\ j.up = k.up
    BY <1>6, <2>6 DEF But, ConnectionFields
  <2>8. IsConnection(r)
    <3>1. IsConnection(j) /\ But({"up", "phone"}, r, j) /\ r.phone = "closed" /\ r.up \in Ups
      BY <1>6, <2>6
    <3> QED
      BY <3>1 DEF IsConnection, But, ConnectionFields
  <2> QED
    BY <1>2, <1>3, <1>4, <2>3, <2>5, <2>6, <2>7, <2>8, LeaveStep
<1>10. CASE Head(k.down) = "close"
  <2>1. Closed(c, ks, conn[c].code)
    BY <1>3, <1>7, <1>10 DEF Receive
  <2>2. PICK r : r = [j EXCEPT !.phone = "closed"]
    OBVIOUS
  <2>3. conn' = [conn EXCEPT ![c] = r]
    BY <1>1, <1>8, <2>1, <2>2 DEF Closed
  <2>4. client' \in Client /\ Consistent(client)' /\ client'.opened = client.opened /\ ~client'.timer
    <3>1. PICK code : code = conn[c].code
      OBVIOUS
    <3>2. Closed(c, ks, code)
      BY <2>1, <3>1
    <3> QED
      BY <1>1, <1>2, <3>2, ClosedClient
  <2> QED
    BY <1>1, <1>3, <1>4, <1>6, <2>2, <2>3, <2>4, ClosedStep
<1>11. CASE Head(k.down) \notin {"error", "close"}
  <2>1. PICK m : m = Head(k.down)
    OBVIOUS
  <2>2. m \in {"started", "answer", "alert"}
    BY <1>6, <1>11, <2>1 DEF Downward
  <2>3. PICK n : n = Credit(client.inFlight, m)
    OBVIOUS
  <2>4. PICK cl : cl = [client EXCEPT !.inFlight = n, !.timer = client.timer \/ m = "started"]
    OBVIOUS
  <2>5. conn' = [conn EXCEPT ![c] = j] /\ client' = cl
    BY <1>3, <1>7, <1>8, <1>11, <2>1, <2>3, <2>4 DEF Receive
  <2>6. client.inFlight \in Nat /\ client.timer \in BOOLEAN
    BY <1>1 DEF Client
  <2>7. n \in Nat
    BY <2>3, <2>6 DEF Credit
  <2>8. /\ cl \in Client /\ cl.opened = client.opened /\ cl.ws = c /\ cl.retry = client.retry
        /\ cl.started = client.started /\ cl.inFlight = n
    BY <1>1, <1>2, <2>4, <2>7 DEF Client
  <2>9. cl.timer <=> (client.timer \/ m = "started")
    BY <1>1, <2>4, <2>6 DEF Client
  <2>10. Consistent(client)'
    BY <1>1, <1>2, <2>5, <2>8 DEF Consistent, Conn, None
  <2>11. \A d \in Conn \ {c} : Holds(cl, d, conn[d])
    BY <1>1, <2>8, OthersHold
  <2>12. /\ j.phone = "open" /\ j.server = k.server /\ j.broken = k.broken /\ j.code = k.code
         /\ j.clean = k.clean /\ j.up = k.up
    BY <1>4, <1>6 DEF But, ConnectionFields
  <2>13. Holds(cl, c, j)
    <3>1. /\ NothingOwedAtFirst(j) /\ StopBeforeClose(j) /\ EndedCleanly(j)
          /\ OnlyOneLive(cl, c, j) /\ StartedFirst(j)
      BY <1>2, <1>4, <1>6, <2>8, <2>12
         DEF Holds, NothingOwedAtFirst, StopBeforeClose, EndedCleanly, OnlyOneLive, Live, StartedFirst, Fresh
    <3>2. ASSUME cl.timer PROVE Owed(j) <= cl.inFlight
      <4>1. PICK a : a = Owed(k)
        OBVIOUS
      <4>2. PICK b : b = Owed(j)
        OBVIOUS
      <4>3. a \in Nat /\ b \in Nat /\ a = b + Flag(m = "answer")
        BY <1>4, <1>6, <2>1, <4>1, <4>2, OwedParts
      <4>4. m = "started" => a = 0
        BY <1>4, <1>6, <2>1, <4>1 DEF Holds, NothingOwedAtFirst
      <4>5. m = "started" \/ a <= client.inFlight
        BY <1>2, <1>4, <2>9, <3>2, <4>1 DEF Holds, CountCovers
      <4>6. b <= Credit(client.inFlight, m)
        BY <2>2, <2>6, <4>3, <4>4, <4>5, CreditCovers
      <4> QED
        BY <2>3, <2>8, <4>2, <4>6
    <3> QED
      BY <1>6, <2>12, <3>1, <3>2 DEF Holds, CountCovers
  <2> QED
    BY <1>6, <2>5, <2>8, <2>10, <2>11, <2>13, OneConnection
<1> QED
  BY <1>9, <1>10, <1>11

-----------------------------------------------------------------------------
LEMMA InitInv == Init => IInv
<1> SUFFICES ASSUME Init PROVE IInv
  OBVIOUS
<1>1. <<>> \in Ups /\ <<>> \in Downs
  BY DEF Ups, Downs
<1>2. IsConnection(NewConn)
  BY <1>1 DEF NewConn, IsConnection, ConnectionFields
<1>3. TypeOK
  <2>1. client \in Client
    BY DEF Init, Client, None
  <2>2. DOMAIN conn = Conn /\ \A c \in Conn : conn[c] = NewConn
    BY DEF Init
  <2> QED
    BY <1>2, <2>1, <2>2 DEF TypeOK
<1>4. Consistent(client)
  BY DEF Init, Consistent, None
<1>5. Owed(NewConn) = 0
  <2>1. Count(<<>>, "frame") = 0 /\ Count(<<>>, "answer") = 0
    BY CountEmpty
  <2> QED
    BY <2>1 DEF NewConn, Owed, Flag
<1>6. ASSUME NEW c \in Conn PROVE Holds(client, c, NewConn)
  BY <1>5 DEF Init, NewConn, Holds, StartedFirst, NothingOwedAtFirst, StopBeforeClose, EndedCleanly,
     OnlyOneLive, CountCovers, Live, OnlyFirst, StopFirst
<1> QED
  BY <1>3, <1>4, <1>6 DEF Init, IInv

LEMMA StepInv == IInv /\ [Next]_vars => IInv'
<1> SUFFICES ASSUME IInv, [Next]_vars PROVE IInv'
  OBVIOUS
<1>1. CASE Start \/ Stop \/ Retry
  BY <1>1, StartStep, StopStep, RetryStep
<1>2. ASSUME NEW c \in Conn, Phone(c) PROVE IInv'
  BY <1>2, OpenStep, ReceiveStep, PhoneNoticesStep, GrabbedStep, SendFrameStep DEF Phone
<1>3. ASSUME NEW c \in Conn, Grab(c) \/ Hello(c) \/ Break(c) PROVE IInv'
  BY <1>3, GrabStep, AcceptStep, RejectStep, BreakStep DEF Hello
<1>4. ASSUME NEW c \in Conn, Server(c) PROVE IInv'
  BY <1>4, ReceiveUpStep, TakeLatestStep, AnswerStep, ServerNoticesStep DEF Server
<1>5. CASE UNCHANGED vars
  BY <1>5 DEF vars, IInv, TypeOK
<1> QED
  BY <1>1, <1>2, <1>3, <1>4, <1>5 DEF Next

(* The client uses the only connection that is alive; the server says once that  *)
(* it takes the frames of a connection, and none is owed before the phone reads  *)
(* it; from then on the count of the client covers those of its connection.      *)
THEOREM Invariant == Spec => []IInv
<1> QED
  BY InitInv, StepInv, PTL DEF Spec

(* The client never believes that fewer frames are unanswered than there are, for *)
(* any limit, any number of connections and any number of grabs under way: the    *)
(* limit of capture.ts is applied to a count that errs on the safe side only.     *)
THEOREM CountIsSafe == Spec => []CreditsCoverFrames
<1>1. IInv => CreditsCoverFrames
  <2> SUFFICES ASSUME IInv, NEW c \in Conn, Streaming(c) PROVE Unanswered(c) <= client.inFlight
    BY DEF CreditsCoverFrames
  <2>1. Owed(conn[c]) <= client.inFlight
    BY DEF IInv, Holds, CountCovers, Streaming
  <2>2. Unanswered(c) = Owed(conn[c])
    BY DEF Unanswered, Owed, Count
  <2> QED
    BY <2>1, <2>2
<1> QED
  BY <1>1, Invariant, PTL

(* A session of the server that ended on a connection that never broke, and was *)
(* not rejected, has seen the stop: it is never taken for a lost camera.        *)
THEOREM StopsAreSeen == Spec => []StopIsClean
<1>1. IInv => StopIsClean
  BY DEF IInv, Holds, EndedCleanly, StopIsClean
<1> QED
  BY <1>1, Invariant, PTL
=============================================================================
