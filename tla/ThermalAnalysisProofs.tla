----------------------- MODULE ThermalAnalysisProofs -----------------------
(***************************************************************************)
(* Proofs about ThermalAnalysis, for any number of files, samples, workers *)
(* and restarts: a job that is accepted is never lost, and the viewer      *)
(* shows nothing that is not final.                                        *)
(***************************************************************************)
EXTENDS ThermalAnalysis, SequenceTheorems, FiniteSetTheorems, TLAPS

Job    == [status : Pending \cup Over, found : Nat]
Files  == Seq(Nat)
Queue  == [waiting : Files, running : SUBSET Nat, dropped : SUBSET Nat, accepted : SUBSET Nat]
Page   == [open : BOOLEAN, commander : BOOLEAN, file : BOOLEAN, mine : Files, selected : Nat]
Cache  == [listed : SUBSET Nat, job : [Media -> Pending \cup Over \cup {None}],
           found : [Media -> SUBSET Nat]]
Upload == [stage : {None, "sent", "accepted", "done"}, again : BOOLEAN, live : BOOLEAN, media : Nat]

TypeOK ==
  /\ jobs \in Seq(Job) /\ DOMAIN jobs \subseteq Media
  /\ queue \in Queue /\ page \in Page /\ cache \in Cache /\ upload \in Upload

(***************************************************************************)
(* The inductive invariant.  The four places of a job in the process are   *)
(* apart, none is twice in the queue, and the jobs that are in one are     *)
(* exactly those that the database has as not over.                        *)
(***************************************************************************)
Waiting == ToSet(queue.waiting)
Placed  == Waiting \cup queue.running \cup queue.dropped \cup queue.accepted

Distinct(q) == \A i, j \in DOMAIN q : q[i] = q[j] => i = j

OnePlace ==
  /\ Distinct(queue.waiting)
  /\ Waiting \cap queue.running = {} /\ Waiting \cap queue.dropped = {}
  /\ Waiting \cap queue.accepted = {} /\ queue.running \cap queue.dropped = {}
  /\ queue.running \cap queue.accepted = {} /\ queue.dropped \cap queue.accepted = {}

PlacedIsPending ==
  /\ Placed \subseteq DOMAIN jobs
  /\ \A m \in DOMAIN jobs : m \in Placed <=> jobs[m].status \in Pending

DoneIsComplete == \A m \in DOMAIN jobs : jobs[m].status = "done" => jobs[m].found = Samples

(* What the page knows is of files that were accepted, and what it loaded of a *)
(* job that was done is all that there is.                                     *)
PageKnows ==
  /\ cache.listed \subseteq DOMAIN jobs /\ ToSet(page.mine) \subseteq DOMAIN jobs
  /\ upload.stage \in {"accepted", "done"} => upload.media \in DOMAIN jobs
  /\ \A m \in Media : /\ cache.job[m] = "done" => m \in DOMAIN jobs /\ jobs[m].status = "done"
                      /\ cache.found[m] \subseteq {Samples}

IInv == TypeOK /\ OnePlace /\ PlacedIsPending /\ DoneIsComplete /\ PageKnows

-----------------------------------------------------------------------------
(* What the queue's operations do to a sequence without repetitions. *)
LEMMA FilesFacts == <<>> \in Files /\ \A q \in Files, m \in Nat : Append(q, m) \in Files
BY DEF Files

LEMMA JobTyped ==
  ASSUME TypeOK, NEW m \in DOMAIN jobs
  PROVE  m \in Media /\ m \in Nat /\ jobs[m].status \in Pending \cup Over /\ jobs[m].found \in Nat
<1>1. jobs \in [1..Len(jobs) -> Job] /\ DOMAIN jobs = 1..Len(jobs) /\ DOMAIN jobs \subseteq Media
  BY DEF TypeOK
<1>2. jobs[m] \in Job /\ m \in Media /\ m \in Nat
  BY <1>1
<1> QED
  BY <1>2 DEF Job

LEMMA AppendSet ==
  ASSUME NEW q \in Seq(Nat), NEW m \in Nat
  PROVE  ToSet(Append(q, m)) = ToSet(q) \cup {m}
<1>1. /\ Len(q) \in Nat /\ DOMAIN q = 1..Len(q) /\ DOMAIN Append(q, m) = 1..(Len(q) + 1)
      /\ Append(q, m)[Len(q) + 1] = m /\ \A i \in 1..Len(q) : Append(q, m)[i] = q[i]
  OBVIOUS
<1>2. \A i \in 1..(Len(q) + 1) : i = Len(q) + 1 \/ i \in 1..Len(q)
  BY <1>1
<1> DEFINE r == Append(q, m)
<1> HIDE DEF r
<1>3. DOMAIN r = 1..(Len(q) + 1) /\ r[Len(q) + 1] = m /\ \A i \in 1..Len(q) : r[i] = q[i]
  BY <1>1 DEF r
<1> QED
  BY <1>1, <1>2, <1>3 DEF ToSet, r

LEMMA AppendDistinct ==
  ASSUME NEW q \in Seq(Nat), NEW m \in Nat, Distinct(q), m \notin ToSet(q)
  PROVE  /\ Append(q, m) \in Seq(Nat) /\ Distinct(Append(q, m))
         /\ ToSet(Append(q, m)) = ToSet(q) \cup {m}
<1>1. /\ Append(q, m) \in Seq(Nat) /\ Len(q) \in Nat /\ DOMAIN q = 1..Len(q)
      /\ DOMAIN Append(q, m) = 1..(Len(q) + 1)
      /\ Append(q, m)[Len(q) + 1] = m
      /\ \A i \in 1..Len(q) : Append(q, m)[i] = q[i]
  OBVIOUS
<1>2. \A i \in 1..(Len(q) + 1) : i = Len(q) + 1 \/ i \in 1..Len(q)
  BY <1>1
<1> DEFINE r == Append(q, m)
<1> HIDE DEF r
<1>3. Distinct(r)
  <2> SUFFICES ASSUME NEW i \in 1..(Len(q) + 1), NEW j \in 1..(Len(q) + 1), r[i] = r[j]
               PROVE  i = j
    BY <1>1 DEF Distinct, r
  <2>1. \A k \in 1..Len(q) : r[k] = q[k] /\ q[k] # m
    BY <1>1 DEF r, ToSet
  <2>2. r[Len(q) + 1] = m
    BY <1>1 DEF r
  <2> QED
    BY <1>1, <1>2, <2>1, <2>2 DEF Distinct
<1>4. ToSet(r) = ToSet(q) \cup {m}
  BY AppendSet DEF r
<1> QED
  BY <1>1, <1>3, <1>4 DEF r

LEMMA TailDistinct ==
  ASSUME NEW q \in Seq(Nat), q # <<>>, Distinct(q)
  PROVE  /\ Tail(q) \in Seq(Nat) /\ Distinct(Tail(q))
         /\ Head(q) \in ToSet(q) /\ ToSet(Tail(q)) = ToSet(q) \ {Head(q)}
<1>1. /\ Tail(q) \in Seq(Nat) /\ Len(q) \in Nat /\ Len(q) >= 1 /\ DOMAIN q = 1..Len(q)
      /\ DOMAIN Tail(q) = 1..(Len(q) - 1) /\ Head(q) = q[1]
      /\ \A i \in 1..(Len(q) - 1) : Tail(q)[i] = q[i + 1]
  OBVIOUS
<1> DEFINE r == Tail(q)
<1>2. DOMAIN r = 1..(Len(q) - 1) /\ \A i \in 1..(Len(q) - 1) : r[i] = q[i + 1] /\ i + 1 \in 1..Len(q)
  BY <1>1
<1> HIDE DEF r
<1>3. Distinct(r)
  <2> SUFFICES ASSUME NEW i \in 1..(Len(q) - 1), NEW j \in 1..(Len(q) - 1), r[i] = r[j]
               PROVE  i = j
    BY <1>2 DEF Distinct
  <2>1. i + 1 \in 1..Len(q) /\ j + 1 \in 1..Len(q) /\ q[i + 1] = q[j + 1]
    BY <1>2
  <2>2. i + 1 = j + 1
    BY <1>1, <2>1 DEF Distinct
  <2> QED
    BY <1>1, <2>2
<1>4. Head(q) \in ToSet(q)
  BY <1>1 DEF ToSet
<1>5. ToSet(r) = ToSet(q) \ {Head(q)}
  <2>1. ASSUME NEW i \in 1..(Len(q) - 1) PROVE r[i] \in ToSet(q) \ {Head(q)}
    <3>1. i + 1 \in 1..Len(q) /\ 1 \in 1..Len(q) /\ i + 1 # 1 /\ r[i] = q[i + 1]
      BY <1>1, <1>2
    <3>2. q[i + 1] # q[1]
      BY <1>1, <3>1 DEF Distinct
    <3> QED
      BY <1>1, <3>1, <3>2 DEF ToSet
  <2>2. ASSUME NEW i \in 1..Len(q), q[i] # Head(q) PROVE q[i] \in ToSet(r)
    <3>1. i # 1
      BY <1>1, <2>2
    <3>2. i - 1 \in 1..(Len(q) - 1) /\ (i - 1) + 1 = i
      BY <1>1, <3>1
    <3>3. r[i - 1] = q[i]
      BY <1>2, <3>2
    <3> QED
      BY <1>2, <3>2, <3>3 DEF ToSet
  <2> QED
    BY <1>1, <1>2, <2>1, <2>2 DEF ToSet
<1> QED
  BY <1>1, <1>3, <1>4, <1>5 DEF r

(* A restart enqueues every pending job, once. *)
LEMMA ResumedFacts ==
  ASSUME TypeOK, NEW w \in Resumed
  PROVE  /\ w \in Seq(Nat) /\ Distinct(w)
         /\ ToSet(w) = {m \in DOMAIN jobs : jobs[m].status \in Pending}
<1> DEFINE S == {m \in DOMAIN jobs : jobs[m].status \in Pending}
           n == Cardinality(S)
<1>0. S \subseteq DOMAIN jobs
  OBVIOUS
<1>1. IsFiniteSet(S) /\ S \subseteq Nat /\ n \in Nat
  <2>1. jobs \in Seq(Job)
    BY DEF TypeOK
  <2>2. DOMAIN jobs = 1..Len(jobs) /\ Len(jobs) \in Nat
    BY <2>1, LenProperties
  <2>3. IsFiniteSet(DOMAIN jobs)
    BY <2>2, FS_Interval
  <2> QED
    BY <2>2, <2>3, <1>0, FS_Subset, FS_CardinalityType
<1>2. w \in [1..n -> S] /\ \A i, j \in 1..n : i # j => w[i] # w[j]
  BY DEF Resumed, SetToSeqs, resume_pending
<1> HIDE DEF S
<1>3. w \in Injection(1..n, S)
  BY <1>2 DEF Injection, IsInjective
<1>4. Cardinality(1..n) = n /\ IsFiniteSet(1..n)
  BY <1>1, FS_Interval
<1>5. w \in Surjection(1..n, S)
  BY <1>1, <1>3, <1>4, FS_Injection
<1>6. \A m \in S : \E i \in 1..n : w[i] = m
  BY <1>5 DEF Surjection
<1>7. ToSet(w) = S /\ Distinct(w)
  BY <1>2, <1>6 DEF ToSet, Distinct
<1>8. w \in Seq(Nat)
  <2>1. w \in [1..n -> Nat]
    BY <1>1, <1>2
  <2> HIDE DEF n
  <2> QED
    BY <1>1, <2>1
<1> QED
  BY <1>7, <1>8 DEF S

(* A non-empty set of numbers that are bounded has a greatest one. *)
LEMMA MaxIn ==
  ASSUME NEW n \in Nat, NEW S \in SUBSET (1..n), S # {}
  PROVE  Max(S) \in S
<1> DEFINE T == {k \in Nat : \A y \in S : y <= k}
           R == OpToRel(<, Nat)
<1>1. n \in T /\ T \subseteq Nat
  OBVIOUS
<1>2. \A a, b \in Nat : a < b => <<a, b>> \in R
  BY DEF OpToRel
<1> HIDE DEF R
<1>3. IsWellFoundedOn(R, Nat)
  BY NatLessThanWellFounded DEF R
<1>4. PICK x \in T : \A y \in T : <<y, x>> \notin R
  <2> HIDE DEF T
  <2> QED
    BY <1>1, <1>3, WFMin
<1>5. x \in S
  <2> SUFFICES ASSUME x \notin S PROVE FALSE
    OBVIOUS
  <2>1. x \in Nat /\ \A y \in S : y < x /\ y \in Nat /\ y >= 1
    OBVIOUS
  <2>2. PICK y \in S : y < x /\ y \in Nat /\ y >= 1
    BY <2>1
  <2>3. x - 1 \in Nat /\ x - 1 < x /\ \A z \in S : z <= x - 1
    BY <2>1, <2>2
  <2>4. x - 1 \in T
    BY <2>3
  <2> QED
    BY <1>2, <1>4, <2>1, <2>3, <2>4
<1>6. \A y \in S : x >= y
  BY <1>5
<1> QED
  BY <1>5, <1>6 DEF Max
-----------------------------------------------------------------------------
(* The invariant holds at first. *)
LEMMA InitInv == ASSUME Init PROVE IInv
<1>1. TypeOK
  <2>1. jobs \in Seq(Job) /\ DOMAIN jobs \subseteq Media
    BY DEF Init
  <2>2. queue \in Queue /\ upload \in Upload
    BY FilesFacts DEF Init, Queue, Upload, Idle, None
  <2>3. page \in Page
    <3> DEFINE none == <<>>
    <3>1. none \in Files
      BY FilesFacts
    <3>2. PICK c \in BOOLEAN :
            page = [open |-> FALSE, commander |-> c, file |-> FALSE, mine |-> none, selected |-> 0]
      BY DEF Init
    <3> HIDE DEF none
    <3> QED
      BY <3>1, <3>2 DEF Page
  <2>4. cache \in Cache
    BY DEF Init, Cache, None
  <2> QED
    BY <2>1, <2>2, <2>3, <2>4 DEF TypeOK
<1>2. OnePlace /\ PlacedIsPending /\ DoneIsComplete
  BY DEF Init, OnePlace, PlacedIsPending, DoneIsComplete, Distinct, Waiting, Placed, ToSet
<1>3. PageKnows
  BY DEF Init, PageKnows, ToSet, Idle, None
<1> QED
  BY <1>1, <1>2, <1>3 DEF IInv

(* What the page lists was accepted. *)
LEMMA ListedIsAccepted == ASSUME IInv PROVE Items \subseteq DOMAIN jobs
BY DEF IInv, PageKnows, Items

LEMMA CurrentIsListed ==
  ASSUME MaxMedia \in Nat, IInv
  PROVE  Current \subseteq Items
<1>1. Items \in SUBSET (1..MaxMedia)
  BY ListedIsAccepted DEF IInv, TypeOK, Media
<1>2. CASE page.selected \in Items
  BY <1>2 DEF Current
<1>3. CASE page.selected \notin Items /\ Items = {}
  BY <1>3 DEF Current
<1>4. CASE page.selected \notin Items /\ Items # {}
  <2>1. Max(Items) \in Items
    BY <1>1, <1>4, MaxIn
  <2> QED
    BY <1>4, <2>1 DEF Current
<1> QED
  BY <1>2, <1>3, <1>4

(* A step of the page or of its requests, which leaves the server as it is. *)
PageStep ==
  \/ pick \/ StartUpload \/ UploadAnswered \/ UploadFails \/ LoadUploads \/ Mount \/ Unmount
  \/ \E ok \in BOOLEAN : UploadExpired(ok)
  \/ \E m \in DOMAIN jobs : Select(m) \/ Poll(m) \/ LoadDetections(m)

(* A step of the server. *)
JobStep ==
  \/ Accept \/ StartJob \/ Restart
  \/ \E m \in DOMAIN jobs : enqueue(m) \/ Sample(m) \/ Finish(m) \/ FailJob(m) \/ CrashJob(m)

LEMMA Steps == ASSUME Mount \/ Unmount \/ Next PROVE PageStep \/ JobStep
BY DEF Next, PageStep, JobStep

LEMMA PageKeepsServer == ASSUME PageStep PROVE jobs' = jobs /\ queue' = queue
BY DEF PageStep, pick, StartUpload, UploadAnswered, UploadFails, LoadUploads, Mount, Unmount,
       UploadExpired, Select, Poll, LoadDetections

LEMMA PageKeepsInv ==
  ASSUME MaxMedia \in Nat, IInv, PageStep
  PROVE  IInv'
<1>0. TypeOK /\ PageKnows /\ DoneIsComplete
  BY DEF IInv
<1>1. jobs' = jobs /\ queue' = queue
  BY PageKeepsServer
<1>2. OnePlace' /\ PlacedIsPending' /\ DoneIsComplete'
  BY <1>1 DEF IInv, OnePlace, PlacedIsPending, DoneIsComplete, Waiting, Placed
<1>3. jobs' \in Seq(Job) /\ DOMAIN jobs' \subseteq Media /\ queue' \in Queue
  BY <1>0, <1>1 DEF TypeOK
<1>4. page \in Page /\ cache \in Cache /\ upload \in Upload
  BY <1>0 DEF TypeOK
<1>5. page' \in Page /\ cache' \in Cache /\ upload' \in Upload /\ PageKnows'
  <2>1. CASE pick
    BY <1>0, <1>1, <1>4, <2>1 DEF pick, Page, PageKnows
  <2>2. CASE StartUpload
    BY <1>0, <1>1, <1>4, <2>2 DEF StartUpload, Upload, PageKnows
  <2>3. CASE UploadAnswered
    <3>1. upload' \in Upload /\ upload'.stage = None /\ cache' = cache
      BY <2>3 DEF UploadAnswered, Upload, Idle, None
    <3>2. upload.media \in Nat /\ upload.media \in DOMAIN jobs /\ page.mine \in Files
      BY <1>0, <1>4, <2>3 DEF UploadAnswered, Upload, Page, PageKnows
    <3>3. page' \in Page /\ ToSet(page'.mine) \subseteq DOMAIN jobs
      <4>1. CASE ~upload.live
        BY <1>0, <1>4, <2>3, <4>1 DEF UploadAnswered, PageKnows
      <4>2. CASE upload.live
        <5>1. page' = [page EXCEPT !.mine = Append(@, upload.media), !.selected = upload.media, !.file = FALSE]
          BY <2>3, <4>2 DEF UploadAnswered
        <5>2. page' \in Page
          BY <1>4, <3>2, <5>1, FilesFacts DEF Page
        <5>3. page'.mine = Append(page.mine, upload.media)
          BY <1>4, <5>1 DEF Page
        <5>4. ToSet(Append(page.mine, upload.media)) = ToSet(page.mine) \cup {upload.media}
          BY <3>2, AppendSet DEF Files
        <5> QED
          BY <1>0, <3>2, <5>2, <5>3, <5>4 DEF PageKnows
      <4> QED
        BY <4>1, <4>2
    <3> QED
      BY <1>0, <1>1, <1>4, <3>1, <3>3 DEF PageKnows, None
  <2>4. CASE UploadFails
    BY <1>0, <1>1, <1>4, <2>4 DEF UploadFails, Upload, Idle, None, PageKnows
  <2>5. CASE LoadUploads
    <3>1. DOMAIN jobs \subseteq Nat
      BY <1>0 DEF TypeOK
    <3> QED
      BY <1>0, <1>1, <1>4, <2>5, <3>1 DEF LoadUploads, Cache, PageKnows
  <2>6. CASE Mount
    BY <1>0, <1>1, <1>4, <2>6 DEF Mount, Page, PageKnows
  <2>7. CASE Unmount
    <3>1. page' \in Page /\ page'.mine = <<>> /\ cache' = cache
      BY <1>4, <2>7, FilesFacts DEF Unmount, Page
    <3>2. upload' \in Upload /\ upload'.stage = upload.stage /\ upload'.media = upload.media
      BY <1>4, <2>7 DEF Unmount, Upload
    <3> QED
      BY <1>0, <1>1, <1>4, <3>1, <3>2 DEF PageKnows, ToSet
  <2>8. ASSUME NEW ok \in BOOLEAN, UploadExpired(ok)
        PROVE  page' \in Page /\ cache' \in Cache /\ upload' \in Upload /\ PageKnows'
    <3>1. upload' \in Upload /\ upload'.stage \in {"sent", None}
      BY <1>4, <2>8 DEF UploadExpired, Upload, Idle, None
    <3> QED
      BY <1>0, <1>1, <1>4, <2>8, <3>1 DEF UploadExpired, PageKnows, None
  <2>9. ASSUME NEW m \in DOMAIN jobs, Select(m)
        PROVE  page' \in Page /\ cache' \in Cache /\ upload' \in Upload /\ PageKnows'
    <3>1. m \in Nat
      BY <1>0 DEF TypeOK
    <3> QED
      BY <1>0, <1>1, <1>4, <2>9, <3>1 DEF Select, Page, PageKnows
  <2>10. ASSUME NEW m \in DOMAIN jobs, Poll(m)
         PROVE  page' \in Page /\ cache' \in Cache /\ upload' \in Upload /\ PageKnows'
    <3>1. jobs[m].status \in Pending \cup Over /\ m \in Media
      BY <1>0, JobTyped
    <3>2. /\ cache' = [cache EXCEPT !.job[m] = jobs[m].status]
          /\ page' = page /\ upload' = upload
      BY <2>10 DEF Poll
    <3>3. cache' \in Cache
      BY <1>4, <3>1, <3>2 DEF Cache
    <3>4. /\ cache'.listed = cache.listed /\ cache'.found = cache.found
          /\ \A k \in Media : cache'.job[k] = IF k = m THEN jobs[m].status ELSE cache.job[k]
      BY <1>4, <3>1, <3>2 DEF Cache
    <3>5. PageKnows'
      BY <1>0, <1>1, <3>2, <3>4 DEF PageKnows
    <3> QED
      BY <1>4, <3>2, <3>3, <3>5
  <2>11. ASSUME NEW m \in DOMAIN jobs, LoadDetections(m)
         PROVE  page' \in Page /\ cache' \in Cache /\ upload' \in Upload /\ PageKnows'
    <3>1. jobs[m].found \in Nat /\ m \in Media
      BY <1>0, JobTyped
    <3>2. /\ cache' = [cache EXCEPT !.found[m] = {jobs[m].found}]
          /\ page' = page /\ upload' = upload
      BY <2>11 DEF LoadDetections
    <3>3. jobs[m].found = Samples
      BY <1>0, <2>11, <3>1 DEF LoadDetections, ready, PageKnows, DoneIsComplete
    <3>4. cache' \in Cache
      BY <1>4, <3>1, <3>2 DEF Cache
    <3>5. /\ cache'.listed = cache.listed /\ cache'.job = cache.job
          /\ \A k \in Media : cache'.found[k] = IF k = m THEN {Samples} ELSE cache.found[k]
      BY <1>4, <3>1, <3>2, <3>3 DEF Cache
    <3>6. PageKnows'
      BY <1>0, <1>1, <3>2, <3>5 DEF PageKnows
    <3> QED
      BY <1>4, <3>2, <3>4, <3>6
  <2> QED
    BY <2>1, <2>2, <2>3, <2>4, <2>5, <2>6, <2>7, <2>8, <2>9, <2>10, <2>11 DEF PageStep
<1> QED
  BY <1>2, <1>3, <1>5 DEF IInv, TypeOK

-----------------------------------------------------------------------------
(* What the page knows stays true as long as no file is forgotten and what is *)
(* done stays done.                                                           *)
LEMMA KnowledgeStands ==
  ASSUME IInv, page' = page, cache' = cache, DOMAIN jobs \subseteq DOMAIN jobs',
         \A m \in DOMAIN jobs : jobs[m].status = "done" => jobs'[m].status = "done",
         upload'.stage \in {"accepted", "done"} => upload'.media \in DOMAIN jobs'
  PROVE  PageKnows'
BY DEF IInv, PageKnows

(* A step on one job that has a place changes no other, and keeps the order. *)
LEMMA OneJob ==
  ASSUME TypeOK, NEW m \in DOMAIN jobs, NEW j \in Job, jobs' = [jobs EXCEPT ![m] = j]
  PROVE  /\ jobs' \in Seq(Job) /\ DOMAIN jobs' = DOMAIN jobs
         /\ jobs'[m] = j /\ \A k \in DOMAIN jobs : k # m => jobs'[k] = jobs[k]
BY DEF TypeOK

LEMMA AcceptKeepsInv ==
  ASSUME MaxMedia \in Nat, IInv, Accept
  PROVE  IInv'
<1> DEFINE n == Len(jobs) + 1
           j == [status |-> "queued", found |-> 0]
<1>0. TypeOK /\ OnePlace /\ PlacedIsPending /\ DoneIsComplete
  BY DEF IInv
<1>1. jobs \in Seq(Job) /\ queue \in Queue /\ upload \in Upload /\ j \in Job
  BY <1>0 DEF TypeOK, Job, Pending, Over
<1>2. /\ jobs' \in Seq(Job) /\ Len(jobs) \in Nat /\ Len(jobs') = n /\ n \in Media
      /\ DOMAIN jobs = 1..Len(jobs) /\ DOMAIN jobs' = 1..n
      /\ jobs'[n] = j /\ \A k \in 1..Len(jobs) : jobs'[k] = jobs[k]
  <2>1. jobs' = Append(jobs, j) /\ Len(jobs) < MaxMedia
    BY DEF Accept
  <2> HIDE DEF j
  <2> QED
    BY <1>1, <2>1 DEF Media
<1>3. \A k \in 1..n : k \in 1..Len(jobs) \/ k = n
  BY <1>2
<1>4. n \notin DOMAIN jobs /\ 1..n \subseteq Media
  BY <1>2 DEF Media
<1>14. /\ queue' = [queue EXCEPT !.accepted = @ \cup {n}]
       /\ upload' = [upload EXCEPT !.stage = "accepted", !.media = n]
  BY <1>2 DEF Accept
<1>15. n \in Nat /\ n \in DOMAIN jobs' /\ DOMAIN jobs \subseteq DOMAIN jobs'
  BY <1>2
<1> HIDE DEF n
<1>5. /\ queue' \in Queue /\ queue'.waiting = queue.waiting /\ queue'.running = queue.running
      /\ queue'.dropped = queue.dropped /\ queue'.accepted = queue.accepted \cup {n}
  BY <1>1, <1>14, <1>15 DEF Queue
<1>6. upload' \in Upload /\ upload'.media = n
  BY <1>1, <1>14, <1>15 DEF Upload
<1>7. page' = page /\ cache' = cache
  BY DEF Accept
<1>8. Placed' = Placed \cup {n} /\ n \notin Placed
  BY <1>0, <1>4, <1>5 DEF Placed, Waiting, PlacedIsPending
<1>9. OnePlace'
  BY <1>0, <1>5, <1>8 DEF OnePlace, Waiting, Placed
<1>10. PlacedIsPending'
  <2>1. Placed' \subseteq DOMAIN jobs'
    BY <1>0, <1>2, <1>8, <1>15 DEF PlacedIsPending
  <2>2. ASSUME NEW k \in DOMAIN jobs' PROVE k \in Placed' <=> jobs'[k].status \in Pending
    BY <1>0, <1>2, <1>3, <1>4, <1>8, <2>2 DEF PlacedIsPending, Pending
  <2> QED
    BY <2>1, <2>2 DEF PlacedIsPending
<1>11. DoneIsComplete'
  BY <1>0, <1>2, <1>3 DEF DoneIsComplete
<1>12. PageKnows'
  <2>1. \A m \in DOMAIN jobs : jobs'[m] = jobs[m]
    BY <1>2
  <2> QED
    BY <1>6, <1>7, <1>15, <2>1, KnowledgeStands
<1>13. TypeOK'
  BY <1>0, <1>2, <1>4, <1>5, <1>6, <1>7 DEF TypeOK
<1> QED
  BY <1>9, <1>10, <1>11, <1>12, <1>13 DEF IInv

(* The steps on a job keep what the page knows. *)
LEMMA MovesKeepKnowledge ==
  ASSUME IInv, page' = page, cache' = cache, jobs' \in Seq(Job), DOMAIN jobs' = DOMAIN jobs,
         \A m \in DOMAIN jobs : jobs[m].status = "done" => jobs'[m].status = "done",
         upload' \in Upload, queue' \in Queue,
         upload'.stage \in {"accepted", "done"} =>
           upload.stage \in {"accepted", "done"} /\ upload'.media = upload.media
  PROVE  TypeOK' /\ PageKnows'
<1>1. upload'.stage \in {"accepted", "done"} => upload'.media \in DOMAIN jobs'
  BY DEF IInv, PageKnows
<1>2. PageKnows'
  BY <1>1, KnowledgeStands
<1>3. TypeOK'
  BY DEF IInv, TypeOK
<1> QED
  BY <1>2, <1>3

LEMMA EnqueueKeepsInv ==
  ASSUME IInv, NEW m \in DOMAIN jobs, enqueue(m)
  PROVE  IInv'
<1>0. TypeOK /\ OnePlace /\ PlacedIsPending /\ DoneIsComplete /\ PageKnows
  BY DEF IInv
<1>1. m \in Nat /\ queue \in Queue /\ upload \in Upload
  BY <1>0, JobTyped DEF TypeOK
<1>2. queue.waiting \in Seq(Nat) /\ Distinct(queue.waiting) /\ m \notin ToSet(queue.waiting) /\ m \in queue.accepted
  BY <1>0, <1>1 DEF enqueue, Queue, Files, OnePlace, Waiting
<1> DEFINE w == Append(queue.waiting, m)
<1>3. w \in Seq(Nat) /\ Distinct(w) /\ ToSet(w) = Waiting \cup {m}
  BY <1>1, <1>2, AppendDistinct DEF Waiting
<1>4. queue' = [queue EXCEPT !.accepted = @ \ {m}, !.waiting = w]
  BY DEF enqueue
<1> HIDE DEF w
<1>5. /\ queue' \in Queue /\ queue'.waiting = w /\ queue'.running = queue.running
      /\ queue'.dropped = queue.dropped /\ queue'.accepted = queue.accepted \ {m}
  <2>1. w \in Files
    BY <1>3 DEF Files
  <2> QED
    BY <1>1, <1>4, <2>1 DEF Queue
<1>6. Waiting' = Waiting \cup {m}
  BY <1>3, <1>5 DEF Waiting
<1>7. OnePlace'
  BY <1>0, <1>2, <1>3, <1>5, <1>6 DEF OnePlace
<1>8. Placed' = Placed
  BY <1>2, <1>5, <1>6 DEF Placed
<1>9. jobs' = jobs /\ page' = page /\ cache' = cache
  BY DEF enqueue
<1>10. PlacedIsPending' /\ DoneIsComplete'
  BY <1>0, <1>8, <1>9 DEF PlacedIsPending, DoneIsComplete
<1>11. /\ upload' \in Upload
       /\ upload'.stage \in {"accepted", "done"} => upload'.media \in DOMAIN jobs
  BY <1>0, <1>1 DEF enqueue, Upload, PageKnows
<1>12. PageKnows'
  BY <1>9, <1>11, KnowledgeStands
<1>13. TypeOK'
  BY <1>0, <1>5, <1>9, <1>11 DEF TypeOK
<1> QED
  BY <1>7, <1>10, <1>12, <1>13 DEF IInv

LEMMA StartKeepsInv ==
  ASSUME IInv, StartJob
  PROVE  IInv'
<1>0. TypeOK /\ OnePlace /\ PlacedIsPending /\ DoneIsComplete /\ PageKnows
  BY DEF IInv
<1>1. queue \in Queue /\ queue.waiting \in Seq(Nat) /\ queue.waiting # <<>> /\ Distinct(queue.waiting)
  BY <1>0 DEF StartJob, TypeOK, Queue, Files, OnePlace
<1> DEFINE w == Tail(queue.waiting)
           m == Head(queue.waiting)
           j == [status |-> "running", found |-> 0]
<1>2. w \in Seq(Nat) /\ Distinct(w) /\ m \in Waiting /\ ToSet(w) = Waiting \ {m}
  BY <1>1, TailDistinct DEF Waiting
<1>3. queue' = [queue EXCEPT !.waiting = w, !.running = @ \cup {m}] /\ jobs' = [jobs EXCEPT ![m] = j]
  BY DEF StartJob
<1>4. j \in Job /\ j.status = "running"
  BY DEF Job, Pending, Over
<1>5. page' = page /\ cache' = cache /\ upload' = upload
  BY DEF StartJob
<1> HIDE DEF w, m, j
<1>6. m \in DOMAIN jobs /\ jobs[m].status \in Pending
  BY <1>0, <1>2 DEF PlacedIsPending, Placed
<1>7. m \in Nat
  BY <1>0, <1>6, JobTyped
<1>8. /\ queue' \in Queue /\ queue'.waiting = w /\ queue'.running = queue.running \cup {m}
      /\ queue'.dropped = queue.dropped /\ queue'.accepted = queue.accepted
  <2>1. w \in Files
    BY <1>2 DEF Files
  <2> QED
    BY <1>1, <1>3, <1>7, <2>1 DEF Queue
<1>9. /\ jobs' \in Seq(Job) /\ DOMAIN jobs' = DOMAIN jobs
      /\ jobs'[m] = j /\ \A k \in DOMAIN jobs : k # m => jobs'[k] = jobs[k]
  BY <1>0, <1>3, <1>4, <1>6, OneJob
<1>10. Waiting' = Waiting \ {m}
  BY <1>2, <1>8 DEF Waiting
<1>11. OnePlace'
  BY <1>0, <1>2, <1>8, <1>10 DEF OnePlace
<1>12. Placed' = Placed /\ m \in Placed
  BY <1>2, <1>8, <1>10 DEF Placed
<1>13. PlacedIsPending'
  BY <1>0, <1>4, <1>9, <1>12 DEF PlacedIsPending, Pending
<1>14. DoneIsComplete' /\ \A k \in DOMAIN jobs : jobs[k].status = "done" => jobs'[k].status = "done"
  BY <1>0, <1>4, <1>6, <1>9 DEF DoneIsComplete, Pending
<1>15. TypeOK' /\ PageKnows'
  BY <1>0, <1>5, <1>8, <1>9, <1>14, MovesKeepKnowledge DEF TypeOK
<1> QED
  BY <1>11, <1>13, <1>14, <1>15 DEF IInv

LEMMA SampleKeepsInv ==
  ASSUME IInv, NEW m \in DOMAIN jobs, Sample(m)
  PROVE  IInv'
<1>0. TypeOK /\ OnePlace /\ PlacedIsPending /\ DoneIsComplete /\ PageKnows
  BY DEF IInv
<1> DEFINE j == [jobs[m] EXCEPT !.found = @ + 1]
<1>1. jobs[m] \in Job
  BY <1>0 DEF TypeOK
<1>2. j \in Job /\ j.status = jobs[m].status
  BY <1>1 DEF Job
<1>3. m \in queue.running /\ jobs' = [jobs EXCEPT ![m] = j]
  BY DEF Sample
<1>4. page' = page /\ cache' = cache /\ upload' = upload /\ queue' = queue
  BY DEF Sample
<1> HIDE DEF j
<1>5. /\ jobs' \in Seq(Job) /\ DOMAIN jobs' = DOMAIN jobs
      /\ jobs'[m] = j /\ \A k \in DOMAIN jobs : k # m => jobs'[k] = jobs[k]
  BY <1>0, <1>2, <1>3, OneJob
<1>6. Waiting' = Waiting /\ Placed' = Placed
  BY <1>4 DEF Waiting, Placed
<1>7. OnePlace'
  BY <1>0, <1>4, <1>6 DEF OnePlace
<1>8. \A k \in DOMAIN jobs : jobs'[k].status = jobs[k].status
  BY <1>2, <1>5
<1>9. PlacedIsPending'
  BY <1>0, <1>5, <1>6, <1>8 DEF PlacedIsPending
<1>10. jobs[m].status # "done"
  BY <1>0, <1>3 DEF PlacedIsPending, Placed, Pending
<1>11. DoneIsComplete'
  BY <1>0, <1>5, <1>8, <1>10 DEF DoneIsComplete
<1>12. TypeOK' /\ PageKnows'
  BY <1>0, <1>4, <1>5, <1>8, MovesKeepKnowledge DEF TypeOK
<1> QED
  BY <1>7, <1>9, <1>11, <1>12 DEF IInv

LEMMA EndKeepsInv ==
  ASSUME IInv, NEW m \in DOMAIN jobs, NEW st \in Over, End(m, st),
         st = "done" => jobs[m].found = Samples
  PROVE  IInv'
<1>0. TypeOK /\ OnePlace /\ PlacedIsPending /\ DoneIsComplete /\ PageKnows
  BY DEF IInv
<1> DEFINE j == [jobs[m] EXCEPT !.status = st]
<1>1. jobs[m] \in Job /\ queue \in Queue
  BY <1>0 DEF TypeOK
<1>2. j \in Job /\ j.status = st /\ j.found = jobs[m].found
  BY <1>1 DEF Job
<1>3. m \in queue.running /\ jobs' = [jobs EXCEPT ![m] = j] /\ queue' = [queue EXCEPT !.running = @ \ {m}]
  BY DEF End
<1>4. page' = page /\ cache' = cache /\ upload' = upload
  BY DEF End
<1> HIDE DEF j
<1>5. /\ jobs' \in Seq(Job) /\ DOMAIN jobs' = DOMAIN jobs
      /\ jobs'[m] = j /\ \A k \in DOMAIN jobs : k # m => jobs'[k] = jobs[k]
  BY <1>0, <1>2, <1>3, OneJob
<1>6. /\ queue' \in Queue /\ queue'.waiting = queue.waiting /\ queue'.running = queue.running \ {m}
      /\ queue'.dropped = queue.dropped /\ queue'.accepted = queue.accepted
  BY <1>1, <1>3 DEF Queue
<1>7. Waiting' = Waiting /\ Placed' = Placed \ {m}
  BY <1>0, <1>3, <1>6 DEF Waiting, Placed, OnePlace
<1>8. OnePlace'
  BY <1>0, <1>6, <1>7 DEF OnePlace
<1>9. PlacedIsPending'
  BY <1>0, <1>2, <1>5, <1>7 DEF PlacedIsPending, Pending, Over
<1>10. jobs[m].status # "done"
  BY <1>0, <1>3 DEF PlacedIsPending, Placed, Pending
<1>11. DoneIsComplete' /\ \A k \in DOMAIN jobs : jobs[k].status = "done" => jobs'[k].status = "done"
  BY <1>0, <1>2, <1>5, <1>10 DEF DoneIsComplete
<1>12. TypeOK' /\ PageKnows'
  BY <1>0, <1>4, <1>5, <1>6, <1>11, MovesKeepKnowledge DEF TypeOK
<1> QED
  BY <1>8, <1>9, <1>11, <1>12 DEF IInv

LEMMA CrashKeepsInv ==
  ASSUME IInv, NEW m \in DOMAIN jobs, CrashJob(m)
  PROVE  IInv'
<1>0. TypeOK /\ OnePlace /\ PlacedIsPending /\ DoneIsComplete /\ PageKnows
  BY DEF IInv
<1>1. queue \in Queue /\ m \in Nat /\ m \in queue.running
  BY <1>0, JobTyped DEF TypeOK, CrashJob
<1>2. page' = page /\ cache' = cache /\ upload' = upload /\ jobs' = jobs
  BY DEF CrashJob
<1>3. /\ queue' \in Queue /\ queue'.waiting = queue.waiting /\ queue'.running = queue.running \ {m}
      /\ queue'.dropped = queue.dropped \cup {m} /\ queue'.accepted = queue.accepted
  BY <1>1 DEF CrashJob, Queue
<1>4. Waiting' = Waiting /\ Placed' = Placed
  BY <1>1, <1>3 DEF Waiting, Placed
<1>5. OnePlace'
  BY <1>0, <1>1, <1>3, <1>4 DEF OnePlace
<1>6. PlacedIsPending' /\ DoneIsComplete'
  BY <1>0, <1>2, <1>4 DEF PlacedIsPending, DoneIsComplete
<1>7. TypeOK' /\ PageKnows'
  BY <1>0, <1>2, <1>3, MovesKeepKnowledge DEF TypeOK
<1> QED
  BY <1>5, <1>6, <1>7 DEF IInv

LEMMA RestartKeepsInv ==
  ASSUME IInv, Restart
  PROVE  IInv'
<1>0. TypeOK /\ OnePlace /\ PlacedIsPending /\ DoneIsComplete /\ PageKnows
  BY DEF IInv
<1>1. PICK w \in Resumed : queue' = [waiting |-> w, running |-> {}, dropped |-> {}, accepted |-> {}]
  BY DEF Restart
<1>2. /\ w \in Seq(Nat) /\ Distinct(w)
      /\ ToSet(w) = {m \in DOMAIN jobs : jobs[m].status \in Pending}
  BY <1>0, ResumedFacts
<1>3. page' = page /\ cache' = cache /\ jobs' = jobs
  BY DEF Restart
<1>4. queue' \in Queue
  <2>1. w \in Files
    BY <1>2 DEF Files
  <2> QED
    BY <1>1, <2>1 DEF Queue
<1>5. Waiting' = ToSet(w) /\ Placed' = ToSet(w)
  BY <1>1 DEF Waiting, Placed
<1>6. OnePlace'
  BY <1>1, <1>2 DEF OnePlace
<1>7. PlacedIsPending' /\ DoneIsComplete'
  BY <1>0, <1>2, <1>3, <1>5 DEF PlacedIsPending, DoneIsComplete
<1>8. /\ upload' \in Upload
      /\ upload'.stage \in {"accepted", "done"} => upload.stage \in {"accepted", "done"} /\ upload'.media = upload.media
  BY <1>0 DEF Restart, TypeOK, Upload, Idle, None
<1>9. TypeOK' /\ PageKnows'
  BY <1>0, <1>3, <1>4, <1>8, MovesKeepKnowledge DEF TypeOK
<1> QED
  BY <1>6, <1>7, <1>9 DEF IInv

LEMMA JobKeepsInv ==
  ASSUME MaxMedia \in Nat, IInv, JobStep
  PROVE  IInv'
<1>1. ASSUME NEW m \in DOMAIN jobs, Finish(m) PROVE IInv'
  BY <1>1, EndKeepsInv DEF Finish, Over
<1>2. ASSUME NEW m \in DOMAIN jobs, FailJob(m) PROVE IInv'
  BY <1>2, EndKeepsInv DEF FailJob, Over
<1> QED
  BY <1>1, <1>2, AcceptKeepsInv, StartKeepsInv, RestartKeepsInv, EnqueueKeepsInv, SampleKeepsInv,
     CrashKeepsInv DEF JobStep

(* Every step keeps the invariant, also when the page is part of a larger *)
(* system that says when it is opened.                                    *)
LEMMA StepInv ==
  ASSUME MaxMedia \in Nat, IInv, Mount \/ Unmount \/ Next \/ UNCHANGED vars
  PROVE  IInv'
<1>1. CASE Mount \/ Unmount \/ Next
  BY <1>1, Steps, PageKeepsInv, JobKeepsInv
<1>2. CASE UNCHANGED vars
  BY <1>2 DEF vars, IInv, TypeOK, OnePlace, PlacedIsPending, DoneIsComplete, PageKnows, Waiting, Placed
<1> QED
  BY <1>1, <1>2

-----------------------------------------------------------------------------
(* What the invariant says of the places of one job. *)
LEMMA JobsHavePlaces == ASSUME IInv PROVE NoJobLost
<1> SUFFICES ASSUME NEW m \in DOMAIN jobs
             PROVE  Places(m) = IF jobs[m].status \in Pending THEN 1 ELSE 0
  BY DEF NoJobLost
<1> DEFINE W == {i \in DOMAIN queue.waiting : queue.waiting[i] = m}
           P == {p \in {"running", "dropped", "accepted"} : m \in queue[p]}
<1>0. OnePlace /\ PlacedIsPending
  BY DEF IInv
<1>1. Cardinality({}) = 0 /\ \A x : Cardinality({x}) = 1
  BY FS_EmptySet, FS_Singleton
<1>2. Places(m) = Cardinality(W) + Cardinality(P)
  BY DEF Places
<1>3. CASE m \in Waiting
  <2>1. PICK i \in DOMAIN queue.waiting : queue.waiting[i] = m
    BY <1>3 DEF Waiting, ToSet
  <2>2. W = {i}
    BY <1>0, <2>1 DEF OnePlace, Distinct
  <2>3. P = {}
    BY <1>0, <1>3 DEF OnePlace
  <2>4. jobs[m].status \in Pending
    BY <1>0, <1>3 DEF PlacedIsPending, Placed
  <2>5. Cardinality(W) = 1 /\ Cardinality(P) = 0
    BY <1>1, <2>2, <2>3
  <2> HIDE DEF W, P
  <2> QED
    BY <1>2, <2>4, <2>5
<1>4. CASE m \notin Waiting /\ m \in Placed
  <2>1. W = {}
    BY <1>4 DEF Waiting, ToSet
  <2>2. \E p : P = {p}
    <3>1. CASE m \in queue.running
      <4>1. P = {"running"}
        BY <1>0, <3>1 DEF OnePlace
      <4> QED
        BY <4>1
    <3>2. CASE m \in queue.dropped
      <4>1. P = {"dropped"}
        BY <1>0, <3>2 DEF OnePlace
      <4> QED
        BY <4>1
    <3>3. CASE m \in queue.accepted
      <4>1. P = {"accepted"}
        BY <1>0, <3>3 DEF OnePlace
      <4> QED
        BY <4>1
    <3> QED
      BY <1>4, <3>1, <3>2, <3>3 DEF Placed
  <2>3. jobs[m].status \in Pending
    BY <1>0, <1>4 DEF PlacedIsPending
  <2>4. Cardinality(W) = 0 /\ Cardinality(P) = 1
    BY <1>1, <2>1, <2>2
  <2> HIDE DEF W, P
  <2> QED
    BY <1>2, <2>3, <2>4
<1>5. CASE m \notin Placed
  <2>1. W = {} /\ P = {}
    BY <1>5 DEF Placed, Waiting, ToSet
  <2>2. jobs[m].status \notin Pending
    BY <1>0, <1>5 DEF PlacedIsPending
  <2>3. Cardinality(W) = 0 /\ Cardinality(P) = 0
    BY <1>1, <2>1
  <2> HIDE DEF W, P
  <2> QED
    BY <1>2, <2>2, <2>3
<1> QED
  BY <1>3, <1>4, <1>5 DEF Placed

(* What is shown is of a job that the page has seen done, and done jobs are *)
(* complete and stay so.                                                    *)
LEMMA DoneIsShown == ASSUME MaxMedia \in Nat, IInv PROVE ShownIsFinal
<1> SUFFICES ASSUME NEW m \in Current, ready(m), cache.found[m] # {}
             PROVE  jobs[m].found = Samples /\ cache.found[m] = {Samples}
  BY DEF ShownIsFinal, Shown
<1>1. m \in DOMAIN jobs /\ m \in Media
  BY CurrentIsListed, ListedIsAccepted, JobTyped DEF IInv
<1>2. jobs[m].status = "done" /\ cache.found[m] \subseteq {Samples}
  BY <1>1 DEF ready, IInv, PageKnows
<1> QED
  BY <1>1, <1>2 DEF IInv, DoneIsComplete

(* The invariant, for every number of files that may be uploaded. *)
THEOREM Invariant == ASSUME MaxMedia \in Nat PROVE Spec => []IInv
<1>1. Init => IInv
  BY InitInv
<1>2. IInv /\ [Mount \/ Unmount \/ Next]_vars => IInv'
  BY StepInv
<1> QED
  BY <1>1, <1>2, PTL DEF Spec

(* upload_thermal, the queue's workers and resume_pending: a job that is not *)
(* over has exactly one place in the process, whatever stops where.          *)
THEOREM OnePlaceForEveryJob == ASSUME MaxMedia \in Nat PROVE Spec => []NoJobLost
<1>1. IInv => NoJobLost
  BY JobsHavePlaces
<1> QED
  BY <1>1, Invariant, PTL

(* DetectionViewer and useJob: the page shows only what a job that is done *)
(* has found, and that is all there is.                                    *)
THEOREM NothingHalfDoneShown == ASSUME MaxMedia \in Nat PROVE Spec => []ShownIsFinal
<1>1. IInv => ShownIsFinal
  BY DoneIsShown
<1> QED
  BY <1>1, Invariant, PTL
=============================================================================
