-------------------------- MODULE ThermalAnalysis --------------------------
(***************************************************************************)
(* The analysis page, on which a thermal file is uploaded and its people   *)
(* are shown once it is analysed, and the jobs that analyse the files in   *)
(* a process that may be restarted at any time.                            *)
(*                                                                         *)
(* Code: features/analysis/AnalysisPage.tsx, api/thermal.ts,               *)
(* components/DetectionViewer.tsx, app/api/v1/thermal.py,                  *)
(* app/jobs/queue.py, app/jobs/thermal_pose_job.py.                        *)
(*                                                                         *)
(* One incident, which stays open.  A file is a number in the order of     *)
(* upload, what is found in it is the number of its samples that are       *)
(* analysed.  Zones, tracking, priorities and file types are left out.     *)
(***************************************************************************)
EXTENDS Naturals, Sequences, FiniteSets, FiniteSetsExt, SequencesExt

CONSTANTS
  Samples,      \* samples of a file
  Workers,      \* of the job queue
  MaxMedia,     \* bound: files that are accepted
  MaxRestarts   \* bound: restarts of the process, and handlers that crash

VARIABLES
  page,    \* useState of AnalysisPage, and whether the user is a commander
  cache,   \* the query cache: the list of uploads, jobs, detections
  upload,  \* the upload under way
  jobs,    \* analysis_jobs with the detections of their files
  queue,   \* the process's queue, what its workers run, what it dropped
  breaks   \* restarts and crashes so far

vars == <<page, cache, upload, jobs, queue, breaks>>

Media   == 1..MaxMedia
None    == "none"
Idle    == [stage |-> None, again |-> FALSE, live |-> FALSE, media |-> 0]
Pending == {"queued", "running"}
Over    == {"done", "failed"}

Init ==
  /\ page \in [open : {FALSE}, commander : BOOLEAN, file : {FALSE}, mine : {<<>>}, selected : {0}]
  /\ cache = [listed |-> {}, job |-> [m \in Media |-> None], found |-> [m \in Media |-> {}]]
  /\ upload = Idle
  /\ jobs = <<>>
  /\ queue = [waiting |-> <<>>, running |-> {}, dropped |-> {}, accepted |-> {}]
  /\ breaks = 0

(***************************************************************************)
(* The page                                                                *)
(***************************************************************************)
(* A commander sees the uploads that the server lists, others those they   *)
(* have made since they opened the page.                                   *)
Items == IF ~page.open THEN {} ELSE IF page.commander THEN cache.listed ELSE ToSet(page.mine)

Current ==
  IF page.selected \in Items THEN {page.selected} ELSE IF Items = {} THEN {} ELSE {Max(Items)}

(* Mutant: what is found is shown while it is being found. *)
Mutant_ready(m) == cache.job[m] # None

(* Viewer: the detections are loaded, and shown, when the job is done. *)
ready(m) == cache.job[m] = "done"

Shown == {m \in Current : ready(m) /\ cache.found[m] # {}}

pick ==
  /\ page.open /\ ~page.file /\ page' = [page EXCEPT !.file = TRUE]
  /\ UNCHANGED <<cache, upload, jobs, queue, breaks>>

StartUpload ==
  /\ page.open /\ page.file /\ ~upload.live /\ upload = Idle
  /\ upload' = [stage |-> "sent", again |-> FALSE, live |-> TRUE, media |-> 0]
  /\ UNCHANGED <<page, cache, jobs, queue, breaks>>

Select(m) ==
  /\ m \in Items \ {page.selected} /\ page' = [page EXCEPT !.selected = m]
  /\ UNCHANGED <<cache, upload, jobs, queue, breaks>>

(* The upload goes on without its page. *)
Mount   == ~page.open /\ page' = [page EXCEPT !.open = TRUE]
           /\ UNCHANGED <<cache, upload, jobs, queue, breaks>>
Unmount == /\ page.open /\ page' = [page EXCEPT !.open = FALSE, !.file = FALSE, !.mine = <<>>, !.selected = 0]
           /\ upload' = [upload EXCEPT !.live = FALSE]
           /\ UNCHANGED <<cache, jobs, queue, breaks>>

(* uploadThermal: 401 makes it refresh the session and send again, once. *)
UploadExpired(ok) ==
  /\ upload.stage = "sent"
  /\ upload' = IF ok /\ ~upload.again THEN [upload EXCEPT !.again = TRUE] ELSE Idle
  /\ UNCHANGED <<page, cache, jobs, queue, breaks>>

(* 202: the file is the newest of the page's own, and selected. *)
UploadAnswered ==
  /\ upload.stage = "done" /\ upload' = Idle
  /\ page' = IF ~upload.live THEN page
             ELSE [page EXCEPT !.mine = Append(@, upload.media), !.selected = upload.media, !.file = FALSE]
  /\ UNCHANGED <<cache, jobs, queue, breaks>>

(* An error, or no answer: the file stays, to be sent again. *)
UploadFails ==
  /\ upload.stage # None /\ upload' = Idle
  /\ UNCHANGED <<page, cache, jobs, queue, breaks>>

(***************************************************************************)
(* What the page loads                                                     *)
(***************************************************************************)
LoadUploads ==
  /\ page.open /\ page.commander /\ cache' = [cache EXCEPT !.listed = DOMAIN jobs]
  /\ UNCHANGED <<page, upload, jobs, queue, breaks>>

(* useJob: again and again until the job is over. *)
Poll(m) ==
  /\ m \in Items /\ cache.job[m] \notin Over
  /\ cache' = [cache EXCEPT !.job[m] = jobs[m].status]
  /\ UNCHANGED <<page, upload, jobs, queue, breaks>>

LoadDetections(m) ==
  /\ m \in Current /\ ready(m) /\ cache' = [cache EXCEPT !.found[m] = {jobs[m].found}]
  /\ UNCHANGED <<page, upload, jobs, queue, breaks>>

(***************************************************************************)
(* The server                                                              *)
(***************************************************************************)
(* upload_thermal commits the job, and enqueues it afterwards. *)
Accept ==
  /\ upload.stage = "sent" /\ Len(jobs) < MaxMedia
  /\ jobs' = Append(jobs, [status |-> "queued", found |-> 0])
  /\ queue' = [queue EXCEPT !.accepted = @ \cup {Len(jobs')}]
  /\ upload' = [upload EXCEPT !.stage = "accepted", !.media = Len(jobs')]
  /\ UNCHANGED <<page, cache, breaks>>

enqueue(m) ==
  /\ m \in queue.accepted
  /\ queue' = [queue EXCEPT !.accepted = @ \ {m}, !.waiting = Append(@, m)]
  /\ upload' = IF upload.media = m THEN [upload EXCEPT !.stage = "done"] ELSE upload
  /\ UNCHANGED <<page, cache, jobs, breaks>>

(* A worker takes the next job, which starts clean. *)
StartJob ==
  LET m == Head(queue.waiting) IN
  /\ queue.waiting # <<>> /\ Cardinality(queue.running) < Workers
  /\ queue' = [queue EXCEPT !.waiting = Tail(@), !.running = @ \cup {m}]
  /\ jobs' = [jobs EXCEPT ![m] = [status |-> "running", found |-> 0]]
  /\ UNCHANGED <<page, cache, upload, breaks>>

Sample(m) ==
  /\ m \in queue.running /\ jobs[m].found < Samples
  /\ jobs' = [jobs EXCEPT ![m].found = @ + 1]
  /\ UNCHANGED <<page, cache, upload, queue, breaks>>

End(m, st) ==
  /\ m \in queue.running /\ queue' = [queue EXCEPT !.running = @ \ {m}]
  /\ jobs' = [jobs EXCEPT ![m].status = st]
  /\ UNCHANGED <<page, cache, upload, breaks>>

Finish(m)  == jobs[m].found = Samples /\ End(m, "done")
FailJob(m) == End(m, "failed")

(* An error outside the job's own handler is logged, and the job is as it  *)
(* was: nobody runs it before the next restart.                            *)
CrashJob(m) ==
  /\ m \in queue.running /\ breaks < MaxRestarts /\ breaks' = breaks + 1
  /\ queue' = [queue EXCEPT !.running = @ \ {m}, !.dropped = @ \cup {m}]
  /\ UNCHANGED <<page, cache, upload, jobs>>

(* Mutant: only the jobs that had not started are run. *)
Mutant_resume_pending(m) == jobs[m].status = "queued"

(* resume_pending *)
resume_pending(m) == jobs[m].status \in Pending

(* The one order in which they are enqueued: the oldest first. *)
Resumed ==
  {w \in SetToSeqs({m \in DOMAIN jobs : resume_pending(m)}) :
     \A i, j \in DOMAIN w : i < j => w[i] < w[j]}

(* The process stops where it is, and starts again. *)
Restart ==
  /\ breaks < MaxRestarts /\ breaks' = breaks + 1
  /\ \E w \in Resumed :
       queue' = [waiting |-> w, running |-> {}, dropped |-> {}, accepted |-> {}]
  /\ upload' = IF upload.stage = "accepted" THEN Idle ELSE upload
  /\ UNCHANGED <<page, cache, jobs>>

Next ==
  \/ pick \/ StartUpload \/ UploadAnswered \/ UploadFails \/ LoadUploads
  \/ Accept \/ StartJob \/ Restart
  \/ \E ok \in BOOLEAN : UploadExpired(ok)
  \/ \E m \in DOMAIN jobs : \/ Select(m) \/ Poll(m) \/ LoadDetections(m) \/ enqueue(m)
                            \/ Sample(m) \/ Finish(m) \/ FailJob(m) \/ CrashJob(m)

Spec == Init /\ [][Mount \/ Unmount \/ Next]_vars

(***************************************************************************)
(* Properties                                                              *)
(***************************************************************************)
(* What the viewer shows of a file is all there is to be found in it, also *)
(* when its job was interrupted by a restart and started from the          *)
(* beginning, with what it had found deleted.                              *)
ShownIsFinal == \A m \in Shown : jobs[m].found = Samples /\ cache.found[m] = {Samples}

(* An accepted file is neither forgotten nor analysed twice at once: a job *)
(* that is not over is in one place, and one that is over is in none.  It  *)
(* waits, or is run by one worker, or its handler is about to enqueue it,  *)
(* across any restart; one whose handler crashed has to wait for the next. *)
Places(m) == Cardinality({i \in DOMAIN queue.waiting : queue.waiting[i] = m})
             + Cardinality({p \in {"running", "dropped", "accepted"} : m \in queue[p]})

NoJobLost ==
  \A m \in DOMAIN jobs : Places(m) = IF jobs[m].status \in Pending THEN 1 ELSE 0
=============================================================================
