------------------------------ MODULE Reports ------------------------------
(***************************************************************************)
(* The life of one incident (api/v1/incidents.py), its team                *)
(* (api/v1/teams.py) and its report (services/reports.py,                  *)
(* api/v1/reports.py).                                                     *)
(*                                                                         *)
(* Handlers are transactions at READ COMMITTED.  Those that change the     *)
(* incident or its team take the incident's row FOR UPDATE, and hold it to *)
(* the end: of these only `close` reads something another transaction may  *)
(* change meanwhile (the figures), so it alone takes two steps and the     *)
(* others take one.  The report handlers take no lock: each reads in one   *)
(* step and writes, in another, what it made of what it read.              *)
(*                                                                         *)
(* What the figures are is abstracted to a number, `facts`, that grows     *)
(* with every commit a report would show (a frame's assessment, a job's    *)
(* detections, a victim's new state); such commits go on after the         *)
(* incident closed.                                                        *)
(***************************************************************************)
EXTENDS Naturals, Sequences

CONSTANTS
    Req,        \* requests in flight, each with the background task it starts
    User,       \* field responders that may be assigned
    Lang,       \* languages a report is printed in
    None,       \* no report, no PDF, no holder of the row
    MaxFacts,   \* bound on the commits that change the figures
    MaxRows,    \* bound on the rows of the team
    MaxGen      \* bound on the times the report is compiled

ASSUME BoundsAssumption ==
    /\ MaxFacts \in Nat /\ MaxRows \in Nat \ {0} /\ MaxGen \in Nat \ {0}
    /\ None \notin Req
    /\ {"open", "regenerate"} \cap Lang = {}

VARIABLES
    incident,   \* the row of the incident
    team,       \* rows of team_assignments, in the order they were inserted
    facts,      \* how many commits a report compiled now would show
    report,     \* the row of incident_reports, or None
    lock,       \* the request holding the incident's row FOR UPDATE, or None
    req         \* what each request holds between its steps

vars == <<incident, team, facts, report, lock, req>>

Idle == [at |-> "idle"]

-----------------------------------------------------------------------------
(* The team.  `end` is unassigned_at: "open" while it is null, otherwise   *)
(* the call that set it.                                                   *)

Row == [user : User, end : {"open", "moved", "unassigned", "closed"}]

OpenRows(rows) == {i \in DOMAIN rows : rows[i].end = "open"}

Ended(rows, some, how) ==
    [i \in DOMAIN rows |-> IF i \in some THEN [rows[i] EXCEPT !.end = how]
                                         ELSE rows[i]]

OpenUsers(rows) == {rows[i].user : i \in OpenRows(rows)}

(* Mutant: a reassignment only inserts the new row. *)
SupersededNone(user) == {}

\* The open rows a new assignment of the user replaces.
Superseded(user) == {i \in OpenRows(team) : team[i].user = user}

\* The team as close leaves it.
Dismissed == Ended(team, OpenRows(team), "closed")

-----------------------------------------------------------------------------
(* The report's document (the `stats` column): the figures it shows, the   *)
(* responders it lists as still assigned, the figures its narrative tells, *)
(* whether the LLM wrote it, and for each language what the cached PDF     *)
(* prints, if there is one.                                                *)

Printed == [gen : 1..MaxGen, facts : 0..MaxFacts, llm : BOOLEAN]

Doc == [facts : 0..MaxFacts, open : SUBSET User, told : 0..MaxFacts,
        llm : BOOLEAN, pdfs : [Lang -> Printed \cup {None}]]

ReportRow == [gen : 1..MaxGen, doc : Doc]

ASSUME NoneAssumption == None \notin Printed /\ None \notin ReportRow

NoPdfs == [l \in Lang |-> None]

(* Mutant: the report is compiled before the end of the team is flushed. *)
CompiledUnflushed(rows) ==
    [facts |-> facts, open |-> OpenUsers(team), told |-> facts,
     llm |-> FALSE, pdfs |-> NoPdfs]

Compiled(rows) == [facts |-> facts, open |-> OpenUsers(rows), told |-> facts,
                   llm |-> FALSE, pdfs |-> NoPdfs]

\* compile_and_store writes the one row of the incident.
Stored(doc) == [gen |-> IF report = None THEN 1 ELSE report.gen + 1,
                doc |-> doc]

(* Mutant: the narrative goes into the document of the moment. *)
EnrichedLate(doc) ==
    [report.doc EXCEPT !.told = doc.facts, !.llm = TRUE, !.pdfs = NoPdfs]

(* Mutant: the cached PDFs are kept. *)
EnrichedKeepingPdfs(doc) == [doc EXCEPT !.told = doc.facts, !.llm = TRUE]

\* The document with the narrative the LLM made of it.
Enriched(doc) == [doc EXCEPT !.told = doc.facts, !.llm = TRUE, !.pdfs = NoPdfs]

\* The document with the PDF made of it, stamped with its generated_at.
WithPdf(doc, lang, gen) ==
    [doc EXCEPT !.pdfs[lang] = [gen |-> gen, facts |-> doc.facts, llm |-> doc.llm]]

-----------------------------------------------------------------------------
(* Mutant: a deleted incident is found like any other. *)
FoundDeleted == incident.deleted \in BOOLEAN

\* get_incident finds the row; with lock=True it also waits for it.
Found == ~incident.deleted

(* Mutant: the row is read without FOR UPDATE. *)
Unlocked == Found

Locked == lock = None /\ Found

\* An incident dispatched from the web, every responder at most once, or one
\* a phone has synchronised, over or not.
Init ==
    /\ \/ /\ incident = [source |-> "web", status |-> "dispatched", deleted |-> FALSE]
          /\ \E u \in User : team \in {<<>>, <<[user |-> u, end |-> "open"]>>}
       \/ /\ \E s \in {"active", "closed"} :
                incident = [source |-> "mobile_sync", status |-> s, deleted |-> FALSE]
          /\ team = <<>>
    /\ facts = 0
    /\ report = None
    /\ lock = None
    /\ req = [r \in Req |-> Idle]

-----------------------------------------------------------------------------
(* The incident and its team.                                              *)

\* A frame, a job or a responder changes what a report would show.
RecordFacts ==
    /\ facts < MaxFacts
    /\ facts' = facts + 1
    /\ UNCHANGED <<incident, team, report, lock, req>>

Activatable == incident.status \in {"draft", "dispatched"}

Activate ==
    /\ Locked /\ Activatable
    /\ incident' = [incident EXCEPT !.status = "active"]
    /\ UNCHANGED <<team, facts, report, lock, req>>

(* Mutant: the status of the incident is not looked at. *)
AssignableAlways == TRUE

Assignable == incident.status # "closed"

Assign(u) ==
    /\ Locked /\ Assignable
    /\ Len(team) < MaxRows
    /\ team' = Append(Ended(team, Superseded(u), "moved"),
                      [user |-> u, end |-> "open"])
    /\ UNCHANGED <<incident, facts, report, lock, req>>

\* The row of the assignment is read first, without the lock ...
UnassignRead(r, i) ==
    /\ req[r] = Idle
    /\ i \in DOMAIN team
    /\ req' = [req EXCEPT ![r] = [at |-> "unassign", row |-> i, end |-> team[i].end]]
    /\ UNCHANGED <<incident, team, facts, report, lock>>

\* ... and what it said then decides whether it is ended.
UnassignCommit(r) ==
    /\ req[r].at = "unassign"
    /\ Locked
    /\ team' = IF req[r].end = "open" THEN Ended(team, {req[r].row}, "unassigned")
                                      ELSE team
    /\ req' = [req EXCEPT ![r] = Idle]
    /\ UNCHANGED <<incident, facts, report, lock>>

Delete ==
    /\ Locked
    /\ incident' = [incident EXCEPT !.deleted = TRUE]
    /\ UNCHANGED <<team, facts, report, lock, req>>

\* Close takes the row, ends the team and compiles the report from what its
\* transaction sees: the figures others have committed, its own team ...
CloseBegin(r) ==
    /\ req[r] = Idle
    /\ Locked /\ incident.status # "closed"
    /\ lock' = r
    /\ req' = [req EXCEPT ![r] = [at |-> "close", doc |-> Compiled(Dismissed)]]
    /\ UNCHANGED <<incident, team, facts, report>>

\* ... and commits it all at once, then schedules the enrichment.
CloseCommit(r) ==
    /\ req[r].at = "close"
    /\ incident' = [incident EXCEPT !.status = "closed"]
    /\ team' = Dismissed
    /\ report' = Stored(req[r].doc)
    /\ lock' = None
    /\ req' = [req EXCEPT ![r] = [at |-> "scheduled"]]
    /\ UNCHANGED facts

-----------------------------------------------------------------------------
(* The report.                                                             *)

Reportable == Found /\ incident.status = "closed"

\* What follows once the report is compiled: `get_report` answers,
\* `regenerate_report` schedules the enrichment, `report_pdf` renders.
Purpose == {"open", "regenerate"} \cup Lang

CompileRead(r, p) ==
    /\ req[r] = Idle
    /\ Reportable
    /\ p # "regenerate" => report = None
    /\ req' = [req EXCEPT ![r] = [at |-> "compile", purpose |-> p,
                                  doc |-> Compiled(team)]]
    /\ UNCHANGED <<incident, team, facts, report, lock>>

CompileCommit(r) ==
    /\ req[r].at = "compile"
    /\ LET new == Stored(req[r].doc)  p == req[r].purpose IN
        /\ new.gen <= MaxGen
        /\ report' = new
        /\ req' = [req EXCEPT ![r] =
                     CASE p = "open" -> Idle
                       [] p = "regenerate" -> [at |-> "scheduled"]
                       [] OTHER -> [at |-> "render", lang |-> p,
                                    doc |-> new.doc, gen |-> new.gen]]
    /\ UNCHANGED <<incident, team, facts, lock>>

\* report_pdf finds no cached PDF and renders the document it has read ...
PdfRead(r, l) ==
    /\ req[r] = Idle
    /\ Reportable /\ report # None
    /\ report.doc.pdfs[l] = None
    /\ req' = [req EXCEPT ![r] = [at |-> "render", lang |-> l,
                                  doc |-> report.doc, gen |-> report.gen]]
    /\ UNCHANGED <<incident, team, facts, report, lock>>

\* ... then writes that document back, whole, with the PDF listed in it.
PdfCommit(r) ==
    /\ req[r].at = "render"
    /\ report' = [report EXCEPT !.doc = WithPdf(req[r].doc, req[r].lang, req[r].gen)]
    /\ req' = [req EXCEPT ![r] = Idle]
    /\ UNCHANGED <<incident, team, facts, lock>>

\* The background task reads the document and asks the LLM for a narrative ...
EnrichRead(r) ==
    /\ req[r].at = "scheduled"
    /\ req' = [req EXCEPT ![r] = [at |-> "draft", doc |-> report.doc]]
    /\ UNCHANGED <<incident, team, facts, report, lock>>

\* ... then writes the document it had read back, whole, with the narrative.
EnrichCommit(r) ==
    /\ req[r].at = "draft"
    /\ report' = [report EXCEPT !.doc = Enriched(req[r].doc)]
    /\ req' = [req EXCEPT ![r] = Idle]
    /\ UNCHANGED <<incident, team, facts, lock>>

-----------------------------------------------------------------------------
\* A request or a task ends without its write: the incident is not found, a
\* second INSERT of the report meets the unique incident_id, the feature is
\* off, the LLM is unavailable, the process stops (all of them, one by one).
Fail(r) ==
    /\ req[r] # Idle
    /\ req' = [req EXCEPT ![r] = Idle]
    /\ lock' = IF lock = r THEN None ELSE lock
    /\ UNCHANGED <<incident, team, facts, report>>

Next ==
    \/ RecordFacts \/ Activate \/ Delete
    \/ \E u \in User : Assign(u)
    \/ \E r \in Req :
        \/ \E i \in 1..MaxRows : UnassignRead(r, i)
        \/ \E p \in Purpose : CompileRead(r, p)
        \/ \E l \in Lang : PdfRead(r, l)
        \/ UnassignCommit(r) \/ CloseBegin(r) \/ CloseCommit(r)
        \/ CompileCommit(r) \/ PdfCommit(r)
        \/ EnrichRead(r) \/ EnrichCommit(r)
        \/ Fail(r)

Spec == Init /\ [][Next]_vars

-----------------------------------------------------------------------------
\* What a request may hold between its steps.
Held ==
    {Idle, [at |-> "scheduled"]}
    \cup [at : {"unassign"}, row : 1..MaxRows,
          end : {"open", "moved", "unassigned", "closed"}]
    \cup [at : {"close", "draft"}, doc : Doc]
    \cup [at : {"compile"}, purpose : Purpose, doc : Doc]
    \cup [at : {"render"}, lang : Lang, doc : Doc, gen : 1..MaxGen]

(* Types of the rows and of what a request holds between its steps; the    *)
(* incident's row is locked exactly while `close` is between its two steps.*)
TypeOK ==
    /\ incident \in [source : {"web", "mobile_sync"}, deleted : BOOLEAN,
                     status : {"dispatched", "active", "closed"}]
    /\ team \in Seq(Row) /\ Len(team) <= MaxRows
    /\ facts \in 0..MaxFacts
    /\ report \in ReportRow \cup {None}
    /\ req \in [Req -> Held]
    /\ lock \in Req \cup {None}
    /\ \A r \in Req : lock = r <=> req[r].at = "close"

(* No responder stays assigned to an incident that is over, however        *)
(* dispatching and closing interleave: `assign` and `close` decide under   *)
(* the incident's row lock.                                                *)
ClosedHasNoTeam == incident.status = "closed" => OpenRows(team) = {}

(* A responder has at most one open assignment in an incident: a second    *)
(* one is a reassignment, which ends the first.                            *)
OneOpenAssignment ==
    \A i, j \in OpenRows(team) : team[i].user = team[j].user => i = j

(* Closing an incident on the web leaves its report, and no report says    *)
(* that a responder is still out: whoever compiles it, at close, on first  *)
(* opening or again, sees the team after it was dismissed.                 *)
ReportShowsTheEnd ==
    /\ incident.source = "web" /\ incident.status = "closed" => report # None
    /\ report # None => report.doc.open = {}

(* The narrative tells the figures it stands beside, whichever of the      *)
(* unlocked writers of the document wrote last: each writes a whole        *)
(* document made from one reading.                                         *)
NarrativeTellsItsFacts == report # None => report.doc.told = report.doc.facts

(* A cached PDF prints the figures and the narrative the report shows on   *)
(* screen: whatever changes them drops the cached PDFs.                    *)
PdfTellsTheReport ==
    report # None =>
        \A l \in Lang :
            LET pdf == report.doc.pdfs[l] IN
            pdf # None => /\ pdf.facts = report.doc.facts
                          /\ pdf.llm = report.doc.llm

(* An incident never reopens, and once deleted neither it nor its team     *)
(* changes any more, by requests that were already under way too.          *)
LifeOnlyForward ==
    [][ /\ incident.status = "closed" => incident'.status = "closed"
        /\ incident.status = "active" => incident'.status # "dispatched"
        /\ incident.deleted => incident' = incident /\ team' = team ]_vars

(* Documented at docs/API.md:122-123 ("cached PDFs are discarded", "Cached *)
(* per language until regenerated"): a cached PDF is of the report's       *)
(* current generation.  A PDF rendered from an older document is written   *)
(* back over the regenerated one (api/v1/reports.py:122-126).  Stated for  *)
(* incidents closed on the web, whose report is compiled again by          *)
(* `regenerate_report` only.                                               *)
CacheEndsWithRegeneration ==
    incident.source = "web" /\ report # None =>
        \A l \in Lang : LET pdf == report.doc.pdfs[l] IN
                         pdf # None => pdf.gen = report.gen
=============================================================================
