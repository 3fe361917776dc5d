--------------------------- MODULE ReportsProofs ---------------------------
(***************************************************************************)
(* Theorems about Reports, for any number of requests, responders,         *)
(* languages, team rows and compilations.                                  *)
(***************************************************************************)
EXTENDS Reports, TLAPS

-----------------------------------------------------------------------------
(* The inductive invariant.                                                *)

\* A document tells one story: nobody is still out, the narrative and every
\* PDF say what the figures say.
OneStory(doc) ==
    /\ doc.open = {}
    /\ doc.told = doc.facts
    /\ \A l \in Lang : doc.pdfs[l] # None =>
           doc.pdfs[l].facts = doc.facts /\ doc.pdfs[l].llm = doc.llm

\* There is a report only of a closed incident, and always of one that was
\* closed on the web.
ReportMatchesLife ==
    /\ report # None => incident.status = "closed" /\ OneStory(report.doc)
    /\ incident.source = "web" /\ incident.status = "closed" => report # None

\* Every document that a request holds tells one story, and what the request
\* relied on when it read it still holds.
HeldOK(h) ==
    /\ h.at = "close" => /\ incident.status # "closed" /\ ~incident.deleted
                         /\ OneStory(h.doc)
    /\ h.at = "compile" => incident.status = "closed" /\ OneStory(h.doc)
    /\ h.at = "scheduled" => report # None
    /\ h.at \in {"draft", "render"} => report # None /\ OneStory(h.doc)

IInv ==
    /\ TypeOK
    /\ ClosedHasNoTeam
    /\ OneOpenAssignment
    /\ ReportMatchesLife
    /\ \A r \in Req : HeldOK(req[r])

-----------------------------------------------------------------------------
(* Facts about the operators.                                              *)

LEMMA EndedRows ==
    ASSUME NEW rows \in Seq(Row), NEW some, NEW how \in {"moved", "unassigned", "closed"}
    PROVE  /\ Ended(rows, some, how) \in Seq(Row)
           /\ Len(Ended(rows, some, how)) = Len(rows)
           /\ OpenRows(Ended(rows, some, how)) = OpenRows(rows) \ some
           /\ \A i \in DOMAIN rows : Ended(rows, some, how)[i].user = rows[i].user
<1> DEFINE e == Ended(rows, some, how)
<1>1. DOMAIN rows = 1..Len(rows) /\ Len(rows) \in Nat
  OBVIOUS
<1>2. \A i \in 1..Len(rows) : rows[i] \in Row
  OBVIOUS
<1>3. DOMAIN e = 1..Len(rows)
  BY <1>1 DEF Ended
<1>4. ASSUME NEW i \in 1..Len(rows)
      PROVE  /\ e[i] \in Row
             /\ e[i].user = rows[i].user
             /\ e[i].end = "open" <=> rows[i].end = "open" /\ i \notin some
  <2>1. CASE i \in some
    <3>1. e[i] = [rows[i] EXCEPT !.end = how]
      BY <1>1, <2>1 DEF Ended
    <3> QED
      BY <1>2, <2>1, <3>1 DEF Row
  <2>2. CASE i \notin some
    <3>1. e[i] = rows[i]
      BY <1>1, <2>2 DEF Ended
    <3> QED
      BY <1>2, <2>2, <3>1
  <2> QED
    BY <2>1, <2>2
<1>5. e \in [1..Len(rows) -> Row]
  <2>1. e = [i \in 1..Len(rows) |-> e[i]]
    BY <1>1 DEF Ended
  <2> HIDE DEF e
  <2> QED
    BY <1>4, <2>1
<1>6. e \in Seq(Row) /\ Len(e) = Len(rows)
  <2> HIDE DEF e
  <2> QED
    BY <1>1, <1>5
<1>7. OpenRows(e) = OpenRows(rows) \ some
  <2> HIDE DEF e
  <2> QED
    BY <1>1, <1>3, <1>4 DEF OpenRows
<1> QED
  BY <1>1, <1>4, <1>6, <1>7

LEMMA CompiledDoc ==
    ASSUME TypeOK, NEW rows \in Seq(Row)
    PROVE  /\ Compiled(rows) \in Doc
           /\ OpenRows(rows) = {} => OneStory(Compiled(rows))
<1>1. \A i \in DOMAIN rows : rows[i].user \in User
  <2>1. \A i \in DOMAIN rows : rows[i] \in Row
    OBVIOUS
  <2> QED
    BY <2>1 DEF Row
<1>2. OpenUsers(rows) \in SUBSET User
  BY <1>1 DEF OpenUsers, OpenRows
<1>3. NoPdfs \in [Lang -> Printed \cup {None}] /\ \A l \in Lang : NoPdfs[l] = None
  BY DEF NoPdfs
<1>4. facts \in 0..MaxFacts
  BY DEF TypeOK
<1>5. Compiled(rows) \in Doc
  BY <1>2, <1>3, <1>4 DEF Compiled, Doc
<1>6. ASSUME OpenRows(rows) = {}  PROVE OneStory(Compiled(rows))
  BY <1>3, <1>6 DEF OneStory, Compiled, OpenUsers
<1> QED
  BY <1>5, <1>6

LEMMA EnrichedDoc ==
    ASSUME NEW doc \in Doc, OneStory(doc)
    PROVE  Enriched(doc) \in Doc /\ OneStory(Enriched(doc))
<1>1. NoPdfs \in [Lang -> Printed \cup {None}] /\ \A l \in Lang : NoPdfs[l] = None
  BY DEF NoPdfs
<1>2. Enriched(doc) \in Doc
  BY <1>1 DEF Enriched, Doc
<1>3. /\ Enriched(doc).open = doc.open
      /\ Enriched(doc).told = Enriched(doc).facts
      /\ Enriched(doc).pdfs = NoPdfs
  BY DEF Enriched, Doc
<1>4. OneStory(Enriched(doc))
  BY <1>1, <1>3 DEF OneStory
<1> QED
  BY <1>2, <1>4

LEMMA WithPdfDoc ==
    ASSUME NEW doc \in Doc, OneStory(doc), NEW lang \in Lang, NEW gen \in 1..MaxGen
    PROVE  WithPdf(doc, lang, gen) \in Doc /\ OneStory(WithPdf(doc, lang, gen))
<1> DEFINE pdf == [gen |-> gen, facts |-> doc.facts, llm |-> doc.llm]
           pdfs == [doc.pdfs EXCEPT ![lang] = pdf]
<1>1. pdf \in Printed /\ pdf.facts = doc.facts /\ pdf.llm = doc.llm
  BY DEF Doc, Printed
<1>2. doc.pdfs \in [Lang -> Printed \cup {None}]
  BY DEF Doc
<1> HIDE DEF pdf
<1>3. /\ pdfs \in [Lang -> Printed \cup {None}]
      /\ \A l \in Lang : pdfs[l] = IF l = lang THEN pdf ELSE doc.pdfs[l]
  BY <1>1, <1>2
<1>4. WithPdf(doc, lang, gen) =
        [facts |-> doc.facts, open |-> doc.open, told |-> doc.told,
         llm |-> doc.llm, pdfs |-> pdfs]
  BY DEF WithPdf, Doc, pdf
<1> HIDE DEF pdfs
<1>5. WithPdf(doc, lang, gen) \in Doc
  BY <1>3, <1>4 DEF Doc
<1>6. OneStory(WithPdf(doc, lang, gen))
  BY <1>1, <1>3, <1>4 DEF OneStory
<1> QED
  BY <1>5, <1>6

\* What can be read off a held value from the place where it is held.
LEMMA HeldParts ==
    ASSUME NEW h \in Held
    PROVE  /\ h.at \in {"close", "compile", "draft", "render"} => h.doc \in Doc
           /\ h.at = "unassign" => h.row \in 1..MaxRows
           /\ h.at = "compile" => h.purpose \in Purpose
           /\ h.at = "render" => h.lang \in Lang /\ h.gen \in 1..MaxGen
           /\ h.at = "idle" <=> h = Idle
BY DEF Held, Idle

-----------------------------------------------------------------------------
(* Steps.                                                                  *)

\* A step of one request that changes no row.
LEMMA HoldStep ==
    ASSUME IInv, NEW r \in Req, NEW h \in Held,
           req' = [req EXCEPT ![r] = h], HeldOK(h),
           lock' \in Req \cup {None},
           \A s \in Req : lock' = s <=> req'[s].at = "close",
           UNCHANGED <<incident, team, facts, report>>
    PROVE  IInv'
<1>1. TypeOK'
  BY DEF IInv, TypeOK
<1>2. ClosedHasNoTeam' /\ OneOpenAssignment' /\ ReportMatchesLife'
  BY DEF IInv, ClosedHasNoTeam, OneOpenAssignment, OpenRows, ReportMatchesLife, OneStory
<1>3. ASSUME NEW s \in Req  PROVE HeldOK(req[s])'
  <2>1. HeldOK(req'[s])
    BY DEF IInv, TypeOK
  <2> QED
    BY <2>1 DEF HeldOK, OneStory
<1> QED
  BY <1>1, <1>2, <1>3 DEF IInv

\* A step of one request that keeps the lock where it is.
LEMMA LockKept ==
    ASSUME TypeOK, NEW r \in Req, NEW h, req' = [req EXCEPT ![r] = h],
           lock' = lock, (h.at = "close") <=> (req[r].at = "close")
    PROVE  /\ lock' \in Req \cup {None}
           /\ \A s \in Req : lock' = s <=> req'[s].at = "close"
BY DEF TypeOK

LEMMA UnassignReadStep ==
    ASSUME IInv, NEW r \in Req, NEW i \in 1..MaxRows, UnassignRead(r, i)
    PROVE  IInv'
<1> DEFINE h == [at |-> "unassign", row |-> i, end |-> team[i].end]
<1>1. team[i] \in Row
  BY DEF IInv, TypeOK, UnassignRead
<1>2. h \in Held /\ h.at = "unassign"
  BY <1>1 DEF Held, Row
<1>3. /\ req' = [req EXCEPT ![r] = h]
      /\ lock' = lock /\ UNCHANGED <<incident, team, facts, report>>
      /\ req[r].at # "close"
  BY DEF UnassignRead, Idle
<1>4. HeldOK(h)
  BY <1>2 DEF HeldOK
<1> HIDE DEF h
<1>5. /\ lock' \in Req \cup {None}
      /\ \A s \in Req : lock' = s <=> req'[s].at = "close"
  BY <1>2, <1>3, LockKept DEF IInv
<1> QED
  BY <1>2, <1>3, <1>4, <1>5, HoldStep

LEMMA CompileReadStep ==
    ASSUME IInv, NEW r \in Req, NEW p \in Purpose, CompileRead(r, p)
    PROVE  IInv'
<1> DEFINE h == [at |-> "compile", purpose |-> p, doc |-> Compiled(team)]
<1>1. TypeOK /\ team \in Seq(Row) /\ OpenRows(team) = {} /\ incident.status = "closed"
  BY DEF IInv, TypeOK, CompileRead, Reportable, ClosedHasNoTeam
<1>2. Compiled(team) \in Doc /\ OneStory(Compiled(team))
  BY <1>1, CompiledDoc
<1>3. h \in Held /\ h.at = "compile" /\ h.doc = Compiled(team)
  BY <1>2 DEF Held
<1>4. /\ req' = [req EXCEPT ![r] = h]
      /\ lock' = lock /\ UNCHANGED <<incident, team, facts, report>>
      /\ req[r].at # "close"
  BY DEF CompileRead, Idle
<1> HIDE DEF h
<1>5. HeldOK(h)
  BY <1>1, <1>2, <1>3 DEF HeldOK
<1>6. /\ lock' \in Req \cup {None}
      /\ \A s \in Req : lock' = s <=> req'[s].at = "close"
  BY <1>1, <1>3, <1>4, LockKept
<1> QED
  BY <1>3, <1>4, <1>5, <1>6, HoldStep

LEMMA PdfReadStep ==
    ASSUME IInv, NEW r \in Req, NEW l \in Lang, PdfRead(r, l)
    PROVE  IInv'
<1> DEFINE h == [at |-> "render", lang |-> l, doc |-> report.doc, gen |-> report.gen]
<1>1. report # None /\ report \in ReportRow /\ OneStory(report.doc)
  BY DEF IInv, TypeOK, PdfRead, ReportMatchesLife
<1>2. h \in Held /\ h.at = "render" /\ h.doc = report.doc
  BY <1>1 DEF Held, ReportRow
<1>3. /\ req' = [req EXCEPT ![r] = h]
      /\ lock' = lock /\ UNCHANGED <<incident, team, facts, report>>
      /\ req[r].at # "close"
  BY DEF PdfRead, Idle
<1> HIDE DEF h
<1>4. HeldOK(h)
  BY <1>1, <1>2 DEF HeldOK
<1>5. /\ lock' \in Req \cup {None}
      /\ \A s \in Req : lock' = s <=> req'[s].at = "close"
  BY <1>2, <1>3, LockKept DEF IInv
<1> QED
  BY <1>2, <1>3, <1>4, <1>5, HoldStep

LEMMA EnrichReadStep ==
    ASSUME IInv, NEW r \in Req, EnrichRead(r)
    PROVE  IInv'
<1> DEFINE h == [at |-> "draft", doc |-> report.doc]
<1>1. HeldOK(req[r]) /\ req[r].at = "scheduled"
  BY DEF IInv, EnrichRead
<1>2. report # None /\ report \in ReportRow /\ OneStory(report.doc)
  BY <1>1 DEF IInv, TypeOK, HeldOK, ReportMatchesLife
<1>3. h \in Held /\ h.at = "draft" /\ h.doc = report.doc
  BY <1>2 DEF Held, ReportRow
<1>4. /\ req' = [req EXCEPT ![r] = h]
      /\ lock' = lock /\ UNCHANGED <<incident, team, facts, report>>
  BY DEF EnrichRead
<1> HIDE DEF h
<1>5. HeldOK(h)
  BY <1>2, <1>3 DEF HeldOK
<1>6. /\ lock' \in Req \cup {None}
      /\ \A s \in Req : lock' = s <=> req'[s].at = "close"
  BY <1>1, <1>3, <1>4, LockKept DEF IInv
<1> QED
  BY <1>3, <1>4, <1>5, <1>6, HoldStep

LEMMA FailStep ==
    ASSUME IInv, NEW r \in Req, Fail(r)
    PROVE  IInv'
<1>1. Idle \in Held /\ Idle.at = "idle"
  BY DEF Held, Idle
<1>2. HeldOK(Idle)
  BY <1>1 DEF HeldOK
<1>3. req' = [req EXCEPT ![r] = Idle] /\ UNCHANGED <<incident, team, facts, report>>
  BY DEF Fail
<1>4. /\ lock' \in Req \cup {None}
      /\ \A s \in Req : lock' = s <=> req'[s].at = "close"
  BY <1>1, <1>3, BoundsAssumption DEF Fail, IInv, TypeOK
<1> QED
  BY <1>1, <1>2, <1>3, <1>4, HoldStep

LEMMA CloseBeginStep ==
    ASSUME IInv, NEW r \in Req, CloseBegin(r)
    PROVE  IInv'
<1> DEFINE h == [at |-> "close", doc |-> Compiled(Dismissed)]
<1>1. TypeOK /\ team \in Seq(Row)
  BY DEF IInv, TypeOK
<1>2. Dismissed \in Seq(Row) /\ OpenRows(Dismissed) = {}
  BY <1>1, EndedRows DEF Dismissed
<1>3. Compiled(Dismissed) \in Doc /\ OneStory(Compiled(Dismissed))
  BY <1>1, <1>2, CompiledDoc
<1>4. h \in Held /\ h.at = "close" /\ h.doc = Compiled(Dismissed)
  BY <1>3 DEF Held
<1>5. /\ req' = [req EXCEPT ![r] = h]
      /\ lock = None /\ lock' = r /\ incident.status # "closed" /\ ~incident.deleted
      /\ UNCHANGED <<incident, team, facts, report>>
  BY DEF CloseBegin, Locked, Found
<1> HIDE DEF h
<1>6. HeldOK(h)
  BY <1>3, <1>4, <1>5 DEF HeldOK
<1>7. /\ lock' \in Req \cup {None}
      /\ \A s \in Req : lock' = s <=> req'[s].at = "close"
  BY <1>1, <1>4, <1>5, BoundsAssumption DEF TypeOK
<1> QED
  BY <1>4, <1>5, <1>6, <1>7, HoldStep

\* A step that writes the incident or its team and nothing else, and neither
\* opens nor closes the incident.
LEMMA IncidentStep ==
    ASSUME IInv, Locked, UNCHANGED <<report, lock, req>>, facts' \in 0..MaxFacts,
           incident' \in [source : {"web", "mobile_sync"}, deleted : BOOLEAN,
                          status : {"dispatched", "active", "closed"}],
           incident'.source = incident.source,
           incident'.status = "closed" <=> incident.status = "closed",
           team' \in Seq(Row), Len(team') <= MaxRows,
           ClosedHasNoTeam', OneOpenAssignment'
    PROVE  IInv'
<1>1. TypeOK'
  BY DEF IInv, TypeOK
<1>2. ReportMatchesLife'
  BY DEF IInv, ReportMatchesLife, OneStory
<1>3. ASSUME NEW s \in Req  PROVE HeldOK(req[s])'
  <2>1. req[s].at # "close"
    BY BoundsAssumption DEF Locked, IInv, TypeOK
  <2>2. HeldOK(req[s])
    BY DEF IInv
  <2> QED
    BY <2>1, <2>2 DEF HeldOK, OneStory
<1> QED
  BY <1>1, <1>2, <1>3 DEF IInv

LEMMA ActivateStep == IInv /\ Activate => IInv'
<1> SUFFICES ASSUME IInv, Activate  PROVE IInv'
  OBVIOUS
<1>1. incident \in [source : {"web", "mobile_sync"}, deleted : BOOLEAN,
                    status : {"dispatched", "active", "closed"}]
  BY DEF IInv, TypeOK
<1>2. incident.status # "closed"
  BY DEF Activate, Activatable
<1>3. incident' = [incident EXCEPT !.status = "active"]
  BY DEF Activate
<1>4. /\ incident' \in [source : {"web", "mobile_sync"}, deleted : BOOLEAN,
                        status : {"dispatched", "active", "closed"}]
      /\ incident'.source = incident.source /\ incident'.status = "active"
  BY <1>1, <1>3
<1>5. ClosedHasNoTeam' /\ OneOpenAssignment'
  BY <1>4 DEF IInv, Activate, ClosedHasNoTeam, OneOpenAssignment, OpenRows
<1> QED
  BY <1>2, <1>4, <1>5, IncidentStep DEF Activate, IInv, TypeOK

LEMMA DeleteStep == IInv /\ Delete => IInv'
<1> SUFFICES ASSUME IInv, Delete  PROVE IInv'
  OBVIOUS
<1>1. incident \in [source : {"web", "mobile_sync"}, deleted : BOOLEAN,
                    status : {"dispatched", "active", "closed"}]
  BY DEF IInv, TypeOK
<1>2. incident' = [incident EXCEPT !.deleted = TRUE]
  BY DEF Delete
<1>3. /\ incident' \in [source : {"web", "mobile_sync"}, deleted : BOOLEAN,
                        status : {"dispatched", "active", "closed"}]
      /\ incident'.source = incident.source /\ incident'.status = incident.status
  BY <1>1, <1>2
<1>4. ClosedHasNoTeam' /\ OneOpenAssignment'
  BY <1>3 DEF IInv, Delete, ClosedHasNoTeam, OneOpenAssignment, OpenRows
<1> QED
  BY <1>3, <1>4, IncidentStep DEF Delete, IInv, TypeOK

\* A reassignment ends the user's open row before it adds the new one.
LEMMA AssignStep == \A u \in User : IInv /\ Assign(u) => IInv'
<1> SUFFICES ASSUME NEW u \in User, IInv, Assign(u)  PROVE IInv'
  OBVIOUS
<1> DEFINE old == Ended(team, Superseded(u), "moved")
           new == [user |-> u, end |-> "open"]
<1>1. team \in Seq(Row) /\ incident.status # "closed" /\ Len(team) < MaxRows
  BY DEF IInv, TypeOK, Assign, Assignable
<1>2. /\ old \in Seq(Row) /\ Len(old) = Len(team)
      /\ OpenRows(old) = OpenRows(team) \ Superseded(u)
      /\ \A i \in DOMAIN team : old[i].user = team[i].user
  BY <1>1, EndedRows
<1>3. new \in Row /\ new.user = u
  BY DEF Row
<1>4. team' = Append(old, new)
  BY DEF Assign
<1>5. \A i \in OpenRows(old) : i \in DOMAIN team /\ old[i].user # u
  BY <1>2 DEF OpenRows, Superseded
<1> HIDE DEF old, new
<1>6. /\ team' \in Seq(Row) /\ Len(team') = Len(team) + 1
      /\ \A i \in 1..Len(team) : team'[i] = old[i]
      /\ team'[Len(team) + 1] = new
  BY <1>1, <1>2, <1>3, <1>4
<1>7. \A i \in OpenRows(team') : i \in OpenRows(old) \/ i = Len(team) + 1
  BY <1>1, <1>2, <1>6 DEF OpenRows
<1>8. ASSUME NEW i \in OpenRows(old), NEW j \in OpenRows(old), old[i].user = old[j].user
      PROVE  i = j
  <2>1. i \in OpenRows(team) /\ j \in OpenRows(team) /\ team[i].user = team[j].user
    BY <1>2, <1>5, <1>8
  <2> QED
    BY <2>1 DEF IInv, OneOpenAssignment
<1>9. \A i \in OpenRows(old) : team'[i] = old[i]
  BY <1>1, <1>2, <1>6 DEF OpenRows
<1>10. OneOpenAssignment'
  BY <1>3, <1>5, <1>6, <1>7, <1>8, <1>9 DEF OneOpenAssignment
<1>11. ClosedHasNoTeam'
  BY <1>1 DEF Assign, ClosedHasNoTeam
<1>12. Len(team') <= MaxRows
  BY <1>1, <1>6, BoundsAssumption
<1> QED
  BY <1>6, <1>10, <1>11, <1>12, IncidentStep DEF Assign, IInv, TypeOK

LEMMA RecordFactsStep == IInv /\ RecordFacts => IInv'
<1> SUFFICES ASSUME IInv, RecordFacts  PROVE IInv'
  OBVIOUS
<1>1. TypeOK'
  BY BoundsAssumption DEF IInv, TypeOK, RecordFacts
<1>2. ClosedHasNoTeam' /\ OneOpenAssignment' /\ ReportMatchesLife'
  BY DEF IInv, RecordFacts, ClosedHasNoTeam, OneOpenAssignment, OpenRows,
         ReportMatchesLife, OneStory
<1>3. ASSUME NEW s \in Req  PROVE HeldOK(req[s])'
  BY DEF IInv, RecordFacts, HeldOK, OneStory
<1> QED
  BY <1>1, <1>2, <1>3 DEF IInv

\* Ending an assignment that was read before the lock only takes rows away from
\* the open ones, even when the row has been ended meanwhile.
LEMMA UnassignCommitStep ==
    ASSUME IInv, NEW r \in Req, UnassignCommit(r)
    PROVE  IInv'
<1>1. TypeOK /\ team \in Seq(Row) /\ req[r].at = "unassign" /\ req \in [Req -> Held]
  BY DEF IInv, TypeOK, UnassignCommit
<1>2. /\ team' \in Seq(Row) /\ Len(team') = Len(team)
      /\ OpenRows(team') \subseteq OpenRows(team)
      /\ \A i \in DOMAIN team : team'[i].user = team[i].user
  BY <1>1, EndedRows DEF UnassignCommit
<1>3. /\ req' = [req EXCEPT ![r] = Idle]
      /\ UNCHANGED <<incident, facts, report, lock>>
  BY DEF UnassignCommit
<1>4. Idle \in Held /\ Idle.at = "idle"
  BY DEF Held, Idle
<1>5. /\ lock' \in Req \cup {None}
      /\ \A s \in Req : lock' = s <=> req'[s].at = "close"
  BY <1>1, <1>3, <1>4, LockKept
<1>6. TypeOK'
  BY <1>1, <1>2, <1>3, <1>4, <1>5 DEF TypeOK
<1>7. \A i \in OpenRows(team) : i \in DOMAIN team
  BY DEF OpenRows
<1>8. ClosedHasNoTeam' /\ OneOpenAssignment'
  BY <1>2, <1>3, <1>7 DEF IInv, ClosedHasNoTeam, OneOpenAssignment
<1>9. ReportMatchesLife'
  BY <1>3 DEF IInv, ReportMatchesLife, OneStory
<1>10. ASSUME NEW s \in Req  PROVE HeldOK(req[s])'
  <2>1. HeldOK(req'[s])
    BY <1>1, <1>3, <1>4 DEF IInv, HeldOK
  <2> QED
    BY <1>3, <2>1 DEF HeldOK, OneStory
<1> QED
  BY <1>6, <1>8, <1>9, <1>10 DEF IInv

\* A step that writes the report of a closed incident and nothing of the
\* incident or the team.  What the others hold stays right: it does not
\* depend on which report there is.
LEMMA ReportStep ==
    ASSUME IInv, NEW r \in Req, NEW h \in Held, h.at # "close", req[r].at # "close",
           req' = [req EXCEPT ![r] = h],
           UNCHANGED <<incident, team, facts, lock>>,
           incident.status = "closed",
           report' \in ReportRow, OneStory(report'.doc),
           h.at \in {"idle", "scheduled"}
             \/ (h.at = "render" /\ OneStory(h.doc))
    PROVE  IInv'
<1>1. report' # None
  BY NoneAssumption
<1>2. /\ lock' \in Req \cup {None}
      /\ \A s \in Req : lock' = s <=> req'[s].at = "close"
  BY LockKept DEF IInv
<1>3. TypeOK'
  BY <1>2 DEF IInv, TypeOK
<1>4. ClosedHasNoTeam' /\ OneOpenAssignment'
  BY DEF IInv, ClosedHasNoTeam, OneOpenAssignment, OpenRows
<1>5. ReportMatchesLife'
  BY <1>1 DEF ReportMatchesLife, OneStory
<1>6. ASSUME NEW s \in Req  PROVE HeldOK(req[s])'
  <2>1. CASE s = r
    <3>1. req'[s] = h
      BY <2>1 DEF IInv, TypeOK
    <3> QED
      BY <1>1, <3>1 DEF HeldOK, OneStory
  <2>2. CASE s # r
    <3>1. req'[s] = req[s] /\ HeldOK(req[s])
      BY <2>2 DEF IInv, TypeOK
    <3> QED
      BY <1>1, <3>1 DEF HeldOK, OneStory
  <2> QED
    BY <2>1, <2>2
<1> QED
  BY <1>3, <1>4, <1>5, <1>6 DEF IInv

LEMMA PdfCommitStep ==
    ASSUME IInv, NEW r \in Req, PdfCommit(r)
    PROVE  IInv'
<1>1. req[r] \in Held /\ req[r].at = "render" /\ HeldOK(req[r])
  BY DEF IInv, TypeOK, PdfCommit
<1>2. report # None /\ OneStory(req[r].doc)
  BY <1>1 DEF HeldOK
<1>3. report \in ReportRow /\ incident.status = "closed"
  BY <1>2 DEF IInv, TypeOK, ReportMatchesLife
<1> DEFINE doc == WithPdf(req[r].doc, req[r].lang, req[r].gen)
<1>4. doc \in Doc /\ OneStory(doc)
  BY <1>1, <1>2, HeldParts, WithPdfDoc
<1> HIDE DEF doc
<1>5. report' = [report EXCEPT !.doc = doc]
  BY DEF PdfCommit, doc
<1>6. report' \in ReportRow /\ report'.doc = doc
  BY <1>3, <1>4, <1>5 DEF ReportRow
<1>7. Idle \in Held /\ Idle.at = "idle"
  BY DEF Held, Idle
<1> QED
  BY <1>1, <1>3, <1>4, <1>6, <1>7, ReportStep DEF PdfCommit

LEMMA EnrichCommitStep ==
    ASSUME IInv, NEW r \in Req, EnrichCommit(r)
    PROVE  IInv'
<1>1. req[r] \in Held /\ req[r].at = "draft" /\ HeldOK(req[r])
  BY DEF IInv, TypeOK, EnrichCommit
<1>2. report # None /\ OneStory(req[r].doc)
  BY <1>1 DEF HeldOK
<1>3. report \in ReportRow /\ incident.status = "closed"
  BY <1>2 DEF IInv, TypeOK, ReportMatchesLife
<1> DEFINE doc == Enriched(req[r].doc)
<1>4. doc \in Doc /\ OneStory(doc)
  BY <1>1, <1>2, HeldParts, EnrichedDoc
<1> HIDE DEF doc
<1>5. report' = [report EXCEPT !.doc = doc]
  BY DEF EnrichCommit, doc
<1>6. report' \in ReportRow /\ report'.doc = doc
  BY <1>3, <1>4, <1>5 DEF ReportRow
<1>7. Idle \in Held /\ Idle.at = "idle"
  BY DEF Held, Idle
<1> QED
  BY <1>1, <1>3, <1>4, <1>6, <1>7, ReportStep DEF EnrichCommit

LEMMA CompileCommitStep ==
    ASSUME IInv, NEW r \in Req, CompileCommit(r)
    PROVE  IInv'
<1> DEFINE new == Stored(req[r].doc)
           p == req[r].purpose
           render == [at |-> "render", lang |-> p, doc |-> new.doc, gen |-> new.gen]
<1>1. req[r] \in Held /\ req[r].at = "compile" /\ HeldOK(req[r])
  BY DEF IInv, TypeOK, CompileCommit
<1>2. incident.status = "closed" /\ OneStory(req[r].doc)
  BY <1>1 DEF HeldOK
<1>3. req[r].doc \in Doc /\ p \in Purpose
  BY <1>1, HeldParts
<1>4. new.doc = req[r].doc /\ new.gen \in 1..MaxGen /\ new \in ReportRow
  <2>1. new.doc = req[r].doc /\ new.gen = IF report = None THEN 1 ELSE report.gen + 1
    BY DEF Stored
  <2>2. report # None => report.gen \in 1..MaxGen
    BY DEF IInv, TypeOK, ReportRow
  <2>3. new.gen <= MaxGen
    BY DEF CompileCommit
  <2>4. new.gen \in 1..MaxGen
    BY <2>1, <2>2, <2>3, BoundsAssumption
  <2> QED
    BY <1>3, <2>1, <2>4 DEF Stored, ReportRow
<1>5. report' = new /\ UNCHANGED <<incident, team, facts, lock>>
  BY DEF CompileCommit
<1>6. PICK h \in {Idle, [at |-> "scheduled"], render} :
        /\ req' = [req EXCEPT ![r] = h]
        /\ h = render => p \in Lang
  <2>1. CASE p = "open"
    <3>1. req' = [req EXCEPT ![r] = Idle] /\ Idle # render
      BY <2>1 DEF CompileCommit, Idle
    <3> QED
      BY <3>1
  <2>2. CASE p = "regenerate"
    <3>1. req' = [req EXCEPT ![r] = [at |-> "scheduled"]] /\ [at |-> "scheduled"] # render
      BY <2>2 DEF CompileCommit
    <3> QED
      BY <3>1
  <2>3. CASE p \in Lang
    <3>1. req' = [req EXCEPT ![r] = render]
      BY <2>3, BoundsAssumption DEF CompileCommit
    <3> QED
      BY <2>3, <3>1
  <2> QED
    BY <1>3, <2>1, <2>2, <2>3 DEF Purpose
<1>7. h \in Held /\ (h.at \in {"idle", "scheduled"} \/ (h.at = "render" /\ OneStory(h.doc)))
  <2>1. CASE h \in {Idle, [at |-> "scheduled"]}
    BY <2>1 DEF Held, Idle
  <2>2. CASE h = render
    BY <1>2, <1>3, <1>4, <1>6, <2>2 DEF Held
  <2> QED
    BY <2>1, <2>2
<1> HIDE DEF new, p, render
<1> QED
  BY <1>1, <1>2, <1>4, <1>5, <1>6, <1>7, ReportStep

\* Close commits the team it dismissed, the report it compiled and the status
\* together.  No other request held a document of a closed incident before.
LEMMA CloseCommitStep ==
    ASSUME IInv, NEW r \in Req, CloseCommit(r)
    PROVE  IInv'
<1> DEFINE new == Stored(req[r].doc)
           h == [at |-> "scheduled"]
<1>1. /\ TypeOK /\ team \in Seq(Row) /\ req \in [Req -> Held]
      /\ req[r] \in Held /\ req[r].at = "close" /\ HeldOK(req[r])
  BY DEF IInv, TypeOK, CloseCommit
<1>2. incident.status # "closed" /\ report = None /\ OneStory(req[r].doc)
  BY <1>1 DEF HeldOK, IInv, ReportMatchesLife
<1>3. req[r].doc \in Doc
  BY <1>1, HeldParts
<1>4. new \in ReportRow /\ new.doc = req[r].doc
  BY <1>2, <1>3, BoundsAssumption DEF Stored, ReportRow
<1>5. h \in Held /\ h.at = "scheduled"
  BY DEF Held
<1>6. /\ report' = new /\ req' = [req EXCEPT ![r] = h] /\ lock' = None
      /\ incident' = [incident EXCEPT !.status = "closed"] /\ team' = Dismissed
      /\ facts' = facts
  BY DEF CloseCommit
<1> HIDE DEF new, h
<1>7. report' # None
  BY <1>4, <1>6, NoneAssumption
<1>8. /\ team' \in Seq(Row) /\ Len(team') = Len(team) /\ OpenRows(team') = {}
  BY <1>1, <1>6, EndedRows DEF Dismissed
<1>9. /\ incident' \in [source : {"web", "mobile_sync"}, deleted : BOOLEAN,
                        status : {"dispatched", "active", "closed"}]
      /\ incident'.status = "closed"
  BY <1>1, <1>6 DEF TypeOK
<1>10. \A s \in Req : s # r => req'[s] = req[s] /\ req[s].at # "close"
  BY <1>1, <1>6 DEF TypeOK
<1>11. req'[r] = h
  BY <1>1, <1>6
<1>12. \A s \in Req : lock' = s <=> req'[s].at = "close"
  BY <1>5, <1>6, <1>10, <1>11, BoundsAssumption
<1>13. TypeOK'
  BY <1>1, <1>4, <1>5, <1>6, <1>8, <1>9, <1>12 DEF TypeOK
<1>14. ClosedHasNoTeam' /\ OneOpenAssignment'
  BY <1>8 DEF ClosedHasNoTeam, OneOpenAssignment
<1>15. ReportMatchesLife'
  BY <1>2, <1>4, <1>6, <1>7, <1>9 DEF ReportMatchesLife, OneStory
<1>16. ASSUME NEW s \in Req  PROVE HeldOK(req[s])'
  <2>1. CASE s = r
    BY <1>5, <1>7, <1>11, <2>1 DEF HeldOK
  <2>2. CASE s # r
    <3>1. req'[s] = req[s] /\ req[s].at # "close" /\ HeldOK(req[s])
      BY <1>10, <2>2 DEF IInv
    <3> QED
      BY <1>2, <1>7, <3>1, <1>9 DEF HeldOK, OneStory
  <2> QED
    BY <2>1, <2>2
<1> QED
  BY <1>13, <1>14, <1>15, <1>16 DEF IInv

LEMMA InitStep == Init => IInv
<1> SUFFICES ASSUME Init  PROVE IInv
  OBVIOUS
<1>1. Idle \in Held /\ Idle.at = "idle"
  BY DEF Held, Idle
<1>2. /\ team \in Seq(Row) /\ Len(team) <= 1
      /\ incident.status = "closed" => team = <<>>
      /\ incident \in [source : {"web", "mobile_sync"}, deleted : BOOLEAN,
                       status : {"dispatched", "active", "closed"}]
  <2>1. CASE /\ incident = [source |-> "web", status |-> "dispatched", deleted |-> FALSE]
             /\ \E u \in User : team \in {<<>>, <<[user |-> u, end |-> "open"]>>}
    <3>1. \A u \in User : [user |-> u, end |-> "open"] \in Row
      BY DEF Row
    <3>2. CASE team = <<>>
      BY <2>1, <3>2
    <3>3. CASE \E u \in User : team = <<[user |-> u, end |-> "open"]>>
      <4>1. PICK row \in Row : team = <<row>>
        BY <3>1, <3>3
      <4>2. team \in Seq(Row) /\ Len(team) <= 1
        BY <4>1
      <4> QED
        BY <2>1, <4>2
    <3> QED
      BY <2>1, <3>2, <3>3
  <2>2. CASE /\ \E s \in {"active", "closed"} :
                   incident = [source |-> "mobile_sync", status |-> s, deleted |-> FALSE]
             /\ team = <<>>
    BY <2>2
  <2> QED
    BY <2>1, <2>2 DEF Init
<1>3. incident.source = "web" /\ incident.status = "closed" => FALSE
  BY DEF Init
<1>4. /\ facts \in 0..MaxFacts /\ report = None /\ lock = None
      /\ req \in [Req -> Held] /\ \A s \in Req : req[s] = Idle
  BY <1>1, BoundsAssumption DEF Init
<1>5. TypeOK
  BY <1>1, <1>2, <1>4, BoundsAssumption DEF TypeOK
<1>6. ClosedHasNoTeam
  BY <1>2 DEF ClosedHasNoTeam, OpenRows
<1>7. OneOpenAssignment
  BY <1>2 DEF OneOpenAssignment, OpenRows
<1>8. ReportMatchesLife
  BY <1>3, <1>4 DEF ReportMatchesLife
<1>9. \A s \in Req : HeldOK(req[s])
  BY <1>1, <1>4 DEF HeldOK
<1> QED
  BY <1>5, <1>6, <1>7, <1>8, <1>9 DEF IInv

LEMMA NextStep == IInv /\ [Next]_vars => IInv'
<1> SUFFICES ASSUME IInv, [Next]_vars  PROVE IInv'
  OBVIOUS
<1>1. CASE RecordFacts
  BY <1>1, RecordFactsStep
<1>2. CASE Activate
  BY <1>2, ActivateStep
<1>3. CASE Delete
  BY <1>3, DeleteStep
<1>4. CASE \E u \in User : Assign(u)
  BY <1>4, AssignStep
<1>5. ASSUME NEW r \in Req, \E i \in 1..MaxRows : UnassignRead(r, i)  PROVE IInv'
  BY <1>5, UnassignReadStep
<1>6. ASSUME NEW r \in Req, \E p \in Purpose : CompileRead(r, p)  PROVE IInv'
  BY <1>6, CompileReadStep
<1>7. ASSUME NEW r \in Req, \E l \in Lang : PdfRead(r, l)  PROVE IInv'
  BY <1>7, PdfReadStep
<1>8. ASSUME NEW r \in Req, UnassignCommit(r)  PROVE IInv'
  BY <1>8, UnassignCommitStep
<1>9. ASSUME NEW r \in Req, CloseBegin(r)  PROVE IInv'
  BY <1>9, CloseBeginStep
<1>10. ASSUME NEW r \in Req, CloseCommit(r)  PROVE IInv'
  BY <1>10, CloseCommitStep
<1>11. ASSUME NEW r \in Req, CompileCommit(r)  PROVE IInv'
  BY <1>11, CompileCommitStep
<1>12. ASSUME NEW r \in Req, PdfCommit(r)  PROVE IInv'
  BY <1>12, PdfCommitStep
<1>13. ASSUME NEW r \in Req, EnrichRead(r)  PROVE IInv'
  BY <1>13, EnrichReadStep
<1>14. ASSUME NEW r \in Req, EnrichCommit(r)  PROVE IInv'
  BY <1>14, EnrichCommitStep
<1>15. ASSUME NEW r \in Req, Fail(r)  PROVE IInv'
  BY <1>15, FailStep
<1>16. CASE UNCHANGED vars
  BY <1>16 DEF vars, IInv, TypeOK, ClosedHasNoTeam, OneOpenAssignment, OpenRows,
               ReportMatchesLife, HeldOK, OneStory
<1> QED
  BY <1>1, <1>2, <1>3, <1>4, <1>5, <1>6, <1>7, <1>8, <1>9, <1>10, <1>11, <1>12,
     <1>13, <1>14, <1>15, <1>16 DEF Next

-----------------------------------------------------------------------------
(* Theorems.                                                               *)

(* The inductive invariant holds of every execution, however requests,     *)
(* background tasks and their failures interleave.                         *)
THEOREM Invariant == Spec => []IInv
<1>1. Init => IInv
  BY InitStep
<1>2. IInv /\ [Next]_vars => IInv'
  BY NextStep
<1> QED
  BY <1>1, <1>2, PTL DEF Spec

(* The rows keep their types, and the row of the incident is locked        *)
(* exactly while `close` is between its two steps.                         *)
THEOREM TypeCorrect == Spec => []TypeOK
<1>1. IInv => TypeOK
  BY DEF IInv
<1> QED
  BY <1>1, Invariant, PTL

(* A closed incident has no open assignment: dispatching and closing decide *)
(* under the incident's row lock (`assign`, `close`).                       *)
THEOREM TeamDismissed == Spec => []ClosedHasNoTeam
<1>1. IInv => ClosedHasNoTeam
  BY DEF IInv
<1> QED
  BY <1>1, Invariant, PTL

(* A responder has at most one open assignment in an incident, whatever an *)
(* `unassign` that is under way has read of the row it ends.               *)
THEOREM OneAssignment == Spec => []OneOpenAssignment
<1>1. IInv => OneOpenAssignment
  BY DEF IInv
<1> QED
  BY <1>1, Invariant, PTL

(* A web incident that is closed has a report, and no report says that a   *)
(* responder is still out (`close_incident`, `compile_and_store`).         *)
THEOREM EndShown == Spec => []ReportShowsTheEnd
<1>1. IInv => ReportShowsTheEnd
  BY DEF IInv, ReportMatchesLife, OneStory, ReportShowsTheEnd
<1> QED
  BY <1>1, Invariant, PTL

(* The narrative tells the figures it stands beside, whichever unlocked    *)
(* writer wrote the document last (`enrich_report`, `report_pdf`).         *)
THEOREM NarrativeFits == Spec => []NarrativeTellsItsFacts
<1>1. IInv => NarrativeTellsItsFacts
  BY DEF IInv, ReportMatchesLife, OneStory, NarrativeTellsItsFacts
<1> QED
  BY <1>1, Invariant, PTL

(* Every cached PDF prints the figures and the narrative that its document *)
(* shows on screen, also when it was rendered from an older reading.       *)
THEOREM PdfFits == Spec => []PdfTellsTheReport
<1>1. IInv => PdfTellsTheReport
  BY DEF IInv, ReportMatchesLife, OneStory, PdfTellsTheReport
<1> QED
  BY <1>1, Invariant, PTL

(* An incident neither reopens nor changes once it is deleted: every step  *)
(* that writes it does so under its row lock, after a reading under it.    *)
THEOREM OnlyForward == Spec => LifeOnlyForward
<1> DEFINE A == /\ incident.status = "closed" => incident'.status = "closed"
                /\ incident.status = "active" => incident'.status # "dispatched"
                /\ incident.deleted => incident' = incident /\ team' = team
<1>1. ASSUME IInv, Next  PROVE A
  <2>1. incident \in [source : {"web", "mobile_sync"}, deleted : BOOLEAN,
                      status : {"dispatched", "active", "closed"}]
    BY <1>1 DEF IInv, TypeOK
  <2>2. ASSUME Activate  PROVE A
    BY <2>1, <2>2 DEF Activate, Activatable, Locked, Found
  <2>3. ASSUME Delete  PROVE A
    BY <2>1, <2>3 DEF Delete, Locked, Found
  <2>4. ASSUME NEW u \in User, Assign(u)  PROVE A
    BY <2>1, <2>4 DEF Assign, Locked, Found
  <2>5. ASSUME NEW r \in Req, UnassignCommit(r)  PROVE A
    BY <2>1, <2>5 DEF UnassignCommit, Locked, Found
  <2>6. ASSUME NEW r \in Req, CloseCommit(r)  PROVE A
    <3>1. HeldOK(req[r]) /\ req[r].at = "close"
      BY <1>1, <2>6 DEF IInv, CloseCommit
    <3> QED
      BY <2>1, <2>6, <3>1 DEF CloseCommit, HeldOK
  <2>7. ASSUME UNCHANGED <<incident, team>>  PROVE A
    BY <2>1, <2>7
  <2> QED
    BY <1>1, <2>2, <2>3, <2>4, <2>5, <2>6, <2>7
    DEF Next, RecordFacts, UnassignRead, CompileRead, PdfRead, CloseBegin,
        CompileCommit, PdfCommit, EnrichRead, EnrichCommit, Fail
<1>2. IInv /\ [Next]_vars => [A]_vars
  BY <1>1
<1> QED
  BY <1>2, Invariant, PTL DEF Spec, LifeOnlyForward

=============================================================================
