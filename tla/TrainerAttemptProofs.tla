------------------------ MODULE TrainerAttemptProofs ------------------------
(***************************************************************************)
(* TrainerAttempt implements AttemptBook, for any scenario, labels,        *)
(* attempts, edits and requests.                                           *)
(*                                                                         *)
(* What the pages do matters to the book only by what it does to the       *)
(* attempts: AttemptStep names the four ways in which a step may change    *)
(* them, and each is a step of the book or leaves it as it is.             *)
(***************************************************************************)
EXTENDS TrainerAttempt, SequenceTheorems, TLAPS

\* The attempts are a sequence of records with these columns, whatever they
\* hold.
Row(V)    == [status : V, shown : V, graded : V, feedback : V]
IsBook(s) == \E V : s \in Seq(Row(V))

\* What the book shows of the attempts: the refinement mapping.
Entry(r)   == IF r.status = "open" THEN {} ELSE {r.graded}
Entries(s) == [a \in DOMAIN s |-> Entry(s[a])]

\* What is written of an attempt, and where.
Put(s, a, r)         == [s EXCEPT ![a] = r]
AsGraded(r, f, g)    == [r EXCEPT !.status = "graded", !.feedback = f, !.graded = g]
AsListed(r, x)       == [r EXCEPT !.shown = x]
AsCommented(r, x)    == [r EXCEPT !.feedback = x]

Started ==
  \E x, y, z : attempts' = Append(attempts, [status |-> "open", shown |-> x, graded |-> y, feedback |-> z])

Graded ==
  \E a, f, g : /\ attempts[a].status = "open"
               /\ attempts' = Put(attempts, a, AsGraded(attempts[a], f, g))

Listed    == \E a, x : attempts' = Put(attempts, a, AsListed(attempts[a], x))
Commented == \E a, x : attempts' = Put(attempts, a, AsCommented(attempts[a], x))

AttemptStep == Started \/ Graded \/ Listed \/ Commented

-----------------------------------------------------------------------------
LEMMA Wider == ASSUME NEW V, NEW W, V \subseteq W, NEW s \in Seq(Row(V)) PROVE s \in Seq(Row(W))
<1>1. Row(V) \subseteq Row(W)
  BY DEF Row
<1> QED
  BY <1>1

\* A new attempt is a new, empty entry.
LEMMA AppendEntry ==
  ASSUME NEW V, NEW s \in Seq(Row(V)), NEW r \in Row(V), r.status = "open"
  PROVE  /\ Append(s, r) \in Seq(Row(V))
         /\ Entries(Append(s, r)) = Append(Entries(s), {})
<1> DEFINE T == Row(V)
           t == Append(s, r)
<1> HIDE DEF T
<1>1. s \in Seq(T) /\ r \in T
  BY DEF T
<1>2. t \in Seq(T) /\ Len(t) = Len(s) + 1
  BY <1>1
<1>3. DOMAIN Entries(s) = 1..Len(s) /\ DOMAIN Entries(t) = 1..(Len(s) + 1)
  BY <1>1, <1>2 DEF Entries
<1> DEFINE b == Entries(s)
           E == {Entry(x) : x \in T} \cup {{}}
<1>4. b \in Seq(E) /\ Len(b) = Len(s)
  BY <1>1, <1>3 DEF Entries
<1>5. {} \in E
  OBVIOUS
<1> HIDE DEF b, E
<1>6. /\ Append(b, {}) \in Seq(E) /\ Len(Append(b, {})) = Len(s) + 1
      /\ \A a \in 1..Len(s) : Append(b, {})[a] = b[a]
      /\ Append(b, {})[Len(s) + 1] = {}
  BY <1>4, <1>5, AppendProperties
<1>7. /\ \A a \in 1..Len(s) : Entries(t)[a] = b[a]
      /\ Entries(t)[Len(s) + 1] = {}
  BY <1>1, <1>2, <1>3 DEF b, Entries, Entry
<1>8. Entries(t) \in Seq(E) /\ Len(Entries(t)) = Len(s) + 1
  BY <1>2, <1>3 DEF Entries, E
<1> HIDE DEF t
<1>9. \A a \in 1..(Len(s) + 1) : Entries(t)[a] = Append(b, {})[a]
  <2>1. Len(s) \in Nat
    BY <1>1
  <2>2. \A a \in 1..(Len(s) + 1) : a \in 1..Len(s) \/ a = Len(s) + 1
    BY <2>1
  <2> QED
    BY <1>6, <1>7, <2>2
<1>10. Entries(t) = Append(b, {})
  BY <1>6, <1>8, <1>9, SeqEqual
<1> QED
  BY <1>2, <1>10 DEF b, t, T

\* An attempt that is written changes its own entry only.
LEMMA UpdateEntry ==
  ASSUME NEW V, NEW s \in Seq(Row(V)), NEW a \in DOMAIN s, NEW r \in Row(V)
  PROVE  /\ Put(s, a, r) \in Seq(Row(V))
         /\ Entries(Put(s, a, r)) = Put(Entries(s), a, Entry(r))
<1> DEFINE T == Row(V)
<1> HIDE DEF T
<1>1. s \in Seq(T) /\ r \in T
  BY DEF T
<1>2. Put(s, a, r) \in Seq(T)
  BY <1>1 DEF Put
<1>3. Entries(Put(s, a, r)) = Put(Entries(s), a, Entry(r))
  BY DEF Entries, Put
<1> QED
  BY <1>2, <1>3 DEF T

\* What a step writes to an attempt makes a row of it.
LEMMA NewVersion ==
  ASSUME NEW V, NEW q \in Row(V), NEW f, NEW g
  PROVE  /\ AsGraded(q, f, g) \in Row(V \cup {"graded", f, g})
         /\ Entry(AsGraded(q, f, g)) = {g}
         /\ AsListed(q, f) \in Row(V \cup {"graded", f, g})
         /\ Entry(AsListed(q, f)) = Entry(q)
         /\ AsCommented(q, f) \in Row(V \cup {"graded", f, g})
         /\ Entry(AsCommented(q, f)) = Entry(q)
BY DEF Row, Entry, AsGraded, AsListed, AsCommented

\* Writing to an attempt that is not there writes nothing.
LEMMA NoRow ==
  ASSUME NEW V, NEW s \in Seq(Row(V)), NEW a, a \notin DOMAIN s, NEW r
  PROVE  Put(s, a, r) = s
BY DEF Put

-----------------------------------------------------------------------------
\* The book of the refinement is Entries of the attempts.
LEMMA BookIsEntries ==
  /\ [a \in DOMAIN attempts |-> IF attempts[a].status = "open" THEN {} ELSE {attempts[a].graded}]
       = Entries(attempts)
  /\ [a \in DOMAIN attempts |-> IF attempts[a].status = "open" THEN {} ELSE {attempts[a].graded}]'
       = Entries(attempts')
BY DEF Entries, Entry

LEMMA StartedBook == ASSUME IsBook(attempts), Started PROVE IsBook(attempts') /\ Book!Start
<1>1. PICK V : attempts \in Seq(Row(V))
  BY DEF IsBook
<1>2. PICK x, y, z : attempts' = Append(attempts,
                                   [status |-> "open", shown |-> x, graded |-> y, feedback |-> z])
  BY DEF Started
<1> DEFINE W == V \cup {"open", x, y, z}
           r == [status |-> "open", shown |-> x, graded |-> y, feedback |-> z]
<1>3. r \in Row(W) /\ r.status = "open"
  BY DEF Row
<1> HIDE DEF W
<1>4. attempts \in Seq(Row(W))
  BY <1>1, Wider DEF W
<1> HIDE DEF r
<1>5. attempts' \in Seq(Row(W)) /\ Entries(attempts') = Append(Entries(attempts), {})
  BY <1>2, <1>3, <1>4, AppendEntry DEF r
<1> QED
  BY <1>5, BookIsEntries DEF IsBook, Book!Start

\* An attempt that is written is that of a book with one entry written, if
\* it is there.
LEMMA PutBook ==
  ASSUME NEW V, NEW s \in Seq(Row(V)), NEW a, NEW r, a \in DOMAIN s => r \in Row(V)
  PROVE  /\ IsBook(Put(s, a, r))
         /\ a \in DOMAIN s => Entries(Put(s, a, r)) = Put(Entries(s), a, Entry(r))
         /\ a \notin DOMAIN s => Put(s, a, r) = s
<1>1. CASE a \in DOMAIN s
  BY <1>1, UpdateEntry DEF IsBook
<1>2. CASE a \notin DOMAIN s
  BY <1>2, NoRow DEF IsBook
<1> QED
  BY <1>1, <1>2

LEMMA GradedBook ==
  ASSUME IsBook(attempts), Graded
  PROVE  /\ IsBook(attempts')
         /\ (\E a \in DOMAIN Entries(attempts) : Book!Submit(a)) \/ attempts' = attempts
<1>1. PICK V : attempts \in Seq(Row(V))
  BY DEF IsBook
<1>2. PICK a, f, g : /\ attempts[a].status = "open"
                     /\ attempts' = Put(attempts, a, AsGraded(attempts[a], f, g))
  BY DEF Graded
<1> DEFINE r == AsGraded(attempts[a], f, g)
           W == V \cup {"graded", f, g}
<1>3. a \in DOMAIN attempts => r \in Row(W) /\ Entry(r) = {g}
  <2>1. a \in DOMAIN attempts => attempts[a] \in Row(V)
    BY <1>1
  <2> QED
    BY <2>1, NewVersion
<1>4. attempts \in Seq(Row(W))
  BY <1>1, Wider
<1> HIDE DEF r, W
<1>5. /\ IsBook(attempts')
      /\ a \in DOMAIN attempts => Entries(attempts') = Put(Entries(attempts), a, Entry(r))
      /\ a \notin DOMAIN attempts => attempts' = attempts
  BY <1>2, <1>3, <1>4, PutBook DEF r
<1>6. ASSUME a \in DOMAIN attempts PROVE Book!Submit(a) /\ a \in DOMAIN Entries(attempts)
  <2>1. Entries(attempts)[a] = {} /\ a \in DOMAIN Entries(attempts)
    BY <1>2, <1>6 DEF Entry, Entries
  <2>2. Entries(attempts')[a] = {g} /\ Entries(attempts') = [Entries(attempts) EXCEPT ![a] = {g}]
    BY <1>3, <1>5, <1>6, <2>1 DEF Put
  <2> QED
    BY <2>1, <2>2, BookIsEntries DEF Book!Submit
<1> QED
  BY <1>5, <1>6

\* Listing the items and writing feedback leave the book as it is.
LEMMA OtherBook ==
  ASSUME IsBook(attempts), Listed \/ Commented
  PROVE  IsBook(attempts') /\ Entries(attempts') = Entries(attempts)
<1>1. PICK V : attempts \in Seq(Row(V))
  BY DEF IsBook
<1>2. PICK a, x : \/ attempts' = Put(attempts, a, AsListed(attempts[a], x))
                  \/ attempts' = Put(attempts, a, AsCommented(attempts[a], x))
  BY DEF Listed, Commented
<1> DEFINE W == V \cup {"graded", x, x}
<1>3. PICK r : /\ attempts' = Put(attempts, a, r)
               /\ a \in DOMAIN attempts => r \in Row(W) /\ Entry(r) = Entry(attempts[a])
  <2>1. a \in DOMAIN attempts => attempts[a] \in Row(V)
    BY <1>1
  <2> QED
    BY <1>2, <2>1, NewVersion
<1>4. attempts \in Seq(Row(W))
  BY <1>1, Wider
<1> HIDE DEF W
<1>5. /\ IsBook(attempts')
      /\ a \in DOMAIN attempts => Entries(attempts') = Put(Entries(attempts), a, Entry(r))
      /\ a \notin DOMAIN attempts => attempts' = attempts
  BY <1>3, <1>4, PutBook
<1>6. a \in DOMAIN attempts => Put(Entries(attempts), a, Entry(r)) = Entries(attempts)
  <2>1. a \in DOMAIN attempts => Entries(attempts)[a] = Entry(r)
    BY <1>3 DEF Entries
  <2> QED
    BY <2>1 DEF Entries, Put
<1> QED
  BY <1>5, <1>6

\* The attempts of the initial state are no attempts.
LEMMA EmptyBook == attempts = <<>> => IsBook(attempts) /\ Entries(attempts) = <<>>
<1> SUFFICES ASSUME attempts = <<>> PROVE IsBook(attempts) /\ Entries(attempts) = <<>>
  OBVIOUS
<1>1. attempts \in Seq(Row({}))
  OBVIOUS
<1>2. Entries(attempts) = <<>>
  BY DEF Entries
<1> QED
  BY <1>1, <1>2 DEF IsBook

\* Every step that is one of the four, or leaves the attempts alone, is a step
\* of the book or leaves it alone.
LEMMA StepBook ==
  ASSUME IsBook(attempts), AttemptStep \/ UNCHANGED attempts
  PROVE  /\ IsBook(attempts')
         /\ \/ Book!Start
            \/ \E a \in DOMAIN Entries(attempts) : Book!Submit(a)
            \/ Entries(attempts') = Entries(attempts)
<1>1. CASE Started
  BY <1>1, StartedBook
<1>2. CASE Graded
  BY <1>2, GradedBook
<1>3. CASE Listed \/ Commented
  BY <1>3, OtherBook
<1>4. CASE UNCHANGED attempts
  BY <1>4
<1> QED
  BY <1>1, <1>2, <1>3, <1>4 DEF AttemptStep
-----------------------------------------------------------------------------
\* What the trainer's steps do to the attempts.
LEMMA TrainerSteps ==
  [Mount \/ Unmount \/ Next]_vars => AttemptStep \/ UNCHANGED attempts
<1>1. \A c : ServeStart(c) => Started
  BY DEF ServeStart, Started
<1>2. \A c : ServeSubmit(c) => Graded
  <2> SUFFICES ASSUME NEW c, ServeSubmit(c) PROVE Graded
    OBVIOUS
  <2>1. PICK f : attempts' = [attempts EXCEPT ![c.id].status = "graded", ![c.id].feedback = f,
                                              ![c.id].graded = Grade(scenario, c.answers)]
    BY DEF ServeSubmit
  <2>2. attempts[c.id].status = "open"
    BY DEF ServeSubmit, Submittable
  <2>3. attempts' = Put(attempts, c.id, AsGraded(attempts[c.id], f, Grade(scenario, c.answers)))
    BY <2>1 DEF Put, AsGraded
  <2> QED
    BY <2>2, <2>3 DEF Graded
<1>3. \A c : StartAnswered(c) => Listed
  BY DEF StartAnswered, Listed, Put, AsListed
<1>4. \A a : WriteFeedback(a) => Commented
  BY DEF WriteFeedback, Commented, Put, AsCommented
<1>5. \A p : Goto(p) => UNCHANGED attempts
  BY DEF Goto
<1>6. \A c : SubmitAnswered(c) \/ Failed(c) => UNCHANGED attempts
  BY DEF SubmitAnswered, Failed
<1>7. \A i, t : EditScenario(i, t) => UNCHANGED attempts
  BY DEF EditScenario
<1>8. \A x : SetLabel(x) \/ Select(x) \/ GoToItem(x) => UNCHANGED attempts
  BY DEF SetLabel, Select, GoToItem
<1>9. StartAttempt \/ doSubmit \/ LoadResult => UNCHANGED attempts
  BY DEF StartAttempt, doSubmit, LoadResult
<1>10. Mount \/ Unmount \/ OpenScenario \/ BackToList \/ Retry => UNCHANGED attempts
  BY <1>5 DEF Mount, Unmount, OpenScenario, BackToList, Retry
<1>11. \A a : OpenResult(a) => UNCHANGED attempts
  BY <1>5 DEF OpenResult
<1> QED
  BY <1>1, <1>2, <1>3, <1>4, <1>6, <1>7, <1>8, <1>9, <1>10, <1>11
     DEF Next, vars, AttemptStep

\* TrainerAttempt implements AttemptBook (BookKept): whatever is retried, lost,
\* left or edited, attempts are only ever added, and each is graded once.
THEOREM Implements == Spec => BookKept
<1> DEFINE book == [a \in DOMAIN attempts |-> IF attempts[a].status = "open" THEN {} ELSE {attempts[a].graded}]
<1>1. Init => IsBook(attempts) /\ book = <<>>
  BY EmptyBook, BookIsEntries DEF Init
<1>2. IsBook(attempts) /\ [Mount \/ Unmount \/ Next]_vars
        => IsBook(attempts)' /\ [Book!Start \/ \E a \in DOMAIN book : Book!Submit(a)]_book
  <2> SUFFICES ASSUME IsBook(attempts), [Mount \/ Unmount \/ Next]_vars
               PROVE  /\ IsBook(attempts')
                      /\ [Book!Start \/ \E a \in DOMAIN book : Book!Submit(a)]_book
    OBVIOUS
  <2>1. book = Entries(attempts) /\ book' = Entries(attempts')
    BY BookIsEntries
  <2> HIDE DEF book
  <2> QED
    BY <2>1, TrainerSteps, StepBook
<1> QED
  BY <1>1, <1>2, PTL DEF Spec, BookKept, Book!Spec

-----------------------------------------------------------------------------
(***************************************************************************)
(* What is graded without an answer was not shown.  An attempt's targets   *)
(* are listed once, by the answer to its start, and only a page that shows *)
(* them can submit: with a label for each.                                 *)
(***************************************************************************)
\* The start of attempt a has not been answered: its targets are not listed yet.
Unlisted(a) == \E c \in calls : c.op = "start" /\ c.stage = "done" /\ c.id = a

\* Every target that is shown has a label.
Complete(answers, shown) == \A i \in Item, t \in Target : t \in shown[i] => answers[i][t] # None

CallFields == {"op", "live", "stage", "id", "answers"}
PageFields == {"name", "attempt", "shown", "items", "targets", "answers", "index", "selected",
               "starting", "submitting"}

\* A submission carries a label for every target of an attempt that was listed.
SubmitHolds(c) == /\ c.id \in DOMAIN attempts /\ ~Unlisted(c.id)
                  /\ Complete(c.answers, attempts[c.id].shown)

CallHolds(c) ==
  /\ DOMAIN c = CallFields /\ c.op \in {"start", "submit"}
  /\ c.op = "start" /\ c.stage = "done"
       => c.id \in DOMAIN attempts /\ attempts[c.id].status = "open"
  /\ c.op = "submit" => SubmitHolds(c)

CallsHold == \A c \in calls : CallHolds(c)

OneStart == \A c, d \in calls :
  c.op = "start" /\ c.stage = "done" /\ d.op = "start" /\ d.stage = "done" /\ c.id = d.id => c = d

\* The page of an attempt shows what the server has listed for it.
PageHolds ==
  /\ DOMAIN page = PageFields
  /\ page.attempt # 0 => /\ page.attempt \in DOMAIN attempts /\ ~Unlisted(page.attempt)
                         /\ attempts[page.attempt].shown = page.targets

ScenarioHolds == scenario.targets \in [Item -> SUBSET Target]

ShownInv ==
  /\ IsBook(attempts) /\ ScenarioHolds
  /\ CallsHold /\ OneStart /\ PageHolds
  /\ UnansweredWasNotShown

\* Nothing is graded, listed or started.
SameGrades ==
  /\ DOMAIN attempts' = DOMAIN attempts
  /\ \A a \in DOMAIN attempts : /\ attempts'[a].status = attempts[a].status
                                /\ attempts'[a].shown = attempts[a].shown
                                /\ attempts'[a].graded = attempts[a].graded

\* A call that is as one before, or that is new and holds.
Expected(d) ==
  /\ DOMAIN d = CallFields /\ d.op \in {"start", "submit"}
  /\ \/ d.op = "start" /\ d.stage # "done"
     \/ d.op = "submit" /\ SubmitHolds(d)
     \/ \E c \in calls : c.op = d.op /\ c.stage = d.stage /\ c.id = d.id /\ c.answers = d.answers

-----------------------------------------------------------------------------
LEMMA InitShown == ASSUME FirstTargets \subseteq Target, Init PROVE ShownInv
<1>1. IsBook(attempts) /\ attempts = <<>> /\ DOMAIN attempts = {}
  BY EmptyBook DEF Init
<1>2. ScenarioHolds /\ CallsHold /\ OneStart /\ UnansweredWasNotShown
  BY <1>1 DEF Init, ScenarioHolds, CallsHold, OneStart, UnansweredWasNotShown
<1>3. PageHolds
  BY DEF Init, Fresh, PageHolds, PageFields
<1> QED
  BY <1>1, <1>2, <1>3 DEF ShownInv

\* A step that grades, lists and starts nothing.
LEMMA QuietStep ==
  ASSUME ShownInv, IsBook(attempts'), SameGrades, ScenarioHolds', OneStart',
         \A d \in calls' : Expected(d),
         DOMAIN page' = PageFields,
         page'.attempt = 0 \/ (page'.attempt = page.attempt /\ page'.targets = page.targets)
  PROVE  ShownInv'
<1>1. \A a : Unlisted(a)' => Unlisted(a)
  BY DEF Unlisted, Expected
<1>2. CallsHold'
  <2> SUFFICES ASSUME NEW d \in calls' PROVE CallHolds(d)'
    BY DEF CallsHold
  <2>1. DOMAIN d = CallFields /\ d.op \in {"start", "submit"} /\ Expected(d)
    BY DEF Expected
  <2>2. ASSUME d.op = "start", d.stage = "done"
        PROVE  d.id \in DOMAIN attempts' /\ attempts'[d.id].status = "open"
    <3>1. PICK c \in calls : c.op = d.op /\ c.stage = d.stage /\ c.id = d.id
      BY <2>1, <2>2 DEF Expected
    <3> QED
      BY <2>2, <3>1 DEF ShownInv, CallsHold, CallHolds, SameGrades
  <2>3. ASSUME d.op = "submit" PROVE SubmitHolds(d)'
    <3>1. SubmitHolds(d)
      BY <2>1, <2>3 DEF Expected, ShownInv, CallsHold, CallHolds, SubmitHolds
    <3> QED
      BY <1>1, <3>1 DEF SubmitHolds, SameGrades, Complete
  <2> QED
    BY <2>1, <2>2, <2>3 DEF CallHolds
<1>3. PageHolds'
  BY <1>1 DEF PageHolds, ShownInv, SameGrades
<1>4. UnansweredWasNotShown'
  BY DEF ShownInv, SameGrades, UnansweredWasNotShown
<1> QED
  BY <1>2, <1>3, <1>4 DEF ShownInv

\* A page and requests that are not about what is graded.
LEMMA FreshFacts ==
  ASSUME NEW name, NEW id
  PROVE  DOMAIN Fresh(name, id) = PageFields /\ Fresh(name, id).attempt = 0
BY DEF Fresh, PageFields

LEMMA FewerCalls ==
  ASSUME ShownInv, calls' \subseteq calls
  PROVE  OneStart' /\ \A d \in calls' : Expected(d)
BY DEF ShownInv, CallsHold, CallHolds, OneStart, Expected

LEMMA KeepsGrades ==
  ASSUME ShownInv, UNCHANGED attempts
  PROVE  IsBook(attempts') /\ SameGrades
BY DEF ShownInv, SameGrades

LEMMA GotoStep ==
  ASSUME ShownInv, NEW name, NEW id, Goto(Fresh(name, id))
  PROVE  ShownInv'
<1>1. UNCHANGED <<attempts, scenario>> /\ page' = Fresh(name, id)
      /\ calls' = {[c EXCEPT !.live = FALSE] : c \in calls}
  BY DEF Goto
<1>2. \A c \in calls : LET d == [c EXCEPT !.live = FALSE] IN
        /\ DOMAIN d = CallFields /\ d.op = c.op /\ d.stage = c.stage /\ d.id = c.id
        /\ d.answers = c.answers /\ c.op \in {"start", "submit"}
  BY DEF ShownInv, CallsHold, CallHolds, CallFields
<1>3. \A d \in calls' : Expected(d)
  <2> TAKE d \in calls'
  <2>1. PICK c \in calls : d = [c EXCEPT !.live = FALSE]
    BY <1>1
  <2> QED
    BY <1>2, <2>1 DEF Expected
<1>4. OneStart'
  <2> SUFFICES ASSUME NEW c \in calls', NEW d \in calls', c.op = "start", c.stage = "done",
                      d.op = "start", d.stage = "done", c.id = d.id
               PROVE  c = d
    BY DEF OneStart
  <2>1. PICK e \in calls : c = [e EXCEPT !.live = FALSE]
    BY <1>1
  <2>2. PICK f \in calls : d = [f EXCEPT !.live = FALSE]
    BY <1>1
  <2>3. e = f
    BY <1>2, <2>1, <2>2 DEF ShownInv, OneStart
  <2> QED
    BY <2>1, <2>2, <2>3
<1>5. ScenarioHolds'
  BY <1>1 DEF ShownInv, ScenarioHolds
<1> QED
  BY <1>1, <1>3, <1>4, <1>5, KeepsGrades, FreshFacts, QuietStep

\* One more request: a start that is sent, or a submission of the page's answers.
LEMMA CallStep ==
  ASSUME ShownInv, StartAttempt \/ doSubmit
  PROVE  ShownInv'
<1>1. UNCHANGED <<attempts, scenario>>
  BY DEF StartAttempt, doSubmit
<1>2. DOMAIN page' = PageFields /\ page'.attempt = page.attempt /\ page'.targets = page.targets
  BY DEF StartAttempt, doSubmit, ShownInv, PageHolds, PageFields
<1>3. ASSUME StartAttempt PROVE OneStart' /\ \A d \in calls' : Expected(d)
  <2> DEFINE n == [op |-> "start", live |-> TRUE, stage |-> "sent", id |-> 0, answers |-> Unlabelled]
  <2>1. calls' = calls \cup {n}
    BY <1>3 DEF StartAttempt, Call
  <2>2. DOMAIN n = CallFields /\ n.op = "start" /\ n.stage # "done"
    BY DEF CallFields
  <2> HIDE DEF n
  <2>3. OneStart'
    BY <2>1, <2>2 DEF ShownInv, OneStart
  <2> QED
    BY <2>1, <2>2, <2>3 DEF Expected, ShownInv, CallsHold, CallHolds
<1>4. ASSUME doSubmit PROVE OneStart' /\ \A d \in calls' : Expected(d)
  <2> DEFINE n == [op |-> "submit", live |-> TRUE, stage |-> "sent", id |-> page.attempt,
                   answers |-> page.answers]
  <2>1. calls' = calls \cup {n}
    BY <1>4 DEF doSubmit, Call
  <2>2. DOMAIN n = CallFields /\ n.op = "submit" /\ n.id = page.attempt /\ n.answers = page.answers
    BY DEF CallFields
  <2> HIDE DEF n
  <2>3. page.attempt # 0 /\ Unanswered(page) = {}
    BY <1>4 DEF doSubmit, CanSubmit, Labelling, Introducing
  <2>4. Complete(page.answers, page.targets)
    <3> SUFFICES ASSUME NEW i \in Item, NEW t \in Target, t \in page.targets[i],
                        page.answers[i][t] = None
                 PROVE  FALSE
      BY DEF Complete
    <3>1. <<i, t>> \in Unanswered(page)
      BY DEF Unanswered
    <3> QED
      BY <2>3, <3>1
  <2>5. SubmitHolds(n)
    BY <2>2, <2>3, <2>4 DEF SubmitHolds, ShownInv, PageHolds
  <2>6. OneStart'
    BY <2>1, <2>2 DEF ShownInv, OneStart
  <2> QED
    BY <2>1, <2>2, <2>5, <2>6 DEF Expected, ShownInv, CallsHold, CallHolds
<1>5. ScenarioHolds'
  BY <1>1 DEF ShownInv, ScenarioHolds
<1> QED
  BY <1>1, <1>2, <1>3, <1>4, <1>5, KeepsGrades, QuietStep

\* What is written of an attempt changes the other attempts' rows not at all.
LEMMA PutFacts ==
  ASSUME NEW V, NEW s \in Seq(Row(V)), NEW a \in DOMAIN s, NEW r
  PROVE  /\ DOMAIN Put(s, a, r) = DOMAIN s /\ Put(s, a, r)[a] = r
         /\ \A b \in DOMAIN s \ {a} : Put(s, a, r)[b] = s[b]
BY DEF Put

LEMMA VersionFacts ==
  ASSUME NEW V, NEW q \in Row(V), NEW f, NEW g
  PROVE  /\ AsGraded(q, f, g).status = "graded" /\ AsGraded(q, f, g).graded = g
         /\ AsGraded(q, f, g).shown = q.shown
         /\ AsListed(q, f).status = q.status /\ AsListed(q, f).graded = q.graded
         /\ AsListed(q, f).shown = f
         /\ AsCommented(q, f).status = q.status /\ AsCommented(q, f).graded = q.graded
         /\ AsCommented(q, f).shown = q.shown
BY DEF Row, AsGraded, AsListed, AsCommented

\* Feedback is nobody's grade.
LEMMA CommentStep == ASSUME ShownInv, NEW a, WriteFeedback(a) PROVE ShownInv'
<1>1. PICK V : attempts \in Seq(Row(V))
  BY DEF ShownInv, IsBook
<1>2. UNCHANGED <<page, calls, scenario>> /\ a \in DOMAIN attempts
      /\ attempts' = Put(attempts, a, AsCommented(attempts[a], "settled"))
  BY DEF WriteFeedback, Put, AsCommented
<1>3. attempts[a] \in Row(V)
  BY <1>1, <1>2
<1>4. /\ DOMAIN attempts' = DOMAIN attempts
      /\ attempts'[a] = AsCommented(attempts[a], "settled")
      /\ \A b \in DOMAIN attempts \ {a} : attempts'[b] = attempts[b]
  BY <1>1, <1>2, PutFacts
<1>5. SameGrades
  BY <1>3, <1>4, VersionFacts DEF SameGrades
<1>6. IsBook(attempts')
  BY <1>2, StepBook DEF ShownInv, AttemptStep, Commented
<1>7. calls' \subseteq calls /\ ScenarioHolds'
  BY <1>2 DEF ShownInv, ScenarioHolds
<1> QED
  BY <1>2, <1>5, <1>6, <1>7, FewerCalls, QuietStep DEF ShownInv, PageHolds

\* A new attempt is open and not listed; its start is the only call that knows it.
LEMMA StartStep == ASSUME ShownInv, NEW c, ServeStart(c) PROVE ShownInv'
<1> DEFINE n == Len(attempts) + 1
           d == [c EXCEPT !.stage = "done", !.id = n]
<1>1. PICK V : attempts \in Seq(Row(V))
  BY DEF ShownInv, IsBook
<1>2. IsBook(attempts')
  <2>1. Started
    BY DEF ServeStart, Started
  <2> QED
    BY <2>1, StepBook DEF ShownInv, AttemptStep
<1>3. /\ DOMAIN attempts' = DOMAIN attempts \cup {n} /\ n \notin DOMAIN attempts
      /\ attempts'[n].status = "open"
      /\ \A a \in DOMAIN attempts : attempts'[a] = attempts[a]
  <2> DEFINE T == Row(V)
  <2>1. PICK r : attempts' = Append(attempts, r) /\ r.status = "open"
    BY DEF ServeStart
  <2>2. attempts \in Seq(T)
    BY <1>1
  <2> HIDE DEF T
  <2> QED
    BY <2>1, <2>2
<1>4. /\ c \in calls /\ c.op = "start" /\ UNCHANGED <<page, scenario>>
      /\ calls' = (calls \ {c}) \cup {d}
  BY DEF ServeStart
<1>5. DOMAIN d = CallFields /\ d.op = "start" /\ d.stage = "done" /\ d.id = n
  BY <1>4 DEF ShownInv, CallsHold, CallHolds, CallFields
<1> HIDE DEF d, n
<1>6. \A e \in calls : e.op = "start" /\ e.stage = "done" => e.id # n
  BY <1>3 DEF ShownInv, CallsHold, CallHolds
<1>7. \A a \in DOMAIN attempts : Unlisted(a)' => Unlisted(a)
  BY <1>3, <1>4, <1>5 DEF Unlisted
<1>8. CallsHold'
  <2> SUFFICES ASSUME NEW e \in calls' PROVE CallHolds(e)'
    BY DEF CallsHold
  <2>1. CASE e = d
    BY <1>3, <1>5, <2>1 DEF CallHolds
  <2>2. CASE e \in calls
    <3>1. CallHolds(e)
      BY <2>2 DEF ShownInv, CallsHold
    <3> QED
      BY <1>3, <1>7, <3>1 DEF CallHolds, SubmitHolds, Complete
  <2> QED
    BY <1>4, <2>1, <2>2
<1>9. OneStart'
  BY <1>4, <1>5, <1>6 DEF ShownInv, OneStart
<1>10. PageHolds' /\ ScenarioHolds'
  BY <1>3, <1>4, <1>7 DEF ShownInv, PageHolds, ScenarioHolds
<1>11. UnansweredWasNotShown'
  BY <1>3 DEF ShownInv, UnansweredWasNotShown
<1> QED
  BY <1>2, <1>8, <1>9, <1>10, <1>11 DEF ShownInv

\* What is graded is what the page had, complete for the targets it was shown.
LEMMA SubmitStep == ASSUME ShownInv, NEW c, ServeSubmit(c) PROVE ShownInv'
<1> DEFINE a == c.id
           g == Grade(scenario, c.answers)
           d == [c EXCEPT !.stage = "done"]
<1>1. PICK V : attempts \in Seq(Row(V))
  BY DEF ShownInv, IsBook
<1>2. PICK f : attempts' = Put(attempts, a, AsGraded(attempts[a], f, g))
  <2>1. PICK f : attempts' = [attempts EXCEPT ![c.id].status = "graded", ![c.id].feedback = f,
                                              ![c.id].graded = Grade(scenario, c.answers)]
    BY DEF ServeSubmit
  <2> QED
    BY <2>1 DEF Put, AsGraded
<1>3. /\ c \in calls /\ c.op = "submit" /\ attempts[a].status = "open"
      /\ UNCHANGED <<page, scenario>> /\ calls' = (calls \ {c}) \cup {d}
  BY DEF ServeSubmit, Submittable
<1>4. SubmitHolds(c) /\ DOMAIN c = CallFields
  BY <1>3 DEF ShownInv, CallsHold, CallHolds
<1>5. DOMAIN d = CallFields /\ d.op = "submit" /\ d.id = c.id /\ d.answers = c.answers
  BY <1>3, <1>4 DEF CallFields
<1> HIDE DEF d
<1>6. IsBook(attempts')
  <2>1. Graded
    BY <1>2, <1>3 DEF Graded
  <2> QED
    BY <2>1, StepBook DEF ShownInv, AttemptStep
<1>7. /\ DOMAIN attempts' = DOMAIN attempts /\ a \in DOMAIN attempts
      /\ attempts'[a].graded = g /\ attempts'[a].shown = attempts[a].shown
      /\ \A b \in DOMAIN attempts \ {a} : attempts'[b] = attempts[b]
  <2>1. a \in DOMAIN attempts /\ attempts[a] \in Row(V)
    BY <1>1, <1>4 DEF SubmitHolds
  <2> HIDE DEF g
  <2> QED
    BY <1>1, <1>2, <2>1, PutFacts, VersionFacts
<1>8. \A b : Unlisted(b)' => Unlisted(b)
  BY <1>3, <1>5 DEF Unlisted
<1>9. ~Unlisted(a) /\ Complete(c.answers, attempts[a].shown)
  BY <1>4 DEF SubmitHolds
<1>10. CallsHold'
  <2> SUFFICES ASSUME NEW e \in calls' PROVE CallHolds(e)'
    BY DEF CallsHold
  <2>0. \A b \in DOMAIN attempts : attempts'[b].shown = attempts[b].shown
    BY <1>7
  <2>1. CASE e = d
    BY <1>4, <1>5, <1>7, <1>8, <2>0, <2>1 DEF CallHolds, SubmitHolds
  <2>2. CASE e \in calls
    <3>1. CallHolds(e) /\ (e.op = "start" /\ e.stage = "done" => e.id # a)
      BY <1>9, <2>2 DEF ShownInv, CallsHold, Unlisted
    <3> QED
      BY <1>7, <1>8, <2>0, <3>1 DEF CallHolds, SubmitHolds
  <2> QED
    BY <1>3, <2>1, <2>2
<1>11. OneStart'
  BY <1>3, <1>5 DEF ShownInv, OneStart
<1>12. PageHolds' /\ ScenarioHolds'
  BY <1>3, <1>7, <1>8 DEF ShownInv, PageHolds, ScenarioHolds
<1>13. UnansweredWasNotShown'
  <2>1. ASSUME NEW i \in Item, NEW t \in DOMAIN g[i], g[i][t] = None
        PROVE  t \notin attempts[a].shown[i]
    <3>1. DOMAIN g[i] = scenario.targets[i] /\ g[i][t] = c.answers[i][t]
      BY <2>1 DEF Grade
    <3>2. t \in Target
      BY <2>1, <3>1 DEF ShownInv, ScenarioHolds
    <3> QED
      BY <1>9, <2>1, <3>1, <3>2 DEF Complete
  <2> HIDE DEF g
  <2> QED
    BY <1>7, <2>1 DEF ShownInv, UnansweredWasNotShown
<1> QED
  BY <1>6, <1>10, <1>11, <1>12, <1>13 DEF ShownInv

\* The answer to a start lists the targets, of an attempt that nothing knows yet.
LEMMA ListStep == ASSUME ShownInv, NEW c, StartAnswered(c) PROVE ShownInv'
<1> DEFINE a == c.id
           x == scenario.targets
<1>1. PICK V : attempts \in Seq(Row(V))
  BY DEF ShownInv, IsBook
<1>2. /\ c \in calls /\ c.op = "start" /\ c.stage = "done" /\ UNCHANGED scenario
      /\ calls' = calls \ {c} /\ attempts' = Put(attempts, a, AsListed(attempts[a], x))
  BY DEF StartAnswered, Put, AsListed
<1>3. Unlisted(a) /\ a \in DOMAIN attempts /\ attempts[a].status = "open"
  BY <1>2 DEF ShownInv, CallsHold, CallHolds, Unlisted
<1>4. IsBook(attempts')
  <2>1. Listed
    BY <1>2 DEF Listed
  <2> QED
    BY <2>1, StepBook DEF ShownInv, AttemptStep
<1>5. /\ DOMAIN attempts' = DOMAIN attempts
      /\ attempts'[a].status = "open" /\ attempts'[a].shown = x
      /\ \A b \in DOMAIN attempts \ {a} : attempts'[b] = attempts[b]
  <2>1. attempts[a] \in Row(V)
    BY <1>1, <1>3
  <2> QED
    BY <1>1, <1>2, <1>3, <2>1, PutFacts, VersionFacts
<1>6. ~Unlisted(a)' /\ \A b : Unlisted(b)' => Unlisted(b)
  BY <1>2 DEF ShownInv, OneStart, Unlisted
<1>7. CallsHold' /\ OneStart'
  <2>1. ASSUME NEW e \in calls' PROVE CallHolds(e)'
    <3>1. e \in calls /\ CallHolds(e)
      BY <1>2, <2>1 DEF ShownInv, CallsHold
    <3>2. e.op = "submit" => e.id # a
      BY <1>3, <3>1 DEF CallHolds, SubmitHolds
    <3> QED
      BY <1>5, <1>6, <3>1, <3>2 DEF CallHolds, SubmitHolds
  <2> QED
    BY <1>2, <2>1 DEF ShownInv, OneStart, CallsHold
<1>8. PageHolds'
  <2>1. CASE c.live
    <3> DEFINE p == [page EXCEPT !.attempt = c.id, !.answers = loadDraft(c.id), !.starting = FALSE,
                                 !.items = Usable(scenario), !.targets = scenario.targets]
    <3>1. page' \in AtItem(p, 1)
      BY <2>1 DEF StartAnswered
    <3>2. DOMAIN p = PageFields /\ p.attempt = a /\ p.targets = x
      BY DEF ShownInv, PageHolds, PageFields
    <3> HIDE DEF p
    <3>3. DOMAIN page' = PageFields /\ page'.attempt = a /\ page'.targets = x
      BY <3>1, <3>2 DEF AtItem, PageFields
    <3> QED
      BY <1>3, <1>5, <1>6, <3>3 DEF PageHolds
  <2>2. CASE ~c.live
    <3>1. UNCHANGED page
      BY <2>2 DEF StartAnswered
    <3>2. page.attempt # 0 => page.attempt # a
      BY <1>3 DEF ShownInv, PageHolds
    <3> QED
      BY <1>5, <1>6, <3>1, <3>2 DEF ShownInv, PageHolds
  <2> QED
    BY <2>1, <2>2
<1>9. UnansweredWasNotShown' /\ ScenarioHolds'
  BY <1>2, <1>5 DEF ShownInv, UnansweredWasNotShown, ScenarioHolds
<1> QED
  BY <1>4, <1>7, <1>8, <1>9 DEF ShownInv

LEMMA NextShown == ShownInv /\ [Mount \/ Unmount \/ Next]_vars => ShownInv'
<1> SUFFICES ASSUME ShownInv, [Mount \/ Unmount \/ Next]_vars PROVE ShownInv'
  OBVIOUS
<1> DEFINE Calm == /\ UNCHANGED attempts /\ calls' \subseteq calls /\ ScenarioHolds'
                   /\ DOMAIN page' = PageFields
                   /\ \/ page'.attempt = 0
                      \/ page'.attempt = page.attempt /\ page'.targets = page.targets
<1>1. ASSUME Calm PROVE ShownInv'
  BY <1>1, KeepsGrades, FewerCalls, QuietStep
<1>2. DOMAIN page = PageFields /\ ScenarioHolds
  BY DEF ShownInv, PageHolds
<1>3. ASSUME UNCHANGED vars \/ LoadResult PROVE Calm
  BY <1>2, <1>3 DEF vars, LoadResult, ScenarioHolds
<1>4. ASSUME NEW l, SetLabel(l) PROVE Calm
  <2>1. PICK q, t : page' = [[page EXCEPT !.answers = q] EXCEPT !.selected = t]
    BY <1>4 DEF SetLabel
  <2>2. UNCHANGED <<attempts, calls, scenario>>
    BY <1>4 DEF SetLabel
  <2> QED
    BY <1>2, <2>1, <2>2 DEF PageFields, ScenarioHolds
<1>5. ASSUME NEW t, Select(t) PROVE Calm
  BY <1>2, <1>5 DEF Select, PageFields, ScenarioHolds
<1>6. ASSUME NEW n, GoToItem(n) PROVE Calm
  <2>1. PICK t : page' = [page EXCEPT !.index = n, !.selected = t]
    BY <1>6 DEF GoToItem, AtItem
  <2>2. UNCHANGED <<attempts, calls, scenario>>
    BY <1>6 DEF GoToItem
  <2> QED
    BY <1>2, <2>1, <2>2 DEF PageFields, ScenarioHolds
<1>7. ASSUME NEW i \in Item, NEW t \in SUBSET Target, EditScenario(i, t) PROVE Calm
  <2>1. scenario' = [targets |-> [scenario.targets EXCEPT ![i] = t], edits |-> scenario.edits + 1]
        /\ UNCHANGED <<page, calls, attempts>>
    BY <1>7 DEF EditScenario
  <2> QED
    BY <1>2, <2>1 DEF ScenarioHolds
<1>8. ASSUME NEW c, SubmitAnswered(c) \/ Failed(c) PROVE Calm
  <2>1. UNCHANGED <<attempts, scenario>> /\ calls' \subseteq calls
    BY <1>8 DEF SubmitAnswered, Failed
  <2>2. \/ page' = page \/ page' = Fresh("result", c.id)
        \/ \E x, y : page' = [page EXCEPT !.starting = x, !.submitting = y]
    BY <1>8 DEF SubmitAnswered, Failed
  <2>3. /\ DOMAIN page' = PageFields
        /\ page'.attempt = 0 \/ (page'.attempt = page.attempt /\ page'.targets = page.targets)
    BY <1>2, <2>2, FreshFacts DEF PageFields
  <2> QED
    BY <1>2, <2>1, <2>3 DEF ScenarioHolds
<1>9. ASSUME Mount \/ Unmount \/ OpenScenario \/ BackToList \/ Retry \/ \E a : OpenResult(a)
      PROVE  ShownInv'
  <2>1. \E name, id : Goto(Fresh(name, id))
    BY <1>9 DEF Mount, Unmount, OpenScenario, BackToList, Retry, OpenResult
  <2> QED
    BY <2>1, GotoStep
<1> HIDE DEF Calm
<1> QED
  BY <1>1, <1>3, <1>4, <1>5, <1>6, <1>7, <1>8, <1>9, CallStep, CommentStep, StartStep, SubmitStep, ListStep
     DEF Next

\* What is graded without an answer was not there to be answered, whatever is
\* lost, retried, left or edited: an attempt is submitted complete.
THEOREM NothingShownLost == ASSUME FirstTargets \subseteq Target PROVE Spec => []UnansweredWasNotShown
<1>1. Init => ShownInv
  BY InitShown
<1>2. ShownInv => UnansweredWasNotShown
  BY DEF ShownInv
<1> QED
  BY <1>1, <1>2, NextShown, PTL DEF Spec
=============================================================================
