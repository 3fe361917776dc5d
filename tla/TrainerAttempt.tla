--------------------------- MODULE TrainerAttempt ---------------------------
(***************************************************************************)
(* The simulation trainer as one trainee uses it: the scenario list, the   *)
(* page on which every region or person of a scenario's items is labelled, *)
(* the result, and what the server does with an attempt while an           *)
(* administrator edits the scenario.                                       *)
(*                                                                         *)
(* Code: features/trainer/, api/training.ts, app/api/v1/training.py,       *)
(* app/services/training.py.                                               *)
(*                                                                         *)
(* A label is a member of Label and a picture is left out.  An answer may  *)
(* be lost before or after the server did what was asked.                  *)
(***************************************************************************)
EXTENDS Naturals, Sequences, FiniteSets, SequencesExt

CONSTANTS
  ItemOrder,    \* the scenario's items in their order
  Target,       \* ids of the regions or people of an item
  FirstTargets, \* those that each item has at first
  Label,        \* what a target may be labelled
  MaxAttempts,  \* bound: attempts started
  MaxEdits,     \* bound: changes of the ground truth by an administrator
  MaxCalls      \* bound: requests under way at once

VARIABLES
  page,      \* the trainer's page on screen and its state
  drafts,    \* sessionStorage: the answers kept under iv.attempt.<id>
  cache,     \* the query cache's copies of attempts
  calls,     \* requests under way
  attempts,  \* training_attempts and attempt_answers
  scenario   \* the targets of every item, and the number of edits so far

vars == <<page, drafts, cache, calls, attempts, scenario>>

Item == ToSet(ItemOrder)
None == "none"
Unlabelled == [i \in Item |-> [t \in Target |-> None]]

(* What useState holds when a page is mounted. *)
Fresh(name, id) ==
  [name |-> name, attempt |-> 0, shown |-> id, items |-> <<>>, targets |-> [i \in Item |-> {}],
   answers |-> Unlabelled, index |-> 1, selected |-> None, starting |-> FALSE, submitting |-> FALSE]

(* An item without a target or without a reference output is hidden. *)
Usable(s) == SelectSeq(ItemOrder, LAMBDA i : s.targets[i] # {})

Init ==
  /\ page = Fresh("off", 0)
  /\ drafts = <<>>
  /\ cache = <<>>
  /\ calls = {}
  /\ attempts = <<>>
  /\ scenario = [targets |-> [i \in Item |-> FirstTargets], edits |-> 0]

(***************************************************************************)
(* AttemptPage                                                             *)
(***************************************************************************)
(* Mutant: only the item on screen is looked at. *)
Mutant_Unanswered(p) ==
  {x \in {p.items[p.index]} \X Target : x[2] \in p.targets[x[1]] /\ p.answers[x[1]][x[2]] = None}

(* The targets that have no label yet; "remaining" is their number. *)
Unanswered(p) ==
  {x \in Item \X Target : x[2] \in p.targets[x[1]] /\ p.answers[x[1]][x[2]] = None}

(* The introduction is on screen until there is an item to label. *)
Introducing(p) == p.name = "attempt" /\ (p.attempt = 0 \/ p.index > Len(p.items))
Labelling(p)   == p.name = "attempt" /\ ~Introducing(p)

Shown(p) == p.items[p.index]

(* MediaStage: the shapes of the item on screen, each of which can be pressed. *)
Shapes(p) == IF Labelling(p) THEN p.targets[Shown(p)] ELSE {}

(* LabelPicker: its buttons need a selected target. *)
CanPick(p) == Labelling(p) /\ p.selected # None

CanStart(p) == Introducing(p) /\ ~p.starting

(* "Submit" takes the place of "next" at the last item; every target must be *)
(* labelled.                                                               *)
CanSubmit(p) ==
  Labelling(p) /\ p.index = Len(p.items) /\ Unanswered(p) = {} /\ ~p.submitting

(* The effect that runs when another item is shown: its first unlabelled    *)
(* target is selected, else its first one.                                 *)
AtItem(p, n) ==
  {[p EXCEPT !.index = n, !.selected = t] :
     t \in IF n > Len(p.items) THEN {p.selected}
           ELSE LET open == {u \in p.targets[p.items[n]] : p.answers[p.items[n]][u] = None}
                IN  IF open # {} THEN open ELSE p.targets[p.items[n]]}

(* The effect that writes the draft whenever the attempt or its answers change. *)
KeepDraft(p) == drafts' = IF p.attempt = 0 THEN drafts ELSE (p.attempt :> p.answers) @@ drafts

loadDraft(a) == IF a \in DOMAIN drafts THEN drafts[a] ELSE Unlabelled

Call(c) == Cardinality(calls) < MaxCalls /\ calls' = calls \cup {c}

StartAttempt ==
  /\ CanStart(page)
  /\ Call([op |-> "start", live |-> TRUE, stage |-> "sent", id |-> 0, answers |-> Unlabelled])
  /\ page' = [page EXCEPT !.starting = TRUE]
  /\ UNCHANGED <<drafts, cache, attempts, scenario>>

(* A label replaces the answer of the selected target; the next unlabelled *)
(* target of the item, if any, is selected.                                *)
SetLabel(l) ==
  LET i    == Shown(page)
      next == [page EXCEPT !.answers[i][page.selected] = l]
      open == {t \in page.targets[i] : next.answers[i][t] = None}
  IN  /\ CanPick(page)
      /\ \E t \in IF open = {} THEN {page.selected} ELSE open :
           page' = [next EXCEPT !.selected = t]
      /\ KeepDraft(next)
      /\ UNCHANGED <<cache, calls, attempts, scenario>>

Select(t) ==
  /\ t \in Shapes(page) \ {page.selected}
  /\ page' = [page EXCEPT !.selected = t]
  /\ UNCHANGED <<drafts, cache, calls, attempts, scenario>>

(* The numbered steps, "next" and "back". *)
GoToItem(n) ==
  /\ Labelling(page)
  /\ n \in 1..Len(page.items) \ {page.index}
  /\ page' \in AtItem(page, n)
  /\ UNCHANGED <<drafts, cache, calls, attempts, scenario>>

doSubmit ==
  /\ CanSubmit(page)
  /\ Call([op |-> "submit", live |-> TRUE, stage |-> "sent", id |-> page.attempt,
           answers |-> page.answers])
  /\ page' = [page EXCEPT !.submitting = TRUE]
  /\ UNCHANGED <<drafts, cache, attempts, scenario>>

(***************************************************************************)
(* The server                                                              *)
(***************************************************************************)
(* start_attempt checks that something can be answered, commits a new      *)
(* attempt, and lists the items in a later statement (StartAnswered).      *)
ServeStart(c) ==
  /\ c \in calls /\ c.op = "start" /\ c.stage = "sent" /\ Usable(scenario) # <<>>
  /\ Len(attempts) < MaxAttempts
  /\ attempts' = Append(attempts, [status |-> "open", shown |-> [i \in Item |-> {}],
                                   graded |-> [i \in Item |-> <<>>], feedback |-> "settled"])
  /\ calls' = (calls \ {c}) \cup {[c EXCEPT !.stage = "done", !.id = Len(attempts) + 1]}
  /\ UNCHANGED <<page, drafts, cache, scenario>>

(* What grading stores for each target that the item has by then: the      *)
(* answer that was sent for its id, or none.                               *)
Grade(s, answers) == [i \in Item |-> [t \in s.targets[i] |-> answers[i][t]]]

(* Mutant: an attempt that was submitted already is graded again. *)
Mutant_Submittable(a) == TRUE

Submittable(a) == attempts[a].status = "open"

(* An LLM's feedback is pending if the setting wants it; off, done, none   *)
(* and failed are all the same to the pages: settled.                      *)
ServeSubmit(c) ==
  /\ c \in calls /\ c.op = "submit" /\ c.stage = "sent" /\ Submittable(c.id)
  /\ \E f \in {"pending", "settled"} :
       attempts' = [attempts EXCEPT ![c.id].status = "graded", ![c.id].feedback = f,
                                    ![c.id].graded = Grade(scenario, c.answers)]
  /\ calls' = (calls \ {c}) \cup {[c EXCEPT !.stage = "done"]}
  /\ UNCHANGED <<page, drafts, cache, scenario>>

(* llm_feedback_for.  It may also never come: the process restarts, or the *)
(* feature is switched off.                                                *)
WriteFeedback(a) ==
  /\ a \in DOMAIN attempts /\ attempts[a].feedback = "pending"
  /\ attempts' = [attempts EXCEPT ![a].feedback = "settled"]
  /\ UNCHANGED <<page, drafts, cache, calls, scenario>>

(* An administrator saves other ground truth for an item, which may take   *)
(* all its targets away, as deleting the item does.                        *)
EditScenario(i, t) ==
  /\ scenario.edits < MaxEdits /\ t # scenario.targets[i]
  /\ scenario' = [targets |-> [scenario.targets EXCEPT ![i] = t], edits |-> scenario.edits + 1]
  /\ UNCHANGED <<page, drafts, cache, calls, attempts>>

(***************************************************************************)
(* Answers, and the pages around the attempt                               *)
(***************************************************************************)
(* onSuccess of the start: the page takes the attempt and loads its draft. *)
(* A page that was left meanwhile gets no callback.                        *)
StartAnswered(c) ==
  LET p == [page EXCEPT !.attempt = c.id, !.answers = loadDraft(c.id), !.starting = FALSE,
                        !.items = Usable(scenario), !.targets = scenario.targets]
  IN  /\ c \in calls /\ c.op = "start" /\ c.stage = "done"
      /\ calls' = calls \ {c}
      /\ attempts' = [attempts EXCEPT ![c.id].shown = scenario.targets]
      /\ IF c.live THEN page' \in AtItem(p, 1) /\ KeepDraft(p) ELSE UNCHANGED <<page, drafts>>
      /\ UNCHANGED <<cache, scenario>>

Snapshot(a) == [status |-> attempts[a].status, feedback |-> attempts[a].feedback]

(* onSuccess of the hook stores the result whether or not the page is      *)
(* still there; the page's own drops the draft and opens the result.       *)
SubmitAnswered(c) ==
  /\ c \in calls /\ c.op = "submit" /\ c.stage = "done"
  /\ calls' = calls \ {c}
  /\ cache' = (c.id :> Snapshot(c.id)) @@ cache
  /\ IF c.live THEN /\ drafts' = Restrict(drafts, DOMAIN drafts \ {c.id})
                    /\ page' = Fresh("result", c.id)
     ELSE UNCHANGED <<page, drafts>>
  /\ UNCHANGED <<attempts, scenario>>

(* 409 scenario_not_ready, 409 attempt_already_submitted, or no answer:    *)
(* onError shows a message and the button works again.                     *)
Failed(c) ==
  /\ c \in calls /\ calls' = calls \ {c}
  /\ page' = IF ~c.live THEN page
             ELSE [page EXCEPT !.starting = @ /\ c.op # "start", !.submitting = @ /\ c.op # "submit"]
  /\ UNCHANGED <<drafts, cache, attempts, scenario>>

(* Leaving a page drops its state and its callbacks. *)
Goto(p) ==
  /\ page' = p
  /\ calls' = {[c EXCEPT !.live = FALSE] : c \in calls}
  /\ UNCHANGED <<drafts, cache, attempts, scenario>>

Mount   == page.name = "off" /\ \E n \in {"list", "attempt"} : Goto(Fresh(n, 0))
Unmount == page.name # "off" /\ Goto(Fresh("off", 0))

(* TrainerPage: "start" or "retry" of the scenario. *)
OpenScenario == page.name = "list" /\ Usable(scenario) # <<>> /\ Goto(Fresh("attempt", 0))

(* TrainerPage lists the attempts that were submitted. *)
OpenResult(a) ==
  /\ page.name = "list" /\ a \in DOMAIN attempts /\ attempts[a].status = "graded"
  /\ Goto(Fresh("result", a))

BackToList == page.name \in {"attempt", "result"} /\ Goto(Fresh("list", 0))

(* AttemptResult: its "retry" opens the scenario again. *)
Retry ==
  /\ page.name = "result" /\ page.shown \in DOMAIN cache /\ cache[page.shown].status = "graded"
  /\ Goto(Fresh("attempt", 0))

(* useAttempt loads the attempt, and again every two seconds while its     *)
(* feedback is pending.                                                    *)
LoadResult ==
  /\ page.name = "result"
  /\ page.shown \in DOMAIN cache => cache[page.shown].feedback = "pending"
  /\ cache' = (page.shown :> Snapshot(page.shown)) @@ cache
  /\ UNCHANGED <<page, drafts, calls, attempts, scenario>>

Next ==
  \/ StartAttempt \/ doSubmit \/ OpenScenario \/ BackToList \/ Retry \/ LoadResult
  \/ \E l \in Label : SetLabel(l)
  \/ \E t \in Target : Select(t)
  \/ \E n \in 1..Len(ItemOrder) : GoToItem(n)
  \/ \E a \in 1..MaxAttempts : OpenResult(a) \/ WriteFeedback(a)
  \/ \E c \in calls : ServeStart(c) \/ ServeSubmit(c) \/ StartAnswered(c) \/ SubmitAnswered(c) \/ Failed(c)
  \/ \E i \in Item, t \in SUBSET Target : EditScenario(i, t)

Spec == Init /\ [][Mount \/ Unmount \/ Next]_vars

(***************************************************************************)
(* Properties                                                              *)
(***************************************************************************)
(* What is graded without an answer was not there to be answered: the page *)
(* submits nothing incomplete, so only an edit of the scenario after the   *)
(* start can cost a trainee a target that nobody showed.                   *)
UnansweredWasNotShown ==
  \A a \in DOMAIN attempts : attempts[a].status = "graded" =>
    \A i \in Item : \A t \in DOMAIN attempts[a].graded[i] :
      attempts[a].graded[i][t] = None => t \notin attempts[a].shown[i]

(* Every attempt is a book entry that is written once: TrainerAttempt      *)
(* implements AttemptBook, whatever is retried, lost or edited.            *)
Book == INSTANCE AttemptBook WITH
  book <- [a \in DOMAIN attempts |->
             IF attempts[a].status = "open" THEN {} ELSE {attempts[a].graded}]
BookKept == Book!Spec
=============================================================================
