---------------------------- MODULE ConsoleProofs ----------------------------
(****************************************************************************)
(* Theorems about Console, for any values of the constants.  What is proved *)
(* of the settings, the trainer and the analysis in modules of their own is *)
(* carried over; the ground truth editor, the users page, the tabs of a     *)
(* browser and the live board, in this order, have their invariants here.   *)
(****************************************************************************)
EXTENDS Console, TLAPS

FormProofs == INSTANCE SettingsFormProofs WITH
  page <- fPage, cache <- fCache, calls <- fCalls, store <- fStore, MaxCalls <- FewCalls
TrainerProofs == INSTANCE TrainerAttemptProofs WITH
  page <- tPage, drafts <- tDrafts, cache <- tCache, calls <- tCalls,
  attempts <- tAttempts, scenario <- tScenario

AnalysisProofs == INSTANCE ThermalAnalysisProofs WITH
  page <- aPage, cache <- aCache, upload <- aUpload, jobs <- aJobs, queue <- aQueue,
  breaks <- aBreaks

-----------------------------------------------------------------------------
\* The form is the same in both instances of its module.
LEMMA SameInit == Form!Init => FormProofs!Init
BY DEF Form!Init, Form!Closed, Form!Clean, Form!NotLoaded, Form!Default,
       FormProofs!Init, FormProofs!Closed, FormProofs!Clean, FormProofs!NotLoaded,
       FormProofs!Default

LEMMA SameSteps ==
  Form!Mount \/ Form!Unmount \/ Form!Next => FormProofs!Mount \/ FormProofs!Unmount \/ FormProofs!Next
<1>1. Form!Mount => FormProofs!Mount
  BY DEF Form!Mount, Form!Clean, FormProofs!Mount, FormProofs!Clean
<1>2. Form!Unmount => FormProofs!Unmount
  BY DEF Form!Unmount, Form!Closed, Form!Clean, Form!Default,
         FormProofs!Unmount, FormProofs!Closed, FormProofs!Clean, FormProofs!Default
<1>3. Form!Load => FormProofs!Load
  BY DEF Form!Load, Form!Display, Form!Reset, Form!Clean,
         FormProofs!Load, FormProofs!Display, FormProofs!Reset, FormProofs!Clean
<1>4. \A s : Form!Revert(s) => FormProofs!Revert(s)
  BY DEF Form!Revert, Form!Shown, Form!changed, Form!Clean,
         FormProofs!Revert, FormProofs!Shown, FormProofs!changed, FormProofs!Clean
<1>5. \A s : Form!onSave(s) => FormProofs!onSave(s)
  BY DEF Form!onSave, Form!Shown, Form!changed, Form!Invalid, Form!Default, Form!Cardinality,
         FormProofs!onSave, FormProofs!Shown, FormProofs!changed, FormProofs!Invalid,
         FormProofs!Default, FormProofs!Cardinality
<1>6. \A s, f, v : Form!SetDraft(s, f, v) => FormProofs!SetDraft(s, f, v)
  BY DEF Form!SetDraft, Form!Shown, FormProofs!SetDraft, FormProofs!Shown
<1>7. \A s, f, v : Form!SaveElsewhere(s, f, v) => FormProofs!SaveElsewhere(s, f, v)
  BY DEF Form!SaveElsewhere, FormProofs!SaveElsewhere
<1>8. \A c : Form!ServeSave(c) => FormProofs!ServeSave(c)
  BY DEF Form!ServeSave, FormProofs!ServeSave
<1>9. \A c : Form!SaveAnswered(c) => FormProofs!SaveAnswered(c)
  BY DEF Form!SaveAnswered, Form!Display, Form!Reset, Form!Clean,
         FormProofs!SaveAnswered, FormProofs!Display, FormProofs!Reset, FormProofs!Clean
<1>10. \A c : Form!Failed(c) => FormProofs!Failed(c)
  BY DEF Form!Failed, FormProofs!Failed
<1> QED
  BY <1>1, <1>2, <1>3, <1>4, <1>5, <1>6, <1>7, <1>8, <1>9, <1>10 DEF Form!Next, FormProofs!Next

-----------------------------------------------------------------------------
\* A behaviour that is about the form keeps its invariant; in the others the
\* form has no state.
FormInv == at = "form" => FormProofs!IInv

LEMMA InitForm == Init => FormInv
BY SameInit, FormProofs!InitInv DEF Init, FormInv

LEMMA StepForm == FormInv /\ [Next]_vars => FormInv'
<1> SUFFICES ASSUME at = "form", FormProofs!IInv, [Next]_vars
             PROVE  at' = "form" /\ FormProofs!IInv'
  BY DEF FormInv, Next, TrainerStep, UsersStep, EditorStep, BoardStep, FormStep, AnalysisStep,
         SessionStep, vars
<1>1. CASE FormStep
  BY <1>1, SameSteps, FormProofs!NextInv DEF FormStep
<1>2. CASE UNCHANGED vars
  <2>1. UNCHANGED <<fPage, fCache, fCalls, fStore>>
    BY <1>2 DEF vars, formVars
  <2> QED
    BY <1>2, <2>1, FormProofs!NextInv DEF vars, FormProofs!vars
<1> QED
  BY <1>1, <1>2 DEF Next, TrainerStep, UsersStep, EditorStep, BoardStep, AnalysisStep, SessionStep

\* Whatever the console's parts do, saving a section of the settings changes
\* only what was typed in it (SavesOnlyWhatWasTyped).
THEOREM SettingsSafe == Spec => []SavesOnlyWhatWasTyped
<1>1. FormInv => SavesOnlyWhatWasTyped
  BY DEF FormInv, FormProofs!IInv, SavesOnlyWhatWasTyped, Form!SavesOnlyWhatWasTyped,
         FormProofs!SavesOnlyWhatWasTyped
<1> QED
  BY InitForm, StepForm, <1>1, PTL DEF Spec

-----------------------------------------------------------------------------
\* The trainer is the same in both instances of its module.
LEMMA SameTrainerInit == Trainer!Init => TrainerProofs!Init
BY DEF Trainer!Init, Trainer!Fresh, Trainer!Item, Trainer!Unlabelled, Trainer!None, Trainer!ToSet,
       TrainerProofs!Init, TrainerProofs!Fresh, TrainerProofs!Item, TrainerProofs!Unlabelled,
       TrainerProofs!None, TrainerProofs!ToSet

LEMMA SameTrainerSteps ==
  Trainer!Mount \/ Trainer!Unmount \/ Trainer!Next
    => TrainerProofs!Mount \/ TrainerProofs!Unmount \/ TrainerProofs!Next
<1>1. Trainer!StartAttempt => TrainerProofs!StartAttempt
  BY DEF Trainer!StartAttempt, Trainer!CanStart, Trainer!Call, Trainer!Unlabelled,
         Trainer!Introducing, Trainer!Cardinality, Trainer!Item, Trainer!None, Trainer!ToSet,
         TrainerProofs!StartAttempt, TrainerProofs!CanStart, TrainerProofs!Call,
         TrainerProofs!Unlabelled, TrainerProofs!Introducing, TrainerProofs!Cardinality,
         TrainerProofs!Item, TrainerProofs!None, TrainerProofs!ToSet
<1>2. Trainer!doSubmit => TrainerProofs!doSubmit
  BY DEF Trainer!doSubmit, Trainer!CanSubmit, Trainer!Call, Trainer!Labelling,
         Trainer!Unanswered, Trainer!Cardinality, Trainer!Introducing, Trainer!Item,
         Trainer!None, Trainer!ToSet, TrainerProofs!doSubmit, TrainerProofs!CanSubmit,
         TrainerProofs!Call, TrainerProofs!Labelling, TrainerProofs!Unanswered,
         TrainerProofs!Cardinality, TrainerProofs!Introducing, TrainerProofs!Item,
         TrainerProofs!None, TrainerProofs!ToSet
<1>3. Trainer!OpenScenario => TrainerProofs!OpenScenario
  BY DEF Trainer!OpenScenario, Trainer!Usable, Trainer!Goto, Trainer!Fresh, Trainer!Item,
         Trainer!Unlabelled, Trainer!None, Trainer!ToSet, TrainerProofs!OpenScenario,
         TrainerProofs!Usable, TrainerProofs!Goto, TrainerProofs!Fresh, TrainerProofs!Item,
         TrainerProofs!Unlabelled, TrainerProofs!None, TrainerProofs!ToSet
<1>4. Trainer!BackToList => TrainerProofs!BackToList
  BY DEF Trainer!BackToList, Trainer!Goto, Trainer!Fresh, Trainer!Item, Trainer!Unlabelled,
         Trainer!None, Trainer!ToSet, TrainerProofs!BackToList, TrainerProofs!Goto,
         TrainerProofs!Fresh, TrainerProofs!Item, TrainerProofs!Unlabelled, TrainerProofs!None,
         TrainerProofs!ToSet
<1>5. Trainer!Retry => TrainerProofs!Retry
  BY DEF Trainer!Retry, Trainer!Goto, Trainer!Fresh, Trainer!Item, Trainer!Unlabelled,
         Trainer!None, Trainer!ToSet, TrainerProofs!Retry, TrainerProofs!Goto,
         TrainerProofs!Fresh, TrainerProofs!Item, TrainerProofs!Unlabelled, TrainerProofs!None,
         TrainerProofs!ToSet
<1>6. Trainer!LoadResult => TrainerProofs!LoadResult
  BY DEF Trainer!LoadResult, Trainer!Snapshot, TrainerProofs!LoadResult,
         TrainerProofs!Snapshot
<1>7. \A l : Trainer!SetLabel(l) => TrainerProofs!SetLabel(l)
  BY DEF Trainer!SetLabel, Trainer!Shown, Trainer!None, Trainer!CanPick, Trainer!KeepDraft,
         Trainer!Labelling, Trainer!Introducing, TrainerProofs!SetLabel, TrainerProofs!Shown,
         TrainerProofs!None, TrainerProofs!CanPick, TrainerProofs!KeepDraft,
         TrainerProofs!Labelling, TrainerProofs!Introducing
<1>8. \A t : Trainer!Select(t) => TrainerProofs!Select(t)
  BY DEF Trainer!Select, Trainer!Shapes, Trainer!Labelling, Trainer!Shown,
         Trainer!Introducing, TrainerProofs!Select, TrainerProofs!Shapes,
         TrainerProofs!Labelling, TrainerProofs!Shown, TrainerProofs!Introducing
<1>9. \A n : Trainer!GoToItem(n) => TrainerProofs!GoToItem(n)
  BY DEF Trainer!GoToItem, Trainer!Labelling, Trainer!AtItem, Trainer!Introducing,
         Trainer!None, TrainerProofs!GoToItem, TrainerProofs!Labelling, TrainerProofs!AtItem,
         TrainerProofs!Introducing, TrainerProofs!None
<1>10. \A a : Trainer!OpenResult(a) => TrainerProofs!OpenResult(a)
  BY DEF Trainer!OpenResult, Trainer!Goto, Trainer!Fresh, Trainer!Item, Trainer!Unlabelled,
         Trainer!None, Trainer!ToSet, TrainerProofs!OpenResult, TrainerProofs!Goto,
         TrainerProofs!Fresh, TrainerProofs!Item, TrainerProofs!Unlabelled, TrainerProofs!None,
         TrainerProofs!ToSet
<1>11. \A a : Trainer!WriteFeedback(a) => TrainerProofs!WriteFeedback(a)
  BY DEF Trainer!WriteFeedback, TrainerProofs!WriteFeedback
<1>12. \A c : Trainer!ServeStart(c) => TrainerProofs!ServeStart(c)
  BY DEF Trainer!ServeStart, Trainer!Usable, Trainer!Item, Trainer!ToSet,
         TrainerProofs!ServeStart, TrainerProofs!Usable, TrainerProofs!Item, TrainerProofs!ToSet
<1>13. \A c : Trainer!ServeSubmit(c) => TrainerProofs!ServeSubmit(c)
  BY DEF Trainer!ServeSubmit, Trainer!Submittable, Trainer!Grade, Trainer!Item, Trainer!ToSet,
         TrainerProofs!ServeSubmit, TrainerProofs!Submittable, TrainerProofs!Grade,
         TrainerProofs!Item, TrainerProofs!ToSet
<1>14. \A c : Trainer!StartAnswered(c) => TrainerProofs!StartAnswered(c)
  BY DEF Trainer!StartAnswered, Trainer!loadDraft, Trainer!Usable, Trainer!AtItem,
         Trainer!KeepDraft, Trainer!Unlabelled, Trainer!None, Trainer!Item, Trainer!ToSet,
         TrainerProofs!StartAnswered, TrainerProofs!loadDraft, TrainerProofs!Usable,
         TrainerProofs!AtItem, TrainerProofs!KeepDraft, TrainerProofs!Unlabelled,
         TrainerProofs!None, TrainerProofs!Item, TrainerProofs!ToSet
<1>15. \A c : Trainer!SubmitAnswered(c) => TrainerProofs!SubmitAnswered(c)
  BY DEF Trainer!SubmitAnswered, Trainer!Snapshot, Trainer!Restrict, Trainer!Fresh,
         Trainer!Item, Trainer!Unlabelled, Trainer!None, Trainer!ToSet,
         TrainerProofs!SubmitAnswered, TrainerProofs!Snapshot, TrainerProofs!Restrict,
         TrainerProofs!Fresh, TrainerProofs!Item, TrainerProofs!Unlabelled, TrainerProofs!None,
         TrainerProofs!ToSet
<1>16. \A c : Trainer!Failed(c) => TrainerProofs!Failed(c)
  BY DEF Trainer!Failed, TrainerProofs!Failed
<1>17. \A i, t : Trainer!EditScenario(i, t) => TrainerProofs!EditScenario(i, t)
  BY DEF Trainer!EditScenario, TrainerProofs!EditScenario
<1>18. Trainer!Mount => TrainerProofs!Mount
  BY DEF Trainer!Mount, Trainer!Goto, Trainer!Fresh, Trainer!Item, Trainer!Unlabelled,
         Trainer!None, Trainer!ToSet, TrainerProofs!Mount, TrainerProofs!Goto,
         TrainerProofs!Fresh, TrainerProofs!Item, TrainerProofs!Unlabelled, TrainerProofs!None,
         TrainerProofs!ToSet
<1>19. Trainer!Unmount => TrainerProofs!Unmount
  BY DEF Trainer!Unmount, Trainer!Goto, Trainer!Fresh, Trainer!Item, Trainer!Unlabelled,
         Trainer!None, Trainer!ToSet, TrainerProofs!Unmount, TrainerProofs!Goto,
         TrainerProofs!Fresh, TrainerProofs!Item, TrainerProofs!Unlabelled, TrainerProofs!None,
         TrainerProofs!ToSet
<1> QED
  BY <1>1, <1>2, <1>3, <1>4, <1>5, <1>6, <1>7, <1>8, <1>9, <1>10, <1>11,
     <1>12, <1>13, <1>14, <1>15, <1>16, <1>17, <1>18, <1>19
     DEF Trainer!Next, Trainer!Item, Trainer!ToSet, TrainerProofs!Next, TrainerProofs!Item,
         TrainerProofs!ToSet

\* Every step of the console changes the attempts in one of the four ways, or
\* leaves them alone: what the trainer does, and what the others do.
LEMMA TrainerAttemptSteps ==
  Trainer!Mount \/ Trainer!Unmount \/ Trainer!Next
    => TrainerProofs!AttemptStep \/ UNCHANGED tAttempts
BY SameTrainerSteps, TrainerProofs!TrainerSteps

\* Whatever the console's parts do, the trainer's attempts are a book whose
\* entries are written once (BookKept).
THEOREM BookSafe == Spec => BookKept
<1> DEFINE book == [a \in DOMAIN tAttempts |-> IF tAttempts[a].status = "open" THEN {} ELSE {tAttempts[a].graded}]
           IsBook == TrainerProofs!IsBook(tAttempts)
<1>1. Init => IsBook /\ book = <<>>
  <2>1. Init => tAttempts = <<>>
    BY DEF Init, NoTrainer, Trainer!Init
  <2> QED
    BY <2>1, TrainerProofs!EmptyBook, TrainerProofs!BookIsEntries
<1>2. IsBook /\ [Next]_vars
        => IsBook' /\ [Trainer!Book!Start \/ \E a \in DOMAIN book : Trainer!Book!Submit(a)]_book
  <2> SUFFICES ASSUME IsBook, [Next]_vars
               PROVE  /\ TrainerProofs!IsBook(tAttempts')
                      /\ [Trainer!Book!Start \/ \E a \in DOMAIN book : Trainer!Book!Submit(a)]_book
    OBVIOUS
  <2>1. TrainerProofs!AttemptStep \/ UNCHANGED tAttempts
    BY TrainerAttemptSteps
       DEF Next, TrainerStep, UsersStep, EditorStep, BoardStep, FormStep, AnalysisStep, SessionStep,
           vars, trainerVars
  <2>2. /\ TrainerProofs!IsBook(tAttempts')
        /\ \/ TrainerProofs!Book!Start
           \/ \E a \in DOMAIN TrainerProofs!Entries(tAttempts) : TrainerProofs!Book!Submit(a)
           \/ TrainerProofs!Entries(tAttempts') = TrainerProofs!Entries(tAttempts)
    BY <2>1, TrainerProofs!StepBook
  <2>3. book = TrainerProofs!Entries(tAttempts) /\ book' = TrainerProofs!Entries(tAttempts')
    BY TrainerProofs!BookIsEntries
  <2>4. TrainerProofs!Book!Start => Trainer!Book!Start
    BY DEF TrainerProofs!Book!Start, Trainer!Book!Start
  <2>5. \A a : TrainerProofs!Book!Submit(a) => Trainer!Book!Submit(a)
    BY DEF TrainerProofs!Book!Submit, Trainer!Book!Submit
  <2> HIDE DEF book
  <2> QED
    BY <2>2, <2>3, <2>4, <2>5
<1> QED
  BY <1>1, <1>2, PTL DEF Spec, BookKept, Trainer!BookKept, Trainer!Book!Spec
-----------------------------------------------------------------------------
\* A behaviour that is about the trainer keeps the invariant of its pages.
TrainerInv == at = "trainer" => TrainerProofs!ShownInv

LEMMA InitTrainer == Init => TrainerInv
BY PeopleAssumption, SameTrainerInit, TrainerProofs!InitShown DEF Init, TrainerInv

LEMMA StepTrainer == TrainerInv /\ [Next]_vars => TrainerInv'
<1> SUFFICES ASSUME at = "trainer", TrainerProofs!ShownInv, [Next]_vars
             PROVE  at' = "trainer" /\ TrainerProofs!ShownInv'
  BY DEF TrainerInv, Next, TrainerStep, UsersStep, EditorStep, BoardStep, FormStep, AnalysisStep,
         SessionStep, vars
<1>1. CASE TrainerStep
  BY <1>1, SameTrainerSteps, TrainerProofs!NextShown DEF TrainerStep
<1>2. CASE UNCHANGED vars
  <2>1. UNCHANGED <<tPage, tDrafts, tCache, tCalls, tAttempts, tScenario>>
    BY <1>2 DEF vars, trainerVars
  <2> QED
    BY <1>2, <2>1, TrainerProofs!NextShown DEF vars, TrainerProofs!vars
<1> QED
  BY <1>1, <1>2 DEF Next, UsersStep, EditorStep, BoardStep, FormStep, AnalysisStep, SessionStep

\* Whatever the console's parts do, a trainee loses no target that was shown
\* to the submission of an incomplete attempt (UnansweredWasNotShown).
THEOREM NothingShownLost == Spec => []UnansweredWasNotShown
<1>1. TrainerInv => UnansweredWasNotShown
  BY DEF TrainerInv, TrainerProofs!ShownInv, TrainerProofs!UnansweredWasNotShown,
         UnansweredWasNotShown, Trainer!UnansweredWasNotShown,
         Trainer!Item, Trainer!None, Trainer!ToSet,
         TrainerProofs!Item, TrainerProofs!None, TrainerProofs!ToSet
<1> QED
  BY InitTrainer, StepTrainer, <1>1, PTL DEF Spec

-----------------------------------------------------------------------------
\* The analysis page and its jobs are the same in both instances of their
\* module.
LEMMA SameAnalysisInit == Analysis!Init => AnalysisProofs!Init
BY DEF Analysis!Init, Analysis!Idle, Analysis!None, Analysis!Media,
       AnalysisProofs!Init, AnalysisProofs!Idle, AnalysisProofs!None, AnalysisProofs!Media

LEMMA SameAnalysisSteps ==
  Analysis!Mount \/ Analysis!Unmount \/ Analysis!Next
    => AnalysisProofs!Mount \/ AnalysisProofs!Unmount \/ AnalysisProofs!Next
<1>1. Analysis!pick => AnalysisProofs!pick
  BY DEF Analysis!pick, AnalysisProofs!pick
<1>2. Analysis!StartUpload => AnalysisProofs!StartUpload
  BY DEF Analysis!StartUpload, Analysis!Idle, Analysis!None, AnalysisProofs!StartUpload,
         AnalysisProofs!Idle, AnalysisProofs!None
<1>3. Analysis!UploadAnswered => AnalysisProofs!UploadAnswered
  BY DEF Analysis!UploadAnswered, Analysis!Idle, Analysis!None, AnalysisProofs!UploadAnswered,
         AnalysisProofs!Idle, AnalysisProofs!None
<1>4. Analysis!UploadFails => AnalysisProofs!UploadFails
  BY DEF Analysis!UploadFails, Analysis!None, Analysis!Idle, AnalysisProofs!UploadFails,
         AnalysisProofs!None, AnalysisProofs!Idle
<1>5. Analysis!LoadUploads => AnalysisProofs!LoadUploads
  BY DEF Analysis!LoadUploads, AnalysisProofs!LoadUploads
<1>6. Analysis!Accept => AnalysisProofs!Accept
  BY DEF Analysis!Accept, AnalysisProofs!Accept
<1>7. Analysis!StartJob => AnalysisProofs!StartJob
  BY DEF Analysis!StartJob, Analysis!Cardinality, AnalysisProofs!StartJob,
         AnalysisProofs!Cardinality
<1>8. Analysis!Restart => AnalysisProofs!Restart
  BY DEF Analysis!Restart, Analysis!Resumed, Analysis!Idle, Analysis!SetToSeqs,
         Analysis!Cardinality, Analysis!resume_pending, Analysis!None, Analysis!Pending, AnalysisProofs!Restart,
         AnalysisProofs!Resumed, AnalysisProofs!Idle, AnalysisProofs!SetToSeqs,
         AnalysisProofs!Cardinality, AnalysisProofs!resume_pending, AnalysisProofs!None, AnalysisProofs!Pending
<1>9. \A ok : Analysis!UploadExpired(ok) => AnalysisProofs!UploadExpired(ok)
  BY DEF Analysis!UploadExpired, Analysis!Idle, Analysis!None, AnalysisProofs!UploadExpired,
         AnalysisProofs!Idle, AnalysisProofs!None
<1>10. \A m : Analysis!Select(m) => AnalysisProofs!Select(m)
  BY DEF Analysis!Select, Analysis!Items, Analysis!ToSet, AnalysisProofs!Select,
         AnalysisProofs!Items, AnalysisProofs!ToSet
<1>11. \A m : Analysis!Poll(m) => AnalysisProofs!Poll(m)
  BY DEF Analysis!Poll, Analysis!Items, Analysis!Over, Analysis!ToSet, AnalysisProofs!Poll,
         AnalysisProofs!Items, AnalysisProofs!Over, AnalysisProofs!ToSet
<1>12. \A m : Analysis!LoadDetections(m) => AnalysisProofs!LoadDetections(m)
  BY DEF Analysis!LoadDetections, Analysis!Current, Analysis!ready, Analysis!Items,
         Analysis!Max, Analysis!ToSet, AnalysisProofs!LoadDetections, AnalysisProofs!Current,
         AnalysisProofs!ready, AnalysisProofs!Items, AnalysisProofs!Max, AnalysisProofs!ToSet
<1>13. \A m : Analysis!enqueue(m) => AnalysisProofs!enqueue(m)
  BY DEF Analysis!enqueue, AnalysisProofs!enqueue
<1>14. \A m : Analysis!Sample(m) => AnalysisProofs!Sample(m)
  BY DEF Analysis!Sample, AnalysisProofs!Sample
<1>15. \A m : Analysis!Finish(m) => AnalysisProofs!Finish(m)
  BY DEF Analysis!Finish, Analysis!End, AnalysisProofs!Finish, AnalysisProofs!End
<1>16. \A m : Analysis!FailJob(m) => AnalysisProofs!FailJob(m)
  BY DEF Analysis!FailJob, Analysis!End, AnalysisProofs!FailJob, AnalysisProofs!End
<1>17. \A m : Analysis!CrashJob(m) => AnalysisProofs!CrashJob(m)
  BY DEF Analysis!CrashJob, AnalysisProofs!CrashJob
<1>18. Analysis!Mount => AnalysisProofs!Mount
  BY DEF Analysis!Mount, AnalysisProofs!Mount
<1>19. Analysis!Unmount => AnalysisProofs!Unmount
  BY DEF Analysis!Unmount, AnalysisProofs!Unmount
<1> QED
  BY <1>1, <1>2, <1>3, <1>4, <1>5, <1>6, <1>7, <1>8, <1>9, <1>10, <1>11,
     <1>12, <1>13, <1>14, <1>15, <1>16, <1>17, <1>18, <1>19
     DEF Analysis!Next, AnalysisProofs!Next

\* A behaviour that is about the analysis keeps the invariant of its module.
AnalysisInv == at = "analysis" => AnalysisProofs!IInv

LEMMA InitAnalysis == Init => AnalysisInv
BY SameAnalysisInit, AnalysisProofs!InitInv DEF Init, AnalysisInv

LEMMA StepAnalysis == AnalysisInv /\ [Next]_vars => AnalysisInv'
<1> SUFFICES ASSUME at = "analysis", AnalysisProofs!IInv, [Next]_vars
             PROVE  at' = "analysis" /\ AnalysisProofs!IInv'
  BY DEF AnalysisInv, Next, TrainerStep, UsersStep, EditorStep, BoardStep, FormStep, AnalysisStep,
         SessionStep, vars
<1>1. MaxMedia \in Nat
  BY ConsoleBounds
<1>2. CASE AnalysisStep
  BY <1>1, <1>2, SameAnalysisSteps, AnalysisProofs!StepInv DEF AnalysisStep
<1>3. CASE UNCHANGED vars
  <2>1. UNCHANGED <<aPage, aCache, aUpload, aJobs, aQueue, aBreaks>>
    BY <1>3 DEF vars, analysisVars
  <2> QED
    BY <1>1, <1>3, <2>1, AnalysisProofs!StepInv DEF vars, AnalysisProofs!vars
<1> QED
  BY <1>2, <1>3 DEF Next, TrainerStep, UsersStep, EditorStep, BoardStep, FormStep, SessionStep

\* Whatever the console's parts do, every accepted file that is not over has
\* one place in the process (NoJobLost).
THEOREM JobsKept == Spec => []NoJobLost
<1>1. AnalysisInv => NoJobLost
  BY AnalysisProofs!JobsHavePlaces
     DEF AnalysisInv, NoJobLost, Analysis!NoJobLost, Analysis!Places, Analysis!Pending,
         Analysis!Cardinality, AnalysisProofs!NoJobLost, AnalysisProofs!Places,
         AnalysisProofs!Pending, AnalysisProofs!Cardinality
<1> QED
  BY InitAnalysis, StepAnalysis, <1>1, PTL DEF Spec

\* Whatever the console's parts do, the viewer shows only what is final
\* (ShownIsFinal).
THEOREM OnlyFinalShown == Spec => []ShownIsFinal
<1>1. AnalysisInv => ShownIsFinal
  <2>1. MaxMedia \in Nat
    BY ConsoleBounds
  <2>2. AnalysisProofs!Shown = Analysis!Shown
  BY DEF Analysis!Shown, Analysis!Current, Analysis!Items, Analysis!ready, Analysis!Max,
           Analysis!ToSet, AnalysisProofs!Shown, AnalysisProofs!Current, AnalysisProofs!Items,
           AnalysisProofs!ready, AnalysisProofs!Max, AnalysisProofs!ToSet
  <2> QED
    BY <2>1, <2>2, AnalysisProofs!DoneIsShown
       DEF AnalysisInv, ShownIsFinal, Analysis!ShownIsFinal, AnalysisProofs!ShownIsFinal
<1> QED
  BY InitAnalysis, StepAnalysis, <1>1, PTL DEF Spec
-----------------------------------------------------------------------------
\* The scenario editor: its page, the labeller in it, and the requests.
PageFields     == {"name", "draft", "fields", "item", "busy", "confirm", "lab"}
LabellerFields == {"key", "base", "gt", "busy", "confirm"}
RequestFields  == {"op", "item", "gt", "base", "seen", "stage", "live"}

\* A labeller starts from the ground truth that its key names.
IsEditorPage(p) ==
  /\ DOMAIN p = PageFields /\ DOMAIN p.lab = LabellerFields
  /\ p.lab.key # <<>> => p.lab.base = p.lab.key[2]

\* What is on screen is the cache's copy c with the administrator's changes.
Labels(p, c) == p.name = "editor" /\ c.exists /\ p.item # 0 => p.lab.base = c.items[p.item]

SavesOf(cs) == \A c \in cs : DOMAIN c = RequestFields /\ (c.op = "save" => c.base = c.seen)

EditorOK == IsEditorPage(ePage) /\ Labels(ePage, eCache) /\ SavesOf(eCalls)

LEMMA LabellerFits ==
  ASSUME NEW i, NEW gt, NEW l, DOMAIN l = LabellerFields, l.key # <<>> => l.base = l.key[2]
  PROVE  /\ DOMAIN Editor!Labeller(i, gt, l) = LabellerFields /\ Editor!Labeller(i, gt, l).base = gt
         /\ Editor!Labeller(i, gt, l).key = <<i, gt>>
BY DEF Editor!Labeller, Editor!Key, Editor!NoLabeller, Editor!Blank, LabellerFields

LEMMA Rendering ==
  ASSUME NEW p, IsEditorPage(p), NEW c
  PROVE  IsEditorPage(Editor!Rendered(p, c)) /\ Labels(Editor!Rendered(p, c), c)
<1>1. DOMAIN Editor!NoLabeller = LabellerFields /\ Editor!NoLabeller.key = <<>>
  BY DEF Editor!NoLabeller, LabellerFields
<1> QED
  BY <1>1, LabellerFits DEF Editor!Rendered, IsEditorPage, Labels, PageFields

LEMMA FreshPage == ASSUME NEW name PROVE IsEditorPage(Editor!Fresh(name))
BY DEF Editor!Fresh, Editor!NoLabeller, Editor!Blank, IsEditorPage, PageFields, LabellerFields

LEMMA Detached == ASSUME NEW cs, SavesOf(cs), NEW ops PROVE SavesOf(Editor!Detach(ops, cs))
<1> SUFFICES ASSUME NEW d \in Editor!Detach(ops, cs)
             PROVE  DOMAIN d = RequestFields /\ (d.op = "save" => d.base = d.seen)
  BY DEF SavesOf
<1>1. PICK c \in cs : d = c \/ d = [c EXCEPT !.live = FALSE]
  BY DEF Editor!Detach
<1>2. DOMAIN c = RequestFields /\ (c.op = "save" => c.base = c.seen)
  BY DEF SavesOf
<1> QED
  BY <1>1, <1>2 DEF RequestFields

LEMMA AllDropped == ASSUME NEW cs, SavesOf(cs) PROVE SavesOf({[c EXCEPT !.live = FALSE] : c \in cs})
<1> SUFFICES ASSUME NEW c \in cs
             PROVE  /\ DOMAIN [c EXCEPT !.live = FALSE] = RequestFields
                    /\ [c EXCEPT !.live = FALSE].op = "save"
                         => [c EXCEPT !.live = FALSE].base = [c EXCEPT !.live = FALSE].seen
  BY DEF SavesOf
<1>1. DOMAIN c = RequestFields /\ (c.op = "save" => c.base = c.seen)
  BY DEF SavesOf
<1> QED
  BY <1>1 DEF RequestFields

\* What is displayed is rendered from a page, and saves what the page had.
LEMMA Displayed ==
  ASSUME NEW p, IsEditorPage(p), NEW cs, SavesOf(cs), eCache' = eCache, Editor!Display(p, eCache, cs)
  PROVE  EditorOK'
<1>1. ePage' = Editor!Rendered(p, eCache) /\ eCalls' \in {cs, Editor!Detach({"save", "delItem"}, cs)}
  BY DEF Editor!Display
<1>2. PICK q : q = eCache
  OBVIOUS
<1>3. IsEditorPage(Editor!Rendered(p, q)) /\ Labels(Editor!Rendered(p, q), q)
  BY Rendering
<1>4. SavesOf(Editor!Detach({"save", "delItem"}, cs))
  BY Detached
<1>5. SavesOf(eCalls')
  BY <1>1, <1>4
<1> QED
  BY <1>1, <1>2, <1>3, <1>5 DEF EditorOK

LEMMA Pressed == ASSUME EditorOK, NEW p, IsEditorPage(p), Editor!Press(p) PROVE EditorOK'
<1>1. Editor!Display(p, eCache, eCalls) /\ eCache' = eCache
  BY DEF Editor!Press
<1> QED
  BY <1>1, Displayed DEF EditorOK

LEMMA Sent ==
  ASSUME EditorOK, NEW p, IsEditorPage(p), NEW c, SavesOf({c}), Editor!Send(p, c)
  PROVE  EditorOK'
<1>1. PICK cs : cs = eCalls \cup {c}
  OBVIOUS
<1>2. Editor!Display(p, eCache, cs) /\ eCache' = eCache
  BY <1>1 DEF Editor!Send
<1>3. SavesOf(cs)
  BY <1>1 DEF EditorOK, SavesOf
<1> QED
  BY <1>2, <1>3, Displayed DEF EditorOK

LEMMA ARequest ==
  ASSUME NEW op
  PROVE  DOMAIN Editor!Request(op) = RequestFields /\ Editor!Request(op).op = op
BY DEF Editor!Request, RequestFields

\* What the administrator does on the page without the server.
LEMMA PressSteps ==
  ASSUME EditorOK,
         \/ Editor!NewScenario \/ Editor!CloseDraft \/ Editor!SetField \/ Editor!AskDeleteScenario
         \/ Editor!AskDeleteItem \/ Editor!Cancel \/ \E i : Editor!PickItem(i)
         \/ Editor!DrawTarget \/ \E n : Editor!applyGrid(n) \/ Editor!RemoveTarget(n)
         \/ \E w : Editor!Reword(w)
  PROVE  EditorOK'
<1>1. DOMAIN ePage = PageFields /\ DOMAIN ePage.lab = LabellerFields /\ IsEditorPage(ePage)
  BY DEF EditorOK, IsEditorPage
<1>2. CASE Editor!NewScenario
  <2>1. PICK p : p = [ePage EXCEPT !.draft = "empty"]
    OBVIOUS
  <2>2. Editor!Press(p)
    BY <1>2, <2>1 DEF Editor!NewScenario
  <2>3. IsEditorPage(p)
    BY <1>1, <2>1 DEF IsEditorPage, PageFields, LabellerFields
  <2> QED
    BY <2>2, <2>3, Pressed
<1>3. CASE Editor!CloseDraft
  <2>1. PICK p : p = [ePage EXCEPT !.draft = Editor!None]
    OBVIOUS
  <2>2. Editor!Press(p)
    BY <1>3, <2>1 DEF Editor!CloseDraft
  <2>3. IsEditorPage(p)
    BY <1>1, <2>1 DEF IsEditorPage, PageFields, LabellerFields
  <2> QED
    BY <2>2, <2>3, Pressed
<1>4. CASE Editor!SetField
  <2>1. PICK p : p = [ePage EXCEPT !.draft = "typed"]
    OBVIOUS
  <2>2. Editor!Press(p)
    BY <1>4, <2>1 DEF Editor!SetField
  <2>3. IsEditorPage(p)
    BY <1>1, <2>1 DEF IsEditorPage, PageFields, LabellerFields
  <2> QED
    BY <2>2, <2>3, Pressed
<1>5. CASE Editor!AskDeleteScenario
  <2>1. PICK p : p = [ePage EXCEPT !.confirm = TRUE]
    OBVIOUS
  <2>2. Editor!Press(p)
    BY <1>5, <2>1 DEF Editor!AskDeleteScenario
  <2>3. IsEditorPage(p)
    BY <1>1, <2>1 DEF IsEditorPage, PageFields, LabellerFields
  <2> QED
    BY <2>2, <2>3, Pressed
<1>6. CASE Editor!AskDeleteItem
  <2>1. PICK p : p = [ePage EXCEPT !.lab.confirm = TRUE]
    OBVIOUS
  <2>2. Editor!Press(p)
    BY <1>6, <2>1 DEF Editor!AskDeleteItem
  <2>3. IsEditorPage(p)
    BY <1>1, <2>1 DEF IsEditorPage, PageFields, LabellerFields
  <2> QED
    BY <2>2, <2>3, Pressed
<1>7. CASE Editor!Cancel
  <2>1. PICK p : p = [ePage EXCEPT !.confirm = FALSE, !.lab.confirm = FALSE]
    OBVIOUS
  <2>2. Editor!Press(p)
    BY <1>7, <2>1 DEF Editor!Cancel
  <2>3. IsEditorPage(p)
    BY <1>1, <2>1 DEF IsEditorPage, PageFields, LabellerFields
  <2> QED
    BY <2>2, <2>3, Pressed
<1>8. ASSUME NEW i, Editor!PickItem(i) PROVE EditorOK'
  <2>1. PICK p : p = [ePage EXCEPT !.item = i]
    OBVIOUS
  <2>2. Editor!Press(p)
    BY <1>8, <2>1 DEF Editor!PickItem
  <2>3. IsEditorPage(p)
    BY <1>1, <2>1 DEF IsEditorPage, PageFields
  <2> QED
    BY <2>2, <2>3, Pressed
<1>9. ASSUME NEW gt, Editor!Draw(gt) PROVE EditorOK'
  <2>1. PICK p : p = [ePage EXCEPT !.lab.gt = gt]
    OBVIOUS
  <2>2. Editor!Press(p)
    BY <1>9, <2>1 DEF Editor!Draw
  <2>3. IsEditorPage(p)
    BY <1>1, <2>1 DEF IsEditorPage, PageFields, LabellerFields
  <2> QED
    BY <2>2, <2>3, Pressed
<1>10. CASE Editor!DrawTarget
  <2>1. PICK gt : gt = [ePage.lab.gt EXCEPT !.ids = ePage.lab.gt.ids \cup {Editor!nextId(ePage.lab.gt.ids)}]
    OBVIOUS
  <2>2. Editor!Draw(gt)
    BY <1>10, <2>1 DEF Editor!DrawTarget
  <2> QED
    BY <1>9, <2>2
<1>11. ASSUME NEW n, Editor!applyGrid(n) PROVE EditorOK'
  <2>1. PICK gt : gt = [ePage.lab.gt EXCEPT !.ids = 1..n]
    OBVIOUS
  <2>2. Editor!Draw(gt)
    BY <1>11, <2>1 DEF Editor!applyGrid
  <2> QED
    BY <1>9, <2>2
<1>12. ASSUME NEW i, Editor!RemoveTarget(i) PROVE EditorOK'
  <2>1. PICK gt : gt = [ePage.lab.gt EXCEPT !.ids = @ \ {i}]
    OBVIOUS
  <2>2. Editor!Draw(gt)
    BY <1>12, <2>1 DEF Editor!RemoveTarget
  <2> QED
    BY <1>9, <2>2
<1>13. ASSUME NEW w, Editor!Reword(w) PROVE EditorOK'
  <2>1. PICK gt : gt = [ePage.lab.gt EXCEPT !.words = w]
    OBVIOUS
  <2>2. Editor!Draw(gt)
    BY <1>13, <2>1 DEF Editor!Reword
  <2> QED
    BY <1>9, <2>2
<1> QED
  BY <1>2, <1>3, <1>4, <1>5, <1>6, <1>7, <1>8, <1>10, <1>11, <1>12, <1>13

\* What it sends.  What is saved is the labeller's, of which the page has the
\* cache's copy.
LEMMA SendSteps ==
  ASSUME EditorOK,
         \/ Editor!CreateScenario \/ Editor!SaveFields \/ Editor!Upload \/ Editor!DeleteScenario
         \/ Editor!SaveItem \/ Editor!DeleteItem
  PROVE  EditorOK'
<1>1. DOMAIN ePage = PageFields /\ DOMAIN ePage.lab = LabellerFields /\ IsEditorPage(ePage)
  BY DEF EditorOK, IsEditorPage
<1>2. CASE Editor!CreateScenario
  <2>1. PICK p : p = [ePage EXCEPT !.busy = @ \cup {"create"}]
    OBVIOUS
  <2>2. PICK c : c = Editor!Request("create")
    OBVIOUS
  <2>3. Editor!Send(p, c)
    BY <1>2, <2>1, <2>2 DEF Editor!CreateScenario
  <2>4. IsEditorPage(p)
    BY <1>1, <2>1 DEF IsEditorPage, PageFields, LabellerFields
  <2>6. SavesOf({c})
    BY <2>2, ARequest DEF SavesOf, RequestFields
  <2> QED
    BY <2>3, <2>4, <2>6, Sent
<1>3. CASE Editor!SaveFields
  <2>1. PICK p : p = [ePage EXCEPT !.busy = @ \cup {"update"}]
    OBVIOUS
  <2>2. PICK c : c = Editor!Request("update")
    OBVIOUS
  <2>3. Editor!Send(p, c)
    BY <1>3, <2>1, <2>2 DEF Editor!SaveFields
  <2>4. IsEditorPage(p)
    BY <1>1, <2>1 DEF IsEditorPage, PageFields, LabellerFields
  <2>6. SavesOf({c})
    BY <2>2, ARequest DEF SavesOf, RequestFields
  <2> QED
    BY <2>3, <2>4, <2>6, Sent
<1>4. CASE Editor!Upload
  <2>1. PICK p : p = ePage
    OBVIOUS
  <2>2. PICK c : c = Editor!Request("upload")
    OBVIOUS
  <2>3. Editor!Send(p, c)
    BY <1>4, <2>1, <2>2 DEF Editor!Upload
  <2>4. IsEditorPage(p)
    BY <1>1, <2>1 DEF IsEditorPage, PageFields, LabellerFields
  <2>6. SavesOf({c})
    BY <2>2, ARequest DEF SavesOf, RequestFields
  <2> QED
    BY <2>3, <2>4, <2>6, Sent
<1>5. CASE Editor!DeleteScenario
  <2>1. PICK p : p = [ePage EXCEPT !.busy = @ \cup {"delete"}]
    OBVIOUS
  <2>2. PICK c : c = Editor!Request("delete")
    OBVIOUS
  <2>3. Editor!Send(p, c)
    BY <1>5, <2>1, <2>2 DEF Editor!DeleteScenario
  <2>4. IsEditorPage(p)
    BY <1>1, <2>1 DEF IsEditorPage, PageFields, LabellerFields
  <2>6. SavesOf({c})
    BY <2>2, ARequest DEF SavesOf, RequestFields
  <2> QED
    BY <2>3, <2>4, <2>6, Sent
<1>6. CASE Editor!DeleteItem
  <2>1. PICK p : p = [ePage EXCEPT !.lab.busy = @ \cup {"delItem"}]
    OBVIOUS
  <2>2. PICK c : c = [Editor!Request("delItem") EXCEPT !.item = ePage.item]
    OBVIOUS
  <2>3. Editor!Send(p, c)
    BY <1>6, <2>1, <2>2 DEF Editor!DeleteItem
  <2>4. IsEditorPage(p)
    BY <1>1, <2>1 DEF IsEditorPage, PageFields, LabellerFields
  <2>6. SavesOf({c})
    BY <2>2, ARequest DEF SavesOf, RequestFields
  <2> QED
    BY <2>3, <2>4, <2>6, Sent
<1>7. CASE Editor!SaveItem
  <2>1. PICK p : p = [ePage EXCEPT !.lab.busy = @ \cup {"save"}]
    OBVIOUS
  <2>2. PICK c : c = [Editor!Request("save") EXCEPT !.item = ePage.item, !.gt = ePage.lab.gt,
                         !.base = ePage.lab.base, !.seen = eCache.items[ePage.item]]
    OBVIOUS
  <2>3. Editor!Send(p, c)
    BY <1>7, <2>1, <2>2 DEF Editor!SaveItem
  <2>4. IsEditorPage(p)
    BY <1>1, <2>1 DEF IsEditorPage, PageFields, LabellerFields
  <2>5. ePage.lab.base = eCache.items[ePage.item]
    BY <1>7 DEF EditorOK, Labels, Editor!SaveItem, Editor!HasItem, Editor!Editing, Editor!Shown
  <2>6. SavesOf({c})
    BY <2>2, ARequest, <2>5 DEF SavesOf, RequestFields
  <2> QED
    BY <2>3, <2>4, <2>6, Sent
<1> QED
  BY <1>2, <1>3, <1>4, <1>5, <1>6, <1>7

\* What the server does changes neither the page nor what is to be saved.
LEMMA ServeSteps ==
  ASSUME EditorOK,
         NEW c, NEW op, NEW after, Editor!Serve(c, op, after)
  PROVE  EditorOK'
<1>1. PICK d : d = [c EXCEPT !.stage = "done", !.item = IF op = "upload" THEN eStore'.made ELSE @]
  OBVIOUS
<1>2. c \in eCalls /\ ePage' = ePage /\ eCache' = eCache /\ eCalls' = (eCalls \ {c}) \cup {d}
  BY <1>1 DEF Editor!Serve
<1>3. DOMAIN c = RequestFields /\ (c.op = "save" => c.base = c.seen)
  BY <1>2 DEF EditorOK, SavesOf
<1>4. DOMAIN d = RequestFields /\ (d.op = "save" => d.base = d.seen)
  BY <1>1, <1>3 DEF RequestFields
<1> QED
  BY <1>2, <1>4 DEF EditorOK, SavesOf

LEMMA ServerSteps ==
  ASSUME EditorOK, NEW c,
         \/ Editor!ServeCreate(c) \/ Editor!ServeUpdate(c) \/ Editor!ServeUpload(c)
         \/ Editor!ServeSave(c) \/ Editor!ServeDeleteItem(c) \/ Editor!ServeDelete(c)
  PROVE  EditorOK'
<1>1. \E op, after : Editor!Serve(c, op, after)
  BY DEF Editor!ServeCreate, Editor!ServeUpdate, Editor!ServeUpload, Editor!ServeSave,
     Editor!ServeDeleteItem, Editor!ServeDelete
<1> QED
  BY <1>1, ServeSteps

LEMMA IdlePage ==
  ASSUME NEW p, IsEditorPage(p), NEW c
  PROVE  IsEditorPage(Editor!Idle(p, c))
BY DEF Editor!Idle, IsEditorPage, PageFields, LabellerFields

LEMMA Gone == 
  ASSUME EditorOK, NEW cs, SavesOf(cs), NEW p, IsEditorPage(p), Editor!Goto(p, cs)
  PROVE  EditorOK'
<1>1. ePage' = Editor!Rendered(p, eCache) /\ eCache' = eCache /\ eCalls' = {[c EXCEPT !.live = FALSE] : c \in cs}
  BY DEF Editor!Goto
<1>2. PICK q : q = eCache
  OBVIOUS
<1>3. IsEditorPage(Editor!Rendered(p, q)) /\ Labels(Editor!Rendered(p, q), q)
  BY Rendering
<1>4. SavesOf({[c EXCEPT !.live = FALSE] : c \in cs})
  BY AllDropped
<1>5. SavesOf(eCalls')
  BY <1>1, <1>4
<1> QED
  BY <1>1, <1>2, <1>3, <1>5 DEF EditorOK

\* Another copy in the cache is rendered at once.
LEMMA Loaded ==
  ASSUME EditorOK, NEW p, IsEditorPage(p), NEW cs, SavesOf(cs), Editor!Display(p, eCache', cs)
  PROVE  EditorOK'
<1>1. ePage' = Editor!Rendered(p, eCache') /\ eCalls' \in {cs, Editor!Detach({"save", "delItem"}, cs)}
  BY DEF Editor!Display
<1>2. PICK q : q = eCache'
  OBVIOUS
<1>3. IsEditorPage(Editor!Rendered(p, q)) /\ Labels(Editor!Rendered(p, q), q)
  BY Rendering
<1>4. SavesOf(Editor!Detach({"save", "delItem"}, cs))
  BY Detached
<1>5. SavesOf(eCalls')
  BY <1>1, <1>4
<1> QED
  BY <1>1, <1>2, <1>3, <1>5 DEF EditorOK

LEMMA AnswerSteps ==
  ASSUME EditorOK, NEW c,
         Editor!Answered(c) \/ Editor!Failed(c) \/ \E loaded : Editor!UploadAnswered(c, loaded)
  PROVE  EditorOK'
<1>1. IsEditorPage(ePage) /\ SavesOf(eCalls)
  BY DEF EditorOK
<1>2. PICK cs : cs = eCalls \ {c}
  OBVIOUS
<1>3. SavesOf(cs)
  BY <1>1, <1>2 DEF SavesOf
<1>4. PICK idle : idle = Editor!Idle(ePage, c)
  OBVIOUS
<1>5. IsEditorPage(idle)
  <2>1. PICK p : p = ePage
    OBVIOUS
  <2> QED
    BY <1>1, <1>4, <2>1, IdlePage
<1>6. CASE Editor!Failed(c)
  <2>1. PICK p : p = IF c.live THEN idle ELSE ePage
    OBVIOUS
  <2>2. Editor!Display(p, eCache, cs) /\ eCache' = eCache
    BY <1>2, <1>4, <1>6, <2>1 DEF Editor!Failed
  <2>3. IsEditorPage(p)
    BY <1>1, <1>5, <2>1
  <2> QED
    BY <1>3, <2>2, <2>3, Displayed
<1>7. CASE Editor!Answered(c)
  <2>1. CASE c.op = "create" /\ c.live
    <3>1. PICK p : p = Editor!Fresh("editor")
      OBVIOUS
    <3>2. Editor!Goto(p, cs)
      BY <1>2, <1>7, <2>1, <3>1 DEF Editor!Answered
    <3> QED
      BY <1>3, <3>1, <3>2, FreshPage, Gone
  <2>2. CASE c.op = "delete" /\ c.live
    <3>1. PICK p : p = Editor!Fresh("list")
      OBVIOUS
    <3>2. Editor!Goto(p, cs)
      BY <1>2, <1>7, <2>2, <3>1 DEF Editor!Answered
    <3> QED
      BY <1>3, <3>1, <3>2, FreshPage, Gone
  <2>3. CASE c.op = "delItem" /\ c.live
    <3>1. PICK p : p = [idle EXCEPT !.lab.confirm = FALSE]
      OBVIOUS
    <3>2. Editor!Display(p, eCache, cs) /\ eCache' = eCache
      BY <1>2, <1>4, <1>7, <2>3, <3>1 DEF Editor!Answered
    <3>3. IsEditorPage(p)
      BY <1>5, <3>1 DEF IsEditorPage, PageFields, LabellerFields
    <3> QED
      BY <1>3, <3>2, <3>3, Displayed
  <2>4. CASE ~(c.op \in {"create", "delete", "delItem"} /\ c.live)
    <3>1. PICK p : p = IF c.live THEN idle ELSE ePage
      OBVIOUS
    <3>2. Editor!Display(p, eCache, cs) /\ eCache' = eCache
      BY <1>2, <1>4, <1>7, <2>4, <3>1 DEF Editor!Answered
    <3>3. IsEditorPage(p)
      BY <1>1, <1>5, <3>1
    <3> QED
      BY <1>3, <3>2, <3>3, Displayed
  <2> QED
    BY <2>1, <2>2, <2>3, <2>4
<1>8. ASSUME NEW loaded, Editor!UploadAnswered(c, loaded) PROVE EditorOK'
  <2>1. PICK p : p = [ePage EXCEPT !.item = c.item]
    OBVIOUS
  <2>2. Editor!Display(p, eCache', cs)
    BY <1>2, <1>8, <2>1 DEF Editor!UploadAnswered
  <2>3. IsEditorPage(p)
    BY <1>1, <2>1 DEF IsEditorPage, PageFields
  <2> QED
    BY <1>3, <2>2, <2>3, Loaded
<1> QED
  BY <1>6, <1>7, <1>8

LEMMA RouteSteps ==
  ASSUME EditorOK,
         Editor!OpenEditor \/ Editor!BackToList \/ Editor!Mount \/ Editor!Unmount \/ Editor!Reload
  PROVE  EditorOK'
<1>1. IsEditorPage(ePage) /\ SavesOf(eCalls)
  BY DEF EditorOK
<1>2. CASE Editor!Reload
  <2>1. PICK p : p = ePage
    OBVIOUS
  <2>2. PICK cs : cs = eCalls
    OBVIOUS
  <2>3. Editor!Display(p, eCache', cs)
    BY <1>2, <2>1, <2>2 DEF Editor!Reload
  <2> QED
    BY <1>1, <2>1, <2>2, <2>3, Loaded
<1>3. CASE Editor!OpenEditor \/ Editor!BackToList \/ Editor!Mount \/ Editor!Unmount
  <2>1. PICK cs : cs = eCalls
    OBVIOUS
  <2>2. PICK name \in {"editor", "list", "off"} : Editor!Goto(Editor!Fresh(name), cs)
    BY <1>3, <2>1 DEF Editor!OpenEditor, Editor!BackToList, Editor!Mount, Editor!Unmount
  <2>3. PICK p : p = Editor!Fresh(name)
    OBVIOUS
  <2> QED
    BY <1>1, <2>1, <2>2, <2>3, FreshPage, Gone
<1> QED
  BY <1>2, <1>3

LEMMA EditorSteps == ASSUME EditorOK, Editor!Mount \/ Editor!Unmount \/ Editor!Next PROVE EditorOK'
<1>1. CASE Editor!Mount \/ Editor!Unmount
  BY <1>1, RouteSteps
<1>2. ASSUME NEW i, NEW w, Editor!RewordElsewhere(i, w) PROVE EditorOK'
  BY <1>2 DEF Editor!RewordElsewhere, EditorOK
<1>3. CASE Editor!Next
  BY <1>2, <1>3, PressSteps, SendSteps, ServerSteps, AnswerSteps, RouteSteps DEF Editor!Next
<1> QED
  BY <1>1, <1>3

LEMMA EditorInit == Editor!Init => EditorOK
<1> SUFFICES ASSUME Editor!Init PROVE EditorOK
  OBVIOUS
<1>1. ePage = Editor!Fresh("off") /\ eCalls = {}
  BY DEF Editor!Init
<1>2. IsEditorPage(ePage)
  BY <1>1, FreshPage
<1>3. ePage.name = "off"
  BY <1>1 DEF Editor!Fresh
<1> QED
  BY <1>1, <1>2, <1>3 DEF EditorOK, Labels, SavesOf

\* A behaviour that is about the editor keeps what holds of it.
EditorInv == at = "editor" => EditorOK

LEMMA InitEditor == Init => EditorInv
BY EditorInit DEF Init, EditorInv

LEMMA StepEditor == EditorInv /\ [Next]_vars => EditorInv'
<1> SUFFICES ASSUME at = "editor", EditorOK, [Next]_vars PROVE EditorOK'
  BY DEF EditorInv, Next, TrainerStep, UsersStep, EditorStep, BoardStep, FormStep, AnalysisStep,
         SessionStep, vars
<1>1. CASE EditorStep
  BY <1>1, EditorSteps DEF EditorStep
<1>2. CASE UNCHANGED vars
  BY <1>2 DEF vars, editorVars, EditorOK
<1> QED
  BY <1>1, <1>2 DEF Next, TrainerStep, UsersStep, BoardStep, FormStep, AnalysisStep, SessionStep

\* Whatever the console's parts do, and whatever another administrator changes
\* meanwhile, a save of ground truth starts from what the page had loaded last
\* (SavesWhatWasLoaded).
THEOREM EditorSafe == Spec => []SavesWhatWasLoaded
<1>1. EditorInv => SavesWhatWasLoaded
  BY DEF EditorInv, EditorOK, SavesOf, SavesWhatWasLoaded, Editor!SavesWhatWasLoaded
<1> QED
  BY InitEditor, StepEditor, <1>1, PTL DEF Spec
-----------------------------------------------------------------------------
\* The users page.
UsersFields   == {"open", "editing", "pending", "secret", "busy"}
CallFields    == {"op", "user", "stage", "password", "live", "mine"}
AccountFields == {"active", "password"}

IsUsersPage(p) == DOMAIN p = UsersFields /\ p.pending[1] \in {"none", "reset", "deactivate"}

IsCall(c) ==
  /\ DOMAIN c = CallFields /\ c.stage \in {"sent", "done"} /\ c.live \in BOOLEAN /\ c.mine \in BOOLEAN
  /\ c.live => c.mine
  /\ c.op = "create" => c.user = NewId

\* A reset of which this page awaits the answer; a call that made a password.
Awaited(c) == c.op = "reset" /\ c.mine
Made(c)    == c.op \in {"create", "reset"} /\ c.stage = "done"

\* The page waits for one reset at a time, and shows what it is answered.
AwaitedOK(c, p) == Awaited(c) => c.live /\ p.open /\ "reset" \in p.busy

\* p is the password of u, or the page has not been told the one that u has.
Fits(u, p, accounts, told) == accounts[u].password = p \/ accounts[u].password \notin told

MadeOK(c, accounts, told, n) ==
  /\ Made(c) => c.password \in 1..n /\ \A u \in Known \ {c.user} : accounts[u].password # c.password
  /\ Made(c) /\ Awaited(c) /\ c.user \in Known => Fits(c.user, c.password, accounts, told)

OneAwaited(cs) == \A c, d \in cs : Awaited(c) /\ Awaited(d) => c = d

AreAccounts(accounts, n) ==
  /\ Known \subseteq DOMAIN accounts
  /\ \A u \in DOMAIN accounts : DOMAIN accounts[u] = AccountFields /\ accounts[u].password \in 0..n

SecretFits(p, accounts, told) == p.secret[1] \in Known => Fits(p.secret[1], p.secret[2], accounts, told)

UsersOK ==
  /\ IsUsersPage(uPage) /\ DOMAIN uMade = {"passwords", "others"} /\ uMade.passwords \in Nat
  /\ AreAccounts(uAccounts, uMade.passwords) /\ uTold \subseteq 1..uMade.passwords
  /\ \A c \in uCalls : IsCall(c) /\ AwaitedOK(c, uPage) /\ MadeOK(c, uAccounts, uTold, uMade.passwords)
  /\ OneAwaited(uCalls) /\ SecretFits(uPage, uAccounts, uTold)

\* d is what is left of call c when callbacks of it are dropped.
Left(d, c) ==
  \/ d = c
  \/ c.op # "reset" /\ d = [c EXCEPT !.live = FALSE]
  \/ d = [c EXCEPT !.live = FALSE, !.mine = FALSE]

LEMMA LeftOf ==
  ASSUME NEW c, IsCall(c), NEW d, Left(d, c)
  PROVE  /\ IsCall(d) /\ d.op = c.op /\ d.user = c.user /\ d.stage = c.stage /\ d.password = c.password
         /\ Awaited(d) => d = c
BY DEF Left, IsCall, CallFields, Awaited

\* Steps by which no password is made and none is told.
LEMMA QuietStep ==
  ASSUME UsersOK, IsUsersPage(uPage'), uAccounts' = uAccounts, uMade' = uMade, uTold' \subseteq uTold,
         \A d \in uCalls' : \E c \in uCalls : Left(d, c),
         \A d \in uCalls' : Awaited(d) => uPage'.open /\ "reset" \in uPage'.busy,
         uPage'.secret = uPage.secret \/ uPage'.secret[1] \notin Known
  PROVE  UsersOK'
<1>1. ASSUME NEW d \in uCalls'
      PROVE  IsCall(d) /\ AwaitedOK(d, uPage') /\ MadeOK(d, uAccounts, uTold', uMade.passwords)
             /\ (Awaited(d) => d \in uCalls)
  <2>1. PICK c \in uCalls : Left(d, c)
    OBVIOUS
  <2>2. IsCall(c) /\ AwaitedOK(c, uPage) /\ MadeOK(c, uAccounts, uTold, uMade.passwords)
    BY DEF UsersOK
  <2>3. /\ IsCall(d) /\ d.op = c.op /\ d.user = c.user /\ d.stage = c.stage /\ d.password = c.password
        /\ Awaited(d) => d = c
    BY <2>1, <2>2, LeftOf
  <2> QED
    BY <2>2, <2>3 DEF AwaitedOK, MadeOK, Made, Fits
<1>2. OneAwaited(uCalls')
  BY <1>1 DEF UsersOK, OneAwaited
<1>3. SecretFits(uPage', uAccounts, uTold')
  BY DEF UsersOK, SecretFits, Fits
<1> QED
  BY <1>1, <1>2, <1>3 DEF UsersOK

LEMMA UsersPress ==
  ASSUME UsersOK, NEW p, IsUsersPage(p), p.open = uPage.open, p.busy = uPage.busy,
         p.secret = uPage.secret \/ p.secret[1] \notin Known, Users!Press(p)
  PROVE  UsersOK'
<1>1. uPage' = p /\ uCalls' = uCalls /\ uAccounts' = uAccounts /\ uMade' = uMade /\ uTold' = uTold
  BY DEF Users!Press
<1>2. \A d \in uCalls' : Left(d, d)
  BY DEF Left
<1>3. \A d \in uCalls' : Awaited(d) => uPage'.open /\ "reset" \in uPage'.busy
  BY <1>1 DEF UsersOK, AwaitedOK
<1> QED
  BY <1>1, <1>2, <1>3, QuietStep

LEMMA UsersPressSteps ==
  ASSUME UsersOK,
         \/ Users!NewUser \/ Users!Cancel \/ Users!CloseSecret
         \/ \E u : Users!Edit(u) \/ Users!AskReset(u) \/ Users!AskDeactivate(u)
  PROVE  UsersOK'
<1>1. DOMAIN uPage = UsersFields /\ uPage.pending[1] \in {"none", "reset", "deactivate"}
  BY DEF UsersOK, IsUsersPage
<1>2. CASE Users!CloseSecret
  <2>1. PICK p : p = [uPage EXCEPT !.secret = <<Users!None, 0>>]
    OBVIOUS
  <2>2. Users!Press(p)
    BY <1>2, <2>1 DEF Users!CloseSecret
  <2>3. IsUsersPage(p) /\ p.open = uPage.open /\ p.busy = uPage.busy /\ p.secret[1] \notin Known
    BY <1>1, <2>1, PeopleAssumption DEF UsersFields, IsUsersPage, Users!None
  <2> QED
    BY <2>2, <2>3, UsersPress
<1>3. ASSUME NEW x, NEW p, Users!Press(p),
             \/ p = [uPage EXCEPT !.editing = x]
             \/ p = [uPage EXCEPT !.pending = x] /\ x[1] \in {"none", "reset", "deactivate"}
      PROVE  UsersOK'
  <2>1. IsUsersPage(p) /\ p.open = uPage.open /\ p.busy = uPage.busy /\ p.secret = uPage.secret
    BY <1>1, <1>3 DEF UsersFields, IsUsersPage
  <2> QED
    BY <1>3, <2>1, UsersPress
<1>4. CASE Users!NewUser
  <2>1. PICK p : p = [uPage EXCEPT !.editing = Users!New]
    OBVIOUS
  <2>2. Users!Press(p)
    BY <1>4, <2>1 DEF Users!NewUser
  <2> QED
    BY <1>3, <2>1, <2>2
<1>5. CASE Users!Cancel
  <2>1. PICK x : x = <<Users!None, Users!None>>
    OBVIOUS
  <2>2. PICK p : p = [uPage EXCEPT !.pending = x]
    OBVIOUS
  <2>3. Users!Press(p)
    BY <1>5, <2>1, <2>2 DEF Users!Cancel
  <2>4. x[1] = "none"
    BY <2>1 DEF Users!None
  <2> QED
    BY <1>3, <2>2, <2>3, <2>4
<1>6. ASSUME NEW u, Users!Edit(u) PROVE UsersOK'
  <2>1. PICK p : p = [uPage EXCEPT !.editing = u]
    OBVIOUS
  <2>2. Users!Press(p)
    BY <1>6, <2>1 DEF Users!Edit
  <2> QED
    BY <1>3, <2>1, <2>2
<1>7. ASSUME NEW u, Users!AskReset(u) PROVE UsersOK'
  <2>1. PICK x : x = <<"reset", u>>
    OBVIOUS
  <2>2. PICK p : p = [uPage EXCEPT !.pending = x]
    OBVIOUS
  <2>3. Users!Press(p)
    BY <1>7, <2>1, <2>2 DEF Users!AskReset
  <2>4. x[1] = "reset"
    BY <2>1
  <2> QED
    BY <1>3, <2>2, <2>3, <2>4
<1>8. ASSUME NEW u, Users!AskDeactivate(u) PROVE UsersOK'
  <2>1. PICK x : x = <<"deactivate", u>>
    OBVIOUS
  <2>2. PICK p : p = [uPage EXCEPT !.pending = x]
    OBVIOUS
  <2>3. Users!Press(p)
    BY <1>8, <2>1, <2>2 DEF Users!AskDeactivate
  <2>4. x[1] = "deactivate"
    BY <2>1
  <2> QED
    BY <1>3, <2>2, <2>3, <2>4
<1> QED
  BY <1>2, <1>4, <1>5, <1>6, <1>7, <1>8

\* A form or the page is closed, or opened.
LEMMA UsersCloseSteps ==
  ASSUME UsersOK, Users!CloseForm \/ Users!Escape \/ Users!Mount \/ Users!Unmount
  PROVE  UsersOK'
<1>1. DOMAIN uPage = UsersFields /\ uPage.pending[1] \in {"none", "reset", "deactivate"}
      /\ \A c \in uCalls : IsCall(c) /\ AwaitedOK(c, uPage)
  BY DEF UsersOK, IsUsersPage
<1>2. CASE Users!CloseForm \/ Users!Escape
  <2>1. PICK p : p = [uPage EXCEPT !.editing = Users!None, !.busy = uPage.busy \ {"create", "edit"}]
    OBVIOUS
  <2>2. uPage' = p \/ uPage' = [p EXCEPT !.pending = <<Users!None, Users!None>>, !.secret = <<Users!None, 0>>]
    BY <1>2, <2>1 DEF Users!CloseForm, Users!Escape, Users!WithoutForm
  <2>3. DOMAIN p = UsersFields /\ p.open = uPage.open /\ p.secret = uPage.secret
        /\ p.pending = uPage.pending /\ ("reset" \in uPage.busy => "reset" \in p.busy)
    BY <1>1, <2>1 DEF UsersFields
  <2>4. /\ IsUsersPage(uPage') /\ uPage'.open = uPage.open
        /\ "reset" \in uPage.busy => "reset" \in uPage'.busy
        /\ uPage'.secret = uPage.secret \/ uPage'.secret[1] \notin Known
    <3>1. CASE uPage' = p
      BY <1>1, <2>3, <3>1 DEF IsUsersPage
    <3>2. CASE uPage' = [p EXCEPT !.pending = <<Users!None, Users!None>>, !.secret = <<Users!None, 0>>]
      <4> HIDE DEF Users!None
      <4>1. DOMAIN uPage' = UsersFields /\ uPage'.open = p.open /\ uPage'.busy = p.busy
            /\ uPage'.secret = <<Users!None, 0>> /\ uPage'.pending = <<Users!None, Users!None>>
        BY <2>3, <3>2 DEF UsersFields
      <4>2. uPage'.secret[1] = "none" /\ uPage'.pending[1] = "none"
        BY <4>1 DEF Users!None
      <4> QED
        BY <2>3, <4>1, <4>2, PeopleAssumption DEF IsUsersPage
    <3> QED
      BY <2>2, <3>1, <3>2
  <2>5. /\ uCalls' = {IF c.op \in {"create", "edit"} THEN [c EXCEPT !.live = FALSE] ELSE c : c \in uCalls}
        /\ uAccounts' = uAccounts /\ uMade' = uMade /\ uTold' = uTold
    BY <1>2 DEF Users!CloseForm, Users!Escape, Users!Abandon
  <2>6. \A d \in uCalls' : \E c \in uCalls : Left(d, c)
    BY <2>5 DEF Left
  <2>7. ASSUME NEW d \in uCalls', Awaited(d) PROVE uPage'.open /\ "reset" \in uPage'.busy
    <3>1. PICK c \in uCalls : Left(d, c)
      BY <2>6
    <3>2. Awaited(c)
      BY <1>1, <2>7, <3>1, LeftOf
    <3> QED
      BY <1>1, <2>4, <3>2 DEF AwaitedOK
  <2> QED
    BY <2>4, <2>5, <2>6, <2>7, QuietStep
<1>3. CASE Users!Mount
  <2>1. uPage' = [Users!Closed EXCEPT !.open = TRUE] /\ ~uPage.open
        /\ uCalls' = uCalls /\ uAccounts' = uAccounts /\ uMade' = uMade /\ uTold' = uTold
    BY <1>3 DEF Users!Mount
  <2>2. IsUsersPage(uPage') /\ uPage'.secret[1] \notin Known
    BY <2>1, PeopleAssumption DEF Users!Closed, Users!None, IsUsersPage, UsersFields
  <2>3. \A d \in uCalls' : Left(d, d) /\ ~Awaited(d)
    BY <1>1, <2>1 DEF Left, AwaitedOK
  <2> QED
    BY <2>1, <2>2, <2>3, QuietStep
<1>4. CASE Users!Unmount
  <2>1. uPage' = Users!Closed /\ uCalls' = {[c EXCEPT !.live = FALSE, !.mine = FALSE] : c \in uCalls}
        /\ uAccounts' = uAccounts /\ uMade' = uMade /\ uTold' = {}
    BY <1>4 DEF Users!Unmount
  <2>2. IsUsersPage(uPage') /\ uPage'.secret[1] \notin Known
    BY <2>1, PeopleAssumption DEF Users!Closed, Users!None, IsUsersPage, UsersFields
  <2>3. \A d \in uCalls' : \E c \in uCalls : Left(d, c)
    BY <2>1 DEF Left
  <2>4. \A d \in uCalls' : ~Awaited(d)
    BY <1>1, <2>1 DEF Awaited, IsCall, CallFields
  <2> QED
    BY <2>1, <2>2, <2>3, <2>4, QuietStep
<1> QED
  BY <1>2, <1>3, <1>4

LEMMA UsersMutate ==
  ASSUME UsersOK, NEW op, NEW u, op = "create" => u = NewId, op = "reset" => "reset" \notin uPage.busy,
         Users!Mutate(op, u), uPage.open,
         uPage' = uPage \/ uPage' = [uPage EXCEPT !.busy = uPage.busy \cup {op}],
         op = "reset" => "reset" \in uPage'.busy
  PROVE  UsersOK'
<1>1. PICK new : new = [op |-> op, user |-> u, stage |-> "sent", password |-> 0, live |-> TRUE, mine |-> TRUE]
  OBVIOUS
<1>2. PICK cs : cs = {IF c.op = op THEN [c EXCEPT !.live = FALSE] ELSE c : c \in uCalls}
  OBVIOUS
<1>3. uCalls' = cs \cup {new} /\ uAccounts' = uAccounts /\ uMade' = uMade /\ uTold' = uTold
  BY <1>1, <1>2 DEF Users!Mutate
<1>4. DOMAIN uPage = UsersFields /\ IsUsersPage(uPage)
      /\ \A c \in uCalls : IsCall(c) /\ AwaitedOK(c, uPage) /\ MadeOK(c, uAccounts, uTold, uMade.passwords)
  BY DEF UsersOK, IsUsersPage
<1>5. /\ IsUsersPage(uPage') /\ uPage'.open = uPage.open /\ uPage'.secret = uPage.secret
      /\ "reset" \in uPage.busy => "reset" \in uPage'.busy
  BY <1>4 DEF UsersFields, IsUsersPage
<1>6. ASSUME NEW d \in cs
      PROVE  IsCall(d) /\ AwaitedOK(d, uPage') /\ MadeOK(d, uAccounts, uTold, uMade.passwords)
             /\ (Awaited(d) => d \in uCalls /\ op # "reset")
  <2>1. PICK c \in uCalls : d = IF c.op = op THEN [c EXCEPT !.live = FALSE] ELSE c
    BY <1>2
  <2>2. op = "reset" => ~Awaited(c)
    BY <1>4 DEF AwaitedOK
  <2>3. CASE op = "reset" /\ c.op = op
    <3>1. IsCall(c) /\ ~c.mine /\ d = [c EXCEPT !.live = FALSE]
      BY <1>4, <2>1, <2>2, <2>3 DEF Awaited
    <3>2. IsCall(d) /\ d.op = c.op /\ d.mine = c.mine /\ d.user = c.user /\ d.stage = c.stage
          /\ d.password = c.password
      BY <3>1 DEF IsCall, CallFields
    <3> QED
      BY <1>4, <3>1, <3>2 DEF AwaitedOK, MadeOK, Made, Awaited
  <2>4. CASE ~(op = "reset" /\ c.op = op)
    <3>1. Left(d, c)
      BY <2>1, <2>4 DEF Left
    <3>2. /\ IsCall(d) /\ d.op = c.op /\ d.user = c.user /\ d.stage = c.stage /\ d.password = c.password
          /\ Awaited(d) => d = c
      BY <1>4, <3>1, LeftOf
    <3> QED
      BY <1>4, <1>5, <2>2, <3>2 DEF AwaitedOK, MadeOK, Made
  <2> QED
    BY <2>3, <2>4
<1>7. IsCall(new) /\ AwaitedOK(new, uPage') /\ MadeOK(new, uAccounts, uTold, uMade.passwords)
      /\ (Awaited(new) => op = "reset")
  <2>1. new.op = op /\ new.stage = "sent" /\ new.live = TRUE /\ new.mine = TRUE /\ new.user = u
        /\ DOMAIN new = CallFields
    BY <1>1 DEF CallFields
  <2> QED
    BY <1>5, <2>1 DEF IsCall, AwaitedOK, MadeOK, Made, Awaited
<1>8. \A d \in uCalls' : IsCall(d) /\ AwaitedOK(d, uPage') /\ MadeOK(d, uAccounts, uTold, uMade.passwords)
  BY <1>3, <1>6, <1>7
<1>9. OneAwaited(uCalls')
  <2>1. OneAwaited(uCalls)
    BY DEF UsersOK
  <2>2. \A c \in uCalls' : Awaited(c) => (c \in uCalls /\ op # "reset") \/ (c = new /\ op = "reset")
    BY <1>3, <1>6, <1>7
  <2> QED
    BY <2>1, <2>2 DEF OneAwaited
<1>10. SecretFits(uPage', uAccounts, uTold)
  BY <1>5 DEF UsersOK, SecretFits
<1> QED
  BY <1>3, <1>5, <1>8, <1>9, <1>10 DEF UsersOK

LEMMA UsersSendSteps ==
  ASSUME UsersOK, Users!SubmitForm \/ Users!Confirm \/ \E u : Users!Reactivate(u)
  PROVE  UsersOK'
<1>1. DOMAIN uPage = UsersFields /\ uPage.pending[1] \in {"none", "reset", "deactivate"}
  BY DEF UsersOK, IsUsersPage
<1>2. CASE Users!SubmitForm
  <2>1. PICK op \in {"create", "edit"} : op = IF uPage.editing = Users!New THEN "create" ELSE "edit"
    OBVIOUS
  <2>2. PICK u : u = IF uPage.editing = Users!New THEN NewId ELSE uPage.editing
    OBVIOUS
  <2>3. /\ Users!Mutate(op, u) /\ uPage.open /\ uPage' = [uPage EXCEPT !.busy = uPage.busy \cup {op}]
        /\ op = "create" => u = NewId
    BY <1>2, <2>1, <2>2 DEF Users!SubmitForm
  <2> QED
    BY <2>1, <2>3, UsersMutate
<1>3. CASE Users!Confirm
  <2>1. PICK op : op = uPage.pending[1]
    OBVIOUS
  <2>2. PICK u : u = uPage.pending[2]
    OBVIOUS
  <2>3. /\ Users!Mutate(op, u) /\ uPage.open /\ uPage' = [uPage EXCEPT !.busy = uPage.busy \cup {op}]
        /\ op \notin uPage.busy
    BY <1>3, <2>1, <2>2 DEF Users!Confirm, Users!Confirmable
  <2>4. op \in uPage'.busy
    BY <1>1, <2>3 DEF UsersFields
  <2>5. op # "create"
    BY <1>1, <2>1
  <2> QED
    BY <2>3, <2>4, <2>5, UsersMutate
<1>4. ASSUME NEW u, Users!Reactivate(u) PROVE UsersOK'
  <2>1. PICK op : op = "reactivate"
    OBVIOUS
  <2>2. Users!Mutate(op, u) /\ uPage.open /\ uPage' = uPage
    BY <1>4, <2>1 DEF Users!Reactivate
  <2> QED
    BY <2>1, <2>2, UsersMutate
<1> QED
  BY <1>2, <1>3, <1>4

\* A password is made for account u, or none is.
NewPassword(u) ==
  /\ DOMAIN uMade' = {"passwords", "others"} /\ uMade'.passwords \in Nat /\ uTold' = uTold
  /\ Known \subseteq DOMAIN uAccounts'
  /\ \A v \in DOMAIN uAccounts' :
       /\ DOMAIN uAccounts'[v] = AccountFields
       /\ v # u => v \in DOMAIN uAccounts /\ uAccounts'[v].password = uAccounts[v].password
  /\ u \in DOMAIN uAccounts' => uAccounts'[u].password = uMade'.passwords
  /\ uMade'.passwords = uMade.passwords + 1

NoPassword ==
  /\ uMade' = uMade /\ uTold' = uTold /\ DOMAIN uAccounts' = DOMAIN uAccounts
  /\ \A v \in DOMAIN uAccounts' :
       DOMAIN uAccounts'[v] = AccountFields /\ uAccounts'[v].password = uAccounts[v].password

\* A new password was told to nobody, and is nobody else's.
LEMMA Renewed ==
  ASSUME UsersOK, NoPassword \/ \E u : NewPassword(u)
  PROVE  /\ AreAccounts(uAccounts', uMade'.passwords) /\ uTold' \subseteq 1..uMade'.passwords
         /\ DOMAIN uMade' = {"passwords", "others"} /\ uMade'.passwords \in Nat
         /\ \A c \in uCalls : IsCall(c) /\ MadeOK(c, uAccounts', uTold', uMade'.passwords)
         /\ SecretFits(uPage, uAccounts', uTold')
<1> DEFINE n == uMade.passwords
           m == uMade'.passwords
<1>1. /\ n \in Nat /\ Known \subseteq DOMAIN uAccounts /\ uTold \subseteq 1..n
      /\ \A u \in DOMAIN uAccounts : DOMAIN uAccounts[u] = AccountFields /\ uAccounts[u].password \in 0..n
  BY DEF UsersOK, AreAccounts
<1>2. /\ m \in Nat /\ m >= n /\ DOMAIN uMade' = {"passwords", "others"} /\ uTold' = uTold
      /\ Known \subseteq DOMAIN uAccounts'
      /\ \A v \in DOMAIN uAccounts' :
           /\ DOMAIN uAccounts'[v] = AccountFields
           /\ \/ v \in DOMAIN uAccounts /\ uAccounts'[v].password = uAccounts[v].password
              \/ m = n + 1 /\ uAccounts'[v].password = m
  <2>1. CASE NoPassword
    BY <1>1, <2>1 DEF NoPassword, UsersOK
  <2>2. ASSUME NEW u, NewPassword(u)
        PROVE  /\ m = n + 1 /\ m \in Nat /\ DOMAIN uMade' = {"passwords", "others"} /\ uTold' = uTold
               /\ Known \subseteq DOMAIN uAccounts'
               /\ \A v \in DOMAIN uAccounts' :
                    /\ DOMAIN uAccounts'[v] = AccountFields
                    /\ \/ v \in DOMAIN uAccounts /\ uAccounts'[v].password = uAccounts[v].password
                       \/ uAccounts'[v].password = m
    BY <2>2 DEF NewPassword
  <2> QED
    BY <1>1, <2>1, <2>2
<1>3. uTold' \subseteq 1..m /\ AreAccounts(uAccounts', m)
  BY <1>1, <1>2 DEF AreAccounts
<1>4. ASSUME NEW u \in Known, NEW p \in 1..n, uAccounts[u].password # p
      PROVE  uAccounts'[u].password # p
  BY <1>1, <1>2, <1>4
<1>5. ASSUME NEW u \in Known, NEW p, Fits(u, p, uAccounts, uTold)
      PROVE  Fits(u, p, uAccounts', uTold')
  BY <1>1, <1>2, <1>5 DEF Fits
<1>6. ASSUME NEW c \in uCalls PROVE IsCall(c) /\ MadeOK(c, uAccounts', uTold', m)
  <2>1. IsCall(c) /\ MadeOK(c, uAccounts, uTold, n)
    BY DEF UsersOK
  <2>2. Made(c) => c.password \in 1..m
    BY <1>1, <1>2, <2>1 DEF MadeOK
  <2>3. Made(c) => \A u \in Known \ {c.user} : uAccounts'[u].password # c.password
    BY <1>4, <2>1 DEF MadeOK
  <2>4. Made(c) /\ Awaited(c) /\ c.user \in Known => Fits(c.user, c.password, uAccounts', uTold')
    BY <1>5, <2>1 DEF MadeOK
  <2> QED
    BY <2>1, <2>2, <2>3, <2>4 DEF MadeOK
<1>7. SecretFits(uPage, uAccounts', uTold')
  <2>1. SecretFits(uPage, uAccounts, uTold)
    BY DEF UsersOK
  <2> QED
    BY <1>5, <2>1 DEF SecretFits
<1> QED
  BY <1>2, <1>3, <1>6, <1>7

\* Another administrator resets a password.
LEMMA UsersElsewhere == ASSUME UsersOK, NEW u, Users!Elsewhere(u) PROVE UsersOK'
<1>1. /\ u \in DOMAIN uAccounts /\ uMade' = [passwords |-> uMade.passwords + 1, others |-> uMade.others + 1]
      /\ uAccounts' = [uAccounts EXCEPT ![u].password = uMade.passwords + 1]
      /\ uPage' = uPage /\ uCalls' = uCalls /\ uTold' = uTold
  BY DEF Users!Elsewhere, Users!Number
<1>2. uMade.passwords \in Nat /\ AreAccounts(uAccounts, uMade.passwords)
  BY DEF UsersOK
<1>3. NewPassword(u)
  BY <1>1, <1>2 DEF NewPassword, AreAccounts, AccountFields
<1>4. /\ AreAccounts(uAccounts', uMade'.passwords) /\ uTold' \subseteq 1..uMade'.passwords
      /\ DOMAIN uMade' = {"passwords", "others"} /\ uMade'.passwords \in Nat
      /\ \A c \in uCalls : IsCall(c) /\ MadeOK(c, uAccounts', uTold', uMade'.passwords)
      /\ SecretFits(uPage, uAccounts', uTold')
  BY <1>3, Renewed
<1> QED
  BY <1>1, <1>4 DEF UsersOK

\* The server does what call c asks for.
LEMMA UsersServed ==
  ASSUME UsersOK, NEW c, NEW after, Users!Serve(c, after),
         \/ c.op \notin {"create", "reset"} /\ NoPassword
         \/ c.op \in {"create", "reset"} /\ NewPassword(c.user)
  PROVE  UsersOK'
<1>1. PICK d : d = [c EXCEPT !.stage = "done", !.password = uMade'.passwords]
  OBVIOUS
<1>2. c \in uCalls /\ c.stage = "sent" /\ uCalls' = (uCalls \ {c}) \cup {d} /\ uPage' = uPage
  BY <1>1 DEF Users!Serve
<1>3. IsCall(c) /\ AwaitedOK(c, uPage)
  BY <1>2 DEF UsersOK
<1>4. /\ d.op = c.op /\ d.user = c.user /\ d.mine = c.mine /\ d.live = c.live /\ d.stage = "done"
      /\ d.password = uMade'.passwords /\ DOMAIN d = CallFields
  BY <1>1, <1>3 DEF IsCall, CallFields
<1>5. /\ AreAccounts(uAccounts', uMade'.passwords) /\ uTold' \subseteq 1..uMade'.passwords
      /\ DOMAIN uMade' = {"passwords", "others"} /\ uMade'.passwords \in Nat
      /\ \A b \in uCalls : IsCall(b) /\ MadeOK(b, uAccounts', uTold', uMade'.passwords)
      /\ SecretFits(uPage, uAccounts', uTold')
  BY Renewed
<1>6. IsCall(d) /\ AwaitedOK(d, uPage)
  BY <1>3, <1>4 DEF IsCall, AwaitedOK, Awaited
<1>7. MadeOK(d, uAccounts', uTold', uMade'.passwords)
  <2>1. CASE c.op \notin {"create", "reset"}
    BY <1>4, <2>1 DEF MadeOK, Made
  <2>2. CASE c.op \in {"create", "reset"}
    <3>1. NewPassword(c.user) /\ uMade.passwords \in Nat /\ AreAccounts(uAccounts, uMade.passwords)
      BY <2>2 DEF UsersOK
    <3>2. d.password \in 1..uMade'.passwords
      BY <1>4, <3>1 DEF NewPassword
    <3>3. \A u \in Known \ {d.user} : uAccounts'[u].password # d.password
      BY <1>4, <3>1 DEF NewPassword, AreAccounts
    <3>4. d.user \in Known => uAccounts'[d.user].password = d.password
      BY <1>4, <3>1 DEF NewPassword
    <3> QED
      BY <3>2, <3>3, <3>4 DEF MadeOK, Fits
  <2> QED
    BY <2>1, <2>2
<1>8. OneAwaited(uCalls')
  <2>1. OneAwaited(uCalls)
    BY DEF UsersOK
  <2>2. Awaited(d) => Awaited(c)
    BY <1>4 DEF Awaited
  <2> QED
    BY <1>2, <2>1, <2>2 DEF OneAwaited
<1>9. \A b \in uCalls' : IsCall(b) /\ AwaitedOK(b, uPage) /\ MadeOK(b, uAccounts', uTold', uMade'.passwords)
  BY <1>2, <1>5, <1>6, <1>7 DEF UsersOK
<1> QED
  BY <1>2, <1>5, <1>8, <1>9 DEF UsersOK

LEMMA UsersServerSteps ==
  ASSUME UsersOK, NEW c,
         Users!ServeCreate(c) \/ Users!ServeReset(c) \/ Users!ServeUpdate(c) \/ Users!ServeDeactivate(c)
  PROVE  UsersOK'
<1>1. /\ uMade.passwords \in Nat /\ DOMAIN uMade = {"passwords", "others"}
      /\ Known \subseteq DOMAIN uAccounts
      /\ \A u \in DOMAIN uAccounts : DOMAIN uAccounts[u] = AccountFields
  BY DEF UsersOK, AreAccounts
<1>2. CASE Users!ServeCreate(c)
  <2>1. PICK after : after = [u \in DOMAIN uAccounts \cup {c.user} |->
                                IF u = c.user THEN [active |-> TRUE, password |-> uMade.passwords + 1]
                                ELSE uAccounts[u]]
    OBVIOUS
  <2>2. Users!Serve(c, after) /\ c.op = "create" /\ uMade' = [uMade EXCEPT !.passwords = uMade.passwords + 1]
    BY <1>2, <2>1 DEF Users!ServeCreate, Users!Made, Users!Number
  <2>3. uAccounts' = after /\ uTold' = uTold
    BY <2>2 DEF Users!Serve
  <2>4. DOMAIN after = DOMAIN uAccounts \cup {c.user}
        /\ \A u \in DOMAIN after : /\ DOMAIN after[u] = AccountFields
                                   /\ u # c.user => u \in DOMAIN uAccounts /\ after[u] = uAccounts[u]
                                   /\ u = c.user => after[u].password = uMade.passwords + 1
    BY <1>1, <2>1 DEF AccountFields
  <2>5. NewPassword(c.user)
    BY <1>1, <2>2, <2>3, <2>4 DEF NewPassword
  <2> QED
    BY <2>2, <2>5, UsersServed
<1>3. CASE Users!ServeReset(c)
  <2>1. PICK after : after = [uAccounts EXCEPT ![c.user].password = uMade.passwords + 1]
    OBVIOUS
  <2>2. Users!Serve(c, after) /\ c.op = "reset" /\ uMade' = [uMade EXCEPT !.passwords = uMade.passwords + 1]
    BY <1>3, <2>1 DEF Users!ServeReset, Users!Made, Users!Number
  <2>3. uAccounts' = after /\ uTold' = uTold
    BY <2>2 DEF Users!Serve
  <2>4. DOMAIN after = DOMAIN uAccounts
        /\ \A u \in DOMAIN after : /\ DOMAIN after[u] = AccountFields
                                   /\ u # c.user => after[u] = uAccounts[u]
                                   /\ u = c.user => after[u].password = uMade.passwords + 1
    BY <1>1, <2>1 DEF AccountFields
  <2>5. NewPassword(c.user)
    BY <1>1, <2>2, <2>3, <2>4 DEF NewPassword
  <2> QED
    BY <2>2, <2>5, UsersServed
<1>4. CASE Users!ServeUpdate(c) \/ Users!ServeDeactivate(c)
  <2>1. PICK after : /\ Users!Serve(c, after) /\ uMade' = uMade /\ c.op \notin {"create", "reset"}
                     /\ \/ after = uAccounts
                        \/ \E b \in BOOLEAN : after = [uAccounts EXCEPT ![c.user].active = b]
    BY <1>4 DEF Users!ServeUpdate, Users!ServeDeactivate
  <2>2. uAccounts' = after /\ uTold' = uTold
    BY <2>1 DEF Users!Serve
  <2>3. DOMAIN after = DOMAIN uAccounts
        /\ \A u \in DOMAIN after : DOMAIN after[u] = AccountFields /\ after[u].password = uAccounts[u].password
    <3>1. CASE after = uAccounts
      BY <1>1, <3>1
    <3>2. ASSUME NEW b \in BOOLEAN, after = [uAccounts EXCEPT ![c.user].active = b]
          PROVE  DOMAIN after = DOMAIN uAccounts
                 /\ \A u \in DOMAIN after :
                      DOMAIN after[u] = AccountFields /\ after[u].password = uAccounts[u].password
      BY <1>1, <3>2 DEF AccountFields
    <3> QED
      BY <2>1, <3>1, <3>2
  <2>4. NoPassword
    BY <2>1, <2>2, <2>3 DEF NoPassword
  <2> QED
    BY <2>1, <2>4, UsersServed
<1> QED
  BY <1>2, <1>3, <1>4

\* A request fails, or its answer is lost.
LEMMA UsersFailed == ASSUME UsersOK, NEW c, Users!Failed(c) PROVE UsersOK'
<1>1. /\ DOMAIN uPage = UsersFields /\ uPage.pending[1] \in {"none", "reset", "deactivate"}
      /\ \A b \in uCalls : IsCall(b) /\ AwaitedOK(b, uPage)
  BY DEF UsersOK, IsUsersPage
<1>2. PICK d : d = [c EXCEPT !.live = FALSE, !.mine = FALSE]
  OBVIOUS
<1>3. /\ c \in uCalls /\ uCalls' \in {uCalls \ {c}, (uCalls \ {c}) \cup {d}}
      /\ uAccounts' = uAccounts /\ uMade' = uMade /\ uTold' = uTold
  BY <1>2 DEF Users!Failed
<1>4. IsCall(c) /\ ~Awaited(d)
  BY <1>1, <1>2, <1>3 DEF IsCall, CallFields, Awaited
<1>5. \A b \in uCalls' : \E a \in uCalls : Left(b, a)
  BY <1>2, <1>3 DEF Left
<1>6. PICK pending : pending = IF c.op \in {"reset", "deactivate"} THEN <<Users!None, Users!None>> ELSE uPage.pending
  OBVIOUS
<1>7. pending[1] \in {"none", "reset", "deactivate"}
  BY <1>1, <1>6 DEF Users!None
<1>8. CASE ~c.live
  <2>1. uPage' = uPage
    BY <1>8 DEF Users!Failed
  <2>2. \A b \in uCalls' : Awaited(b) => uPage'.open /\ "reset" \in uPage'.busy
    BY <1>1, <1>3, <1>4, <2>1 DEF AwaitedOK
  <2>3. IsUsersPage(uPage')
    BY <1>1, <2>1 DEF IsUsersPage
  <2> QED
    BY <1>3, <1>5, <2>1, <2>2, <2>3, QuietStep
<1>9. CASE c.live
  <2>1. uPage' = [uPage EXCEPT !.busy = uPage.busy \ {c.op}, !.pending = pending]
    BY <1>6, <1>9 DEF Users!Failed
  <2>2. /\ DOMAIN uPage' = UsersFields /\ uPage'.pending = pending /\ uPage'.open = uPage.open
        /\ uPage'.secret = uPage.secret /\ uPage'.busy = uPage.busy \ {c.op}
    BY <1>1, <2>1 DEF UsersFields
  <2>3. IsUsersPage(uPage')
    BY <1>7, <2>2 DEF IsUsersPage
  <2>4. ASSUME NEW b \in uCalls', Awaited(b) PROVE uPage'.open /\ "reset" \in uPage'.busy
    <3>1. b \in uCalls /\ b # c
      BY <1>3, <1>4, <2>4
    <3>2. c.op # "reset"
      BY <1>3, <1>4, <1>9, <2>4, <3>1 DEF UsersOK, OneAwaited, Awaited, IsCall
    <3> QED
      BY <1>1, <2>2, <2>4, <3>1, <3>2 DEF AwaitedOK
  <2> QED
    BY <1>3, <1>5, <2>2, <2>3, <2>4, QuietStep
<1> QED
  BY <1>8, <1>9

\* An answer is shown, unless its callbacks were dropped, and told.
LEMMA UsersAnswered == ASSUME UsersOK, NEW c, Users!Answered(c) PROVE UsersOK'
<1>1. /\ DOMAIN uPage = UsersFields /\ uPage.pending[1] \in {"none", "reset", "deactivate"}
      /\ \A b \in uCalls : IsCall(b) /\ AwaitedOK(b, uPage) /\ MadeOK(b, uAccounts, uTold, uMade.passwords)
      /\ OneAwaited(uCalls) /\ SecretFits(uPage, uAccounts, uTold) /\ uTold \subseteq 1..uMade.passwords
  BY DEF UsersOK, IsUsersPage
<1>2. /\ c \in uCalls /\ c.stage = "done" /\ uCalls' = uCalls \ {c}
      /\ uAccounts' = uAccounts /\ uMade' = uMade
  BY DEF Users!Answered
<1>3. IsCall(c) /\ AwaitedOK(c, uPage) /\ MadeOK(c, uAccounts, uTold, uMade.passwords)
  BY <1>1, <1>2
<1>4. OneAwaited(uCalls') /\ \A b \in uCalls' : IsCall(b) /\ b \in uCalls
  BY <1>1, <1>2 DEF OneAwaited
<1>5. PICK q : q = [uPage EXCEPT !.busy = uPage.busy \ {c.op}]
  OBVIOUS
<1>6. /\ DOMAIN q = UsersFields /\ q.open = uPage.open /\ q.secret = uPage.secret
      /\ q.pending = uPage.pending /\ q.busy = uPage.busy \ {c.op}
  BY <1>1, <1>5 DEF UsersFields
<1>7. PICK f : f = [q EXCEPT !.editing = Users!None, !.busy = q.busy \ {"create", "edit"}]
  OBVIOUS
<1>8. /\ DOMAIN f = UsersFields /\ f.open = uPage.open /\ f.secret = uPage.secret
      /\ f.pending = uPage.pending /\ f.busy = q.busy \ {"create", "edit"}
  BY <1>6, <1>7 DEF UsersFields
<1>9. PICK none : none = <<Users!None, Users!None>>
  OBVIOUS
<1>10. none[1] = "none"
  BY <1>9 DEF Users!None
<1>11. CASE Awaited(c)
  <2>1. c.op = "reset" /\ c.mine /\ c.live /\ uTold' = uTold \cup {c.password}
    BY <1>3, <1>11 DEF Users!Answered, Awaited, AwaitedOK
  <2>2. uPage' = [q EXCEPT !.pending = none, !.secret = <<c.user, c.password>>]
    BY <1>5, <1>9, <2>1 DEF Users!Answered, Users!Shown
  <2>3. /\ DOMAIN uPage' = UsersFields /\ uPage'.pending = none
        /\ uPage'.secret[1] = c.user /\ uPage'.secret[2] = c.password
    BY <1>6, <2>2 DEF UsersFields
  <2>4. Made(c) /\ c.password \in 1..uMade.passwords
        /\ (c.user \in Known => Fits(c.user, c.password, uAccounts, uTold))
    BY <1>2, <1>3, <1>11, <2>1 DEF MadeOK, Made
  <2>5. SecretFits(uPage', uAccounts, uTold')
    BY <2>1, <2>3, <2>4 DEF SecretFits, Fits
  <2>6. \A b \in uCalls' : ~Awaited(b)
    BY <1>1, <1>2, <1>11 DEF OneAwaited
  <2>7. \A b \in uCalls' : AwaitedOK(b, uPage') /\ MadeOK(b, uAccounts, uTold', uMade.passwords)
    BY <1>1, <1>4, <2>6 DEF AwaitedOK, MadeOK
  <2>8. IsUsersPage(uPage')
    BY <1>10, <2>3 DEF IsUsersPage
  <2> QED
    BY <1>1, <1>2, <1>4, <2>1, <2>4, <2>5, <2>7, <2>8 DEF UsersOK
<1>12. CASE c.op = "create" /\ c.mine
  <2>1. uTold' = uTold \cup {c.password} /\ c.user = NewId /\ NewId \notin Known
    BY <1>3, <1>12, PeopleAssumption DEF Users!Answered, IsCall
  <2>2. c.password \in 1..uMade.passwords /\ \A u \in Known : uAccounts[u].password # c.password
    BY <1>2, <1>3, <1>12, <2>1 DEF MadeOK, Made
  <2>3. ASSUME NEW u \in Known, NEW p, Fits(u, p, uAccounts, uTold) PROVE Fits(u, p, uAccounts, uTold')
    BY <2>1, <2>2, <2>3 DEF Fits
  <2>4. uPage' = uPage \/ uPage' = [f EXCEPT !.secret = <<c.user, c.password>>]
    BY <1>5, <1>7, <1>12 DEF Users!Answered, Users!Shown, Users!WithoutForm
  <2>5. /\ IsUsersPage(uPage') /\ uPage'.open = uPage.open
        /\ "reset" \in uPage.busy => "reset" \in uPage'.busy
        /\ uPage'.secret = uPage.secret \/ uPage'.secret[1] \notin Known
    <3>1. CASE uPage' = uPage
      BY <1>1, <3>1 DEF IsUsersPage
    <3>2. CASE uPage' = [f EXCEPT !.secret = <<c.user, c.password>>]
      <4>1. /\ DOMAIN uPage' = UsersFields /\ uPage'.open = f.open /\ uPage'.pending = f.pending
            /\ uPage'.busy = f.busy /\ uPage'.secret[1] = c.user
        BY <1>8, <3>2 DEF UsersFields
      <4> QED
        BY <1>1, <1>6, <1>8, <1>12, <2>1, <4>1 DEF IsUsersPage
    <3> QED
      BY <2>4, <3>1, <3>2
  <2>6. SecretFits(uPage', uAccounts, uTold')
    BY <1>1, <2>3, <2>5 DEF SecretFits
  <2>7. \A b \in uCalls' : AwaitedOK(b, uPage') /\ MadeOK(b, uAccounts, uTold', uMade.passwords)
    BY <1>1, <1>4, <2>3, <2>5 DEF AwaitedOK, MadeOK
  <2> QED
    BY <1>1, <1>2, <1>4, <2>1, <2>2, <2>5, <2>6, <2>7 DEF UsersOK
<1>13. CASE ~Awaited(c) /\ ~(c.op = "create" /\ c.mine)
  <2>1. uTold' = uTold /\ (c.live => c.op \notin {"create", "reset"})
    BY <1>3, <1>13 DEF Users!Answered, Awaited, IsCall
  <2>2. uPage' \in {uPage, q, f, [q EXCEPT !.pending = none]}
    BY <1>5, <1>7, <1>9, <2>1 DEF Users!Answered, Users!Shown, Users!WithoutForm
  <2>3. uPage' = uPage \/ c.op \notin {"create", "reset"}
    BY <2>1 DEF Users!Answered
  <2>4. /\ IsUsersPage(uPage') /\ uPage'.open = uPage.open /\ uPage'.secret = uPage.secret
        /\ "reset" \in uPage.busy => "reset" \in uPage'.busy
    <3>1. CASE uPage' = uPage
      BY <1>1, <3>1 DEF IsUsersPage
    <3>2. CASE uPage' = q /\ c.op # "reset"
      BY <1>1, <1>6, <3>2 DEF IsUsersPage
    <3>3. CASE uPage' = f /\ c.op # "reset"
      BY <1>1, <1>6, <1>8, <3>3 DEF IsUsersPage
    <3>4. CASE uPage' = [q EXCEPT !.pending = none] /\ c.op # "reset"
      <4>1. /\ DOMAIN uPage' = UsersFields /\ uPage'.open = q.open /\ uPage'.pending = none
            /\ uPage'.busy = q.busy /\ uPage'.secret = q.secret
        BY <1>6, <3>4 DEF UsersFields
      <4> QED
        BY <1>6, <1>10, <3>4, <4>1 DEF IsUsersPage
    <3> QED
      BY <2>2, <2>3, <3>1, <3>2, <3>3, <3>4
  <2>5. \A b \in uCalls' : Left(b, b)
    BY DEF Left
  <2>6. \A b \in uCalls' : Awaited(b) => uPage'.open /\ "reset" \in uPage'.busy
    BY <1>1, <1>4, <2>4 DEF AwaitedOK
  <2> QED
    BY <1>2, <1>4, <2>1, <2>4, <2>5, <2>6, QuietStep
<1>14. Awaited(c) \/ (c.op = "create" /\ c.mine) \/ (~Awaited(c) /\ ~(c.op = "create" /\ c.mine))
  OBVIOUS
<1> QED
  BY <1>11, <1>12, <1>13, <1>14

LEMMA UsersInit == Users!Init => UsersOK
<1> SUFFICES ASSUME Users!Init PROVE UsersOK
  OBVIOUS
<1>1. /\ uPage = Users!Closed /\ uCalls = {} /\ uTold = {} /\ uMade = [passwords |-> 0, others |-> 0]
      /\ uAccounts = [u \in Known |-> [active |-> TRUE, password |-> 0]]
  BY DEF Users!Init
<1>2. IsUsersPage(uPage) /\ uPage.secret[1] \notin Known
  BY <1>1, PeopleAssumption DEF Users!Closed, Users!None, IsUsersPage, UsersFields
<1>3. AreAccounts(uAccounts, 0) /\ uMade.passwords = 0 /\ DOMAIN uMade = {"passwords", "others"}
  BY <1>1 DEF AreAccounts, AccountFields
<1> QED
  BY <1>1, <1>2, <1>3 DEF UsersOK, OneAwaited, SecretFits

LEMMA UsersSteps == ASSUME UsersOK, Users!Mount \/ Users!Unmount \/ Users!Next PROVE UsersOK'
<1>1. CASE Users!Mount \/ Users!Unmount
  BY <1>1, UsersCloseSteps
<1>2. CASE Users!Next
  BY <1>2, UsersPressSteps, UsersCloseSteps, UsersSendSteps, UsersElsewhere, UsersServerSteps,
     UsersFailed, UsersAnswered DEF Users!Next
<1> QED
  BY <1>1, <1>2

\* A behaviour that is about the users keeps what holds of them.
UsersInv == at = "users" => UsersOK

LEMMA InitUsers == Init => UsersInv
BY UsersInit DEF Init, UsersInv

LEMMA StepUsers == UsersInv /\ [Next]_vars => UsersInv'
<1> SUFFICES ASSUME at = "users", UsersOK, [Next]_vars PROVE UsersOK'
  BY DEF UsersInv, Next, TrainerStep, UsersStep, EditorStep, BoardStep, FormStep, AnalysisStep,
         SessionStep, vars
<1>1. CASE UsersStep
  BY <1>1, UsersSteps DEF UsersStep
<1>2. CASE UNCHANGED vars
  BY <1>2 DEF vars, usersVars, UsersOK
<1> QED
  BY <1>1, <1>2 DEF Next, TrainerStep, EditorStep, BoardStep, FormStep, AnalysisStep, SessionStep

\* Whatever the console's parts do, for any number of accounts, of passwords
\* and of other administrators' steps, the temporary password on screen opens
\* the account it is shown for, or the account got another one that this page
\* was not told (ShownPasswordWorks).
THEOREM PasswordsSafe == Spec => []ShownPasswordWorks
<1>1. UsersInv => ShownPasswordWorks
  BY DEF UsersInv, UsersOK, SecretFits, Fits, ShownPasswordWorks, Users!ShownPasswordWorks
<1> QED
  BY InitUsers, StepUsers, <1>1, PTL DEF Spec
-----------------------------------------------------------------------------
\* The session: a refresh token is presented by one tab at a time, and the
\* cookie holds the newest one, unless a refresh has been answered and its
\* answer, with the newest one, is still on its way.
TabFields == {"at", "status", "session", "todo", "busy", "refresh", "attempt", "call"}
IsTab(x) == DOMAIN x = TabFields
Token    == Nat \X Nat
Ops      == {"refresh", "login", "logout"}
Answers  == {"none", "ok", "out", "race"}
TabCall  == [tab : Tab, op : Ops, with : Token, answer : Answers]
Ends     == {"no", "signed out", "idle", "reused", "password changed"}
SignIn   == [row : Nat, ended : Ends]

Asks(c)    == c.op = "refresh"
Rotated(c) == Asks(c) /\ c.answer = "ok"
Granted(c) == c.op = "login" /\ c.answer = "ok"

\* The newest token of its sign-in.
Newest(k, s) == k[1] \in 1..Len(s) /\ s[k[1]].row = k[2]

\* The refresh of a tab that holds the lock, and what a closed tab leaves.
Exclusive(x, l, cs) ==
  /\ DOMAIN x = Tab /\ \A t \in Tab : IsTab(x[t])
  /\ l \in Tab \cup {NoTab}
  /\ \A c \in cs : Asks(c) => l = c.tab /\ x[c.tab].refresh = "asking"
  /\ \A t \in Tab : x[t].refresh \in {"asking", "pausing"} => l = t
  /\ \A t \in Tab : x[t].at = "closed" => x[t].refresh = "none" /\ x[t].call = "none"
  /\ \A c \in cs : x[c.tab].at # "closed"

Issued(k, s) == k \in Token /\ k[1] <= Len(s) /\ (k = Session!NoCookie \/ k[1] > 0)

Typed(k, cs, s) ==
  /\ Issued(k, s)
  /\ cs \subseteq TabCall /\ \A c \in cs : Issued(c.with, s)
  /\ s \in Seq(SignIn)
  /\ \A c, d \in cs : Asks(c) /\ Asks(d) => c = d
  /\ \A c \in cs : Rotated(c) \/ Granted(c) => c.with[1] > 0

\* Nobody else has the token of a sign-in whose answer is on its way.
Unseen(k, cs) ==
  \A c \in cs : Granted(c) =>
    /\ k[1] # c.with[1]
    /\ \A d \in cs : d # c /\ (Asks(d) \/ Granted(d)) => d.with[1] # c.with[1]

Honest(k, cs, s) ==
  /\ \A c \in cs : Asks(c) => /\ c.answer # "race"
                              /\ c.answer = "none" /\ c.with # Session!NoCookie => Newest(c.with, s)
                              /\ c.answer = "ok" => /\ c.with[1] \in 1..Len(s)
                                                    /\ s[c.with[1]].row = c.with[2] + 1
  /\ \A c \in cs : Granted(c) => c.with[2] = 0 /\ Newest(c.with, s)
  /\ k # Session!NoCookie => Newest(k, s) \/ \E c \in cs : Rotated(c) /\ c.with[1] = k[1]
  /\ \A f \in 1..Len(s) : s[f].ended # "reused"

Sound(k, cs, s, gone) ==
  Typed(k, cs, s) /\ Unseen(k, cs) /\ gone \in BOOLEAN /\ (~gone => Honest(k, cs, s))

SessionOK ==
  /\ Exclusive(sTabs, sLock, sCalls)
  /\ sServer = [todo |-> sServer.todo, signIns |-> sServer.signIns]
  /\ Sound(sCookie, sCalls, sServer.signIns, sLost)

-----------------------------------------------------------------------------
\* Only the ends of the sign-ins differ.
SameRows(s, r) ==
  /\ r \in Seq(SignIn) /\ Len(r) = Len(s)
  /\ \A f \in 1..Len(s) : r[f].row = s[f].row /\ (r[f].ended = "reused" => s[f].ended = "reused")

LEMMA SoundSameRows ==
  ASSUME NEW k, NEW cs, NEW s, NEW r, NEW gone, Sound(k, cs, s, gone), SameRows(s, r)
  PROVE  Sound(k, cs, r, gone)
<1>1. Typed(k, cs, r)  BY DEF Sound, Typed, Issued, SameRows
<1>2. ASSUME Honest(k, cs, s)  PROVE Honest(k, cs, r)
  BY <1>2 DEF Sound, Typed, SameRows, Honest, Newest, Issued, Token, TabCall
<1> QED  BY <1>1, <1>2 DEF Sound

\* A request that is sent, other than a refresh.
LEMMA SoundSent ==
  ASSUME NEW k, NEW cs, NEW s, NEW gone, Sound(k, cs, s, gone),
         NEW c \in TabCall, c.with = k, c.answer = "none", ~Asks(c)
  PROVE  Sound(k, cs \cup {c}, s, gone)
<1>2. ~Granted(c) /\ ~Rotated(c)  BY DEF Granted, Rotated
<1>1. Typed(k, cs \cup {c}, s)  BY <1>2 DEF Sound, Typed
<1>3. Unseen(k, cs \cup {c})  BY <1>2 DEF Sound, Unseen
<1>4. ASSUME Honest(k, cs, s)  PROVE Honest(k, cs \cup {c}, s)
  BY <1>2, <1>4 DEF Honest
<1> QED  BY <1>1, <1>3, <1>4 DEF Sound

\* A refresh that is sent when none is under way.
LEMMA SoundAsked ==
  ASSUME NEW k, NEW cs, NEW s, NEW gone, Sound(k, cs, s, gone),
         NEW c \in TabCall, c.with = k, c.answer = "none", Asks(c), \A d \in cs : ~Asks(d)
  PROVE  Sound(k, cs \cup {c}, s, gone)
<1>2. ~Granted(c) /\ ~Rotated(c)  BY DEF Granted, Rotated, Asks
<1>1. Typed(k, cs \cup {c}, s)  BY <1>2 DEF Sound, Typed
<1>3. Unseen(k, cs \cup {c})  BY <1>2 DEF Sound, Unseen
<1>4. ASSUME Honest(k, cs, s)  PROVE Honest(k, cs \cup {c}, s)
  <2>1. k # Session!NoCookie => Newest(k, s)  BY <1>4 DEF Honest, Rotated
  <2> QED  BY <1>2, <1>4, <2>1 DEF Honest, Rotated
<1> QED  BY <1>1, <1>3, <1>4 DEF Sound

\* Requests that are forgotten: a refresh only as a lost one.
LEMMA SoundFewer ==
  ASSUME NEW k, NEW cs, NEW s, NEW gone, Sound(k, cs, s, gone),
         NEW ds, ds \subseteq cs, NEW g \in BOOLEAN, gone => g,
         g \/ \A c \in cs : Rotated(c) => c \in ds
  PROVE  Sound(k, ds, s, g)
<1>1. Typed(k, ds, s)  BY DEF Sound, Typed
<1>2. Unseen(k, ds)  BY DEF Sound, Unseen
<1>3. ASSUME ~g  PROVE Honest(k, ds, s)
  BY <1>3 DEF Sound, Honest
<1> QED  BY <1>1, <1>2, <1>3 DEF Sound

\* The cookie of an answer is the newest token of its sign-in.
LEMMA SoundRotated ==
  ASSUME NEW k, NEW cs, NEW s, NEW gone, Sound(k, cs, s, gone), NEW c \in cs, Rotated(c)
  PROVE  Sound(<<c.with[1], c.with[2] + 1>>, cs \ {c}, s, gone)
<1> PICK j : j = <<c.with[1], c.with[2] + 1>>  OBVIOUS
<1>1. c.with \in Token /\ c.with[1] <= Len(s) /\ s \in Seq(SignIn) /\ Asks(c) /\ c \in TabCall
  BY DEF Sound, Typed, Issued, Rotated
<1>2. c.with[1] \in Nat /\ c.with[2] \in Nat /\ j \in Token /\ j[1] = c.with[1] /\ j[2] = c.with[2] + 1
  BY <1>1 DEF Token
<1>3. c.with[1] > 0  BY DEF Sound, Typed
<1>4. Typed(j, cs \ {c}, s)
  <2>1. Issued(j, s)  BY <1>1, <1>2, <1>3 DEF Issued
  <2> QED  BY <2>1 DEF Sound, Typed
<1>5. Unseen(j, cs \ {c})  BY <1>1, <1>2 DEF Sound, Unseen, Granted, Asks
<1>6. ASSUME Honest(k, cs, s)  PROVE Honest(j, cs \ {c}, s)
  <2>1. Newest(j, s)  BY <1>1, <1>2, <1>6 DEF Honest, Rotated, Newest
  <2> QED  BY <2>1, <1>6 DEF Honest
<1> QED  BY <1>4, <1>5, <1>6 DEF Sound

LEMMA SoundSignedIn ==
  ASSUME NEW k, NEW cs, NEW s, NEW gone, Sound(k, cs, s, gone), NEW c \in cs, Granted(c)
  PROVE  Sound(<<c.with[1], 0>>, cs \ {c}, s, gone)
<1> PICK j : j = <<c.with[1], 0>>  OBVIOUS
<1>1. c.with \in Token /\ c.with[1] <= Len(s) /\ c.with[1] > 0 /\ ~Asks(c)
  BY DEF Sound, Typed, Issued, Granted, Asks
<1>2. j \in Token /\ j[1] = c.with[1] /\ j[2] = 0  BY <1>1 DEF Token
<1>3. Typed(j, cs \ {c}, s)
  <2>1. Issued(j, s)  BY <1>1, <1>2 DEF Issued
  <2> QED  BY <2>1 DEF Sound, Typed
<1>4. Unseen(j, cs \ {c})  BY <1>2 DEF Sound, Unseen
<1>5. ASSUME Honest(k, cs, s)  PROVE Honest(j, cs \ {c}, s)
  <2>1. Newest(j, s)  BY <1>2, <1>5 DEF Honest, Newest
  <2> QED  BY <2>1, <1>5 DEF Honest
<1> QED  BY <1>3, <1>4, <1>5 DEF Sound

LEMMA SoundNoCookie ==
  ASSUME NEW k, NEW cs, NEW s, NEW gone, Sound(k, cs, s, gone)
  PROVE  Sound(Session!NoCookie, cs, s, gone)
<1> PICK j : j = Session!NoCookie  OBVIOUS
<1>1. j \in Token /\ j[1] = 0  BY DEF Session!NoCookie, Token
<1>2. Typed(j, cs, s)
  <2>1. Issued(j, s)  BY <1>1 DEF Issued, Sound, Typed
  <2> QED  BY <2>1 DEF Sound, Typed
<1>3. Unseen(j, cs)  BY <1>1 DEF Sound, Unseen, Typed
<1>4. ASSUME Honest(k, cs, s)  PROVE Honest(j, cs, s)  BY <1>4 DEF Honest
<1> QED  BY <1>2, <1>3, <1>4 DEF Sound

\* A request is answered: d is what it becomes.
Becomes(c, d, a, w) == d = [c EXCEPT !.answer = a, !.with = w]

LEMMA BecomesCall ==
  ASSUME NEW c \in TabCall, NEW a \in Answers, NEW w \in Token, NEW d, Becomes(c, d, a, w)
  PROVE  d \in TabCall /\ d.tab = c.tab /\ d.op = c.op /\ d.answer = a /\ d.with = w
BY DEF Becomes, TabCall

\* An answer that neither signs in nor rotates; if to a refresh, it was no race.
LEMMA SoundAnswered ==
  ASSUME NEW k, NEW cs, NEW s, NEW gone, Sound(k, cs, s, gone), NEW c \in cs,
         NEW d \in TabCall, d.op = c.op, d.with = c.with, d.answer # "none",
         ~Granted(d), ~Rotated(d), ~Rotated(c), Asks(d) => gone \/ d.answer # "race"
  PROVE  Sound(k, (cs \ {c}) \cup {d}, s, gone)
<1>1. Asks(c) <=> Asks(d)  BY DEF Asks
<1>2. Typed(k, (cs \ {c}) \cup {d}, s)  BY <1>1 DEF Sound, Typed
<1>3. Unseen(k, (cs \ {c}) \cup {d})  BY <1>1 DEF Sound, Unseen, Granted
<1>4. ASSUME ~gone, Honest(k, cs, s)  PROVE Honest(k, (cs \ {c}) \cup {d}, s)
  <2>1. Asks(d) => d.answer # "ok"  BY DEF Rotated
  <2> QED  BY <1>1, <1>4, <2>1 DEF Honest
<1> QED  BY <1>2, <1>3, <1>4 DEF Sound

LEMMA FirstRow == ASSUME NEW e, e = [row |-> 0, ended |-> "no"] PROVE e \in SignIn
BY DEF SignIn, Ends

\* A sign-in.
LEMMA SoundGranted ==
  ASSUME NEW k, NEW cs, NEW s, NEW gone, Sound(k, cs, s, gone), NEW c \in cs, ~Asks(c),
         NEW d \in TabCall, d.op = c.op, Granted(d), d.with = <<Len(s) + 1, 0>>,
         NEW r, r = Append(s, [row |-> 0, ended |-> "no"])
  PROVE  Sound(k, (cs \ {c}) \cup {d}, r, gone)
<1> DEFINE ds == (cs \ {c}) \cup {d}
<1>1. s \in Seq(SignIn) /\ cs \subseteq TabCall  BY DEF Sound, Typed
<1>2. /\ r \in Seq(SignIn) /\ Len(r) = Len(s) + 1
      /\ r[Len(s) + 1].row = 0 /\ r[Len(s) + 1].ended = "no"
      /\ \A f \in 1..Len(s) : r[f] = s[f]
  <2> PICK e : e = [row |-> 0, ended |-> "no"]  OBVIOUS
  <2>1. e \in SignIn /\ e.row = 0 /\ e.ended = "no"
    <3>1. e.row = 0 /\ e.ended = "no"  OBVIOUS
    <3>2. e \in SignIn  BY FirstRow
    <3> QED  BY <3>1, <3>2
  <2>2. r = Append(s, e)  OBVIOUS
  <2>3. r \in Seq(SignIn) /\ Len(r) = Len(s) + 1 /\ r[Len(s) + 1] = e
        /\ \A f \in 1..Len(s) : r[f] = s[f]
    BY <1>1, <2>1, <2>2
  <2> QED  BY <2>1, <2>3
<1>3. d.with[1] = Len(s) + 1 /\ d.with[2] = 0 /\ d.with \in Token /\ ~Asks(d) /\ ~Rotated(d) /\ Len(s) \in Nat
  BY <1>1 DEF Token, Granted, Asks, Rotated
<1>4. \A j : Issued(j, s) => Issued(j, r) /\ j[1] \in Nat  BY <1>2, <1>3 DEF Issued, Token
<1>5. Issued(d.with, r)  BY <1>2, <1>3 DEF Issued
<1>6. Typed(k, ds, r)
  <2>1. Issued(k, r) /\ \A e \in ds : Issued(e.with, r)  BY <1>4, <1>5 DEF Sound, Typed
  <2>2. \A x, y \in ds : Asks(x) /\ Asks(y) => x = y  BY <1>3 DEF Sound, Typed
  <2>3. \A x \in ds : Rotated(x) \/ Granted(x) => x.with[1] > 0  BY <1>1, <1>3 DEF Sound, Typed
  <2> QED  BY <1>1, <1>2, <2>1, <2>2, <2>3 DEF Typed
<1>7. k[1] # Len(s) + 1 /\ \A e \in cs : e.with[1] # Len(s) + 1
  BY <1>3, <1>4 DEF Sound, Typed, Issued
<1>8. Unseen(k, ds)  BY <1>3, <1>7 DEF Sound, Unseen
<1>9. ASSUME Honest(k, cs, s)  PROVE Honest(k, ds, r)
  <2>1. \A j : Newest(j, s) => Newest(j, r)  BY <1>2, <1>3 DEF Newest
  <2>2. Newest(d.with, r)  BY <1>2, <1>3 DEF Newest
  <2>3. ~Rotated(c)  BY DEF Rotated
  <2>4. \A f \in 1..Len(r) : r[f].ended # "reused"
    <3>1. \A f \in 1..Len(r) : f \in 1..Len(s) \/ f = Len(s) + 1  BY <1>2, <1>3
    <3> QED  BY <1>2, <1>9, <3>1 DEF Honest
  <2>5. \A e \in ds : Asks(e) =>
          /\ e.answer # "race"
          /\ e.answer = "none" /\ e.with # Session!NoCookie => Newest(e.with, r)
          /\ e.answer = "ok" => e.with[1] \in 1..Len(r) /\ r[e.with[1]].row = e.with[2] + 1
    BY <1>2, <1>3, <1>9, <2>1 DEF Honest
  <2>6. k # Session!NoCookie => Newest(k, r) \/ \E e \in ds : Rotated(e) /\ e.with[1] = k[1]
    BY <1>9, <2>1, <2>3 DEF Honest
  <2> QED  BY <1>3, <1>9, <2>1, <2>2, <2>4, <2>5, <2>6 DEF Honest
<1> QED  BY <1>6, <1>8, <1>9 DEF Sound

\* A rotation.
NextRow(s, r, n) ==
  /\ r \in Seq(SignIn) /\ Len(r) = Len(s)
  /\ \A f \in 1..Len(s) : r[f].ended = s[f].ended
                          /\ r[f].row = IF f = n THEN s[f].row + 1 ELSE s[f].row

LEMMA SoundRow ==
  ASSUME NEW k, NEW cs, NEW s, NEW gone, Sound(k, cs, s, gone), NEW c \in cs, Asks(c), c.answer = "none",
         c.with[1] \in 1..Len(s), s[c.with[1]].row = c.with[2],
         NEW d \in TabCall, d.op = c.op, d.answer = "ok", d.with = c.with,
         NEW r, NextRow(s, r, c.with[1])
  PROVE  Sound(k, (cs \ {c}) \cup {d}, r, gone)
<1> DEFINE ds == (cs \ {c}) \cup {d}
<1>1. Asks(d) /\ Rotated(d) /\ ~Granted(d) /\ c \in TabCall  BY DEF Asks, Rotated, Granted, Sound, Typed
<1>2. \A e \in cs : Asks(e) => e = c  BY DEF Sound, Typed
<1>3. Typed(k, ds, r)  BY <1>1, <1>2 DEF Sound, Typed, Issued, NextRow
<1>4. Unseen(k, ds)  BY <1>1 DEF Sound, Unseen, Granted
<1>5. ASSUME Honest(k, cs, s)  PROVE Honest(k, ds, r)
  <2>1. \A j : Newest(j, s) /\ j[1] # c.with[1] => Newest(j, r)  BY DEF Newest, NextRow
  <2>2. \A e \in ds : Granted(e) => e.with[2] = 0 /\ Newest(e.with, r)
    BY <1>1, <1>5, <2>1 DEF Honest, Sound, Unseen
  <2>3. k # Session!NoCookie => Newest(k, r) \/ \E e \in ds : Rotated(e) /\ e.with[1] = k[1]
    BY <1>1, <1>2, <1>5, <2>1 DEF Honest, Rotated
  <2>4. d.with[1] \in 1..Len(r) /\ r[d.with[1]].row = d.with[2] + 1  BY DEF NextRow
  <2>5. \A f \in 1..Len(r) : r[f].ended # "reused"  BY <1>5 DEF Honest, NextRow
  <2> QED  BY <1>1, <1>2, <2>2, <2>3, <2>4, <2>5 DEF Honest
<1> QED  BY <1>3, <1>4, <1>5 DEF Sound

-----------------------------------------------------------------------------
\* The guards move a tab, and leave its refresh and its requests alone.
LEMMA RoutedTab ==
  ASSUME NEW x, IsTab(x)
  PROVE  LET y == Session!Routed(x) IN
         IsTab(y) /\ y.refresh = x.refresh /\ y.call = x.call /\ (y.at = "closed" <=> x.at = "closed")
<1> PICK y : y = Session!Routed(x)  OBVIOUS
<1> PICK to : to = Session!nextStep(x.todo)  OBVIOUS
<1>1. to # "closed"  BY DEF Session!nextStep
<1>2. y = x \/ (x.at # "closed" /\ y.at # "closed" /\ \E v : y = [x EXCEPT !.at = v, !.busy = FALSE])
  <2>1. CASE x.status = "unknown" \/ x.at \in {"closed", "splash"}
    BY <2>1 DEF Session!Routed
  <2>2. CASE ~(x.status = "unknown" \/ x.at \in {"closed", "splash"}) /\ x.status # "authenticated"
    <3>1. y = IF "signin" = x.at THEN x ELSE [x EXCEPT !.at = "signin", !.busy = FALSE]
      BY <2>2 DEF Session!Routed
    <3>2. CASE y = x  BY <3>2
    <3>3. CASE y # x
      <4>1. y = [x EXCEPT !.at = "signin", !.busy = FALSE]  BY <3>1, <3>3
      <4>2. y.at = "signin"  BY <4>1 DEF IsTab, TabFields
      <4> QED  BY <2>2, <4>1, <4>2
    <3> QED  BY <3>2, <3>3
  <2>3. CASE ~(x.status = "unknown" \/ x.at \in {"closed", "splash"}) /\ x.status = "authenticated"
    <3>1. y \in {x, IF to = x.at THEN x ELSE [x EXCEPT !.at = to, !.busy = FALSE]}
      BY <2>3 DEF Session!Routed
    <3>2. CASE y = x  BY <3>2
    <3>3. CASE y # x
      <4>1. y = [x EXCEPT !.at = to, !.busy = FALSE]  BY <3>1, <3>3
      <4>2. y.at = to  BY <4>1 DEF IsTab, TabFields
      <4> QED  BY <1>1, <2>3, <4>1, <4>2
    <3> QED  BY <3>2, <3>3
  <2> QED  BY <2>1, <2>2, <2>3
<1> QED  BY <1>2 DEF IsTab, TabFields

LEMMA PutTab ==
  ASSUME Exclusive(sTabs, sLock, sCalls), NEW t \in Tab, NEW x, IsTab(x), Session!Put(t, x)
  PROVE  /\ DOMAIN sTabs' = Tab /\ \A u \in Tab : IsTab(sTabs'[u])
         /\ \A u \in Tab \ {t} : sTabs'[u] = sTabs[u]
         /\ sTabs'[t].refresh = x.refresh /\ sTabs'[t].call = x.call
         /\ sTabs'[t].at = "closed" <=> x.at = "closed"
<1> PICK y : y = Session!Routed(x)  OBVIOUS
<1>1. sTabs' = [sTabs EXCEPT ![t] = y]  BY DEF Session!Put
<1>2. IsTab(y) /\ y.refresh = x.refresh /\ y.call = x.call /\ (y.at = "closed" <=> x.at = "closed")
  BY RoutedTab
<1> QED  BY <1>1, <1>2 DEF Exclusive

\* A step of a tab that at most queues a refresh.
LEMMA QuietTab ==
  ASSUME Exclusive(sTabs, sLock, sCalls), NEW t \in Tab, NEW x, IsTab(x), Session!Put(t, x),
         x.at # "closed",
         x.refresh = sTabs[t].refresh \/ (sTabs[t].refresh = "none" /\ x.refresh = "queued"),
         NEW cs, cs \subseteq TabCall,
         \A c \in cs : c \in sCalls \/ (c.tab = t /\ ~Asks(c))
  PROVE  Exclusive(sTabs', sLock, cs)
<1>1. /\ DOMAIN sTabs' = Tab /\ \A u \in Tab : IsTab(sTabs'[u])
      /\ \A u \in Tab \ {t} : sTabs'[u] = sTabs[u]
      /\ sTabs'[t].refresh = x.refresh /\ sTabs'[t].call = x.call
      /\ sTabs'[t].at # "closed"
  BY PutTab
<1>2. \A c \in cs : c.tab \in Tab  BY DEF TabCall
<1>3. \A c \in cs : Asks(c) => c \in sCalls  OBVIOUS
<1>4. sLock \in Tab \cup {NoTab}  BY DEF Exclusive
<1>5. \A c \in cs : Asks(c) => sLock = c.tab /\ sTabs'[c.tab].refresh = "asking"
  BY <1>1, <1>2, <1>3 DEF Exclusive
<1>6. \A u \in Tab : sTabs'[u].refresh \in {"asking", "pausing"} => sLock = u
  BY <1>1 DEF Exclusive
<1>7. \A u \in Tab : sTabs'[u].at = "closed" => sTabs'[u].refresh = "none" /\ sTabs'[u].call = "none"
  BY <1>1 DEF Exclusive
<1>8. \A c \in cs : sTabs'[c.tab].at # "closed"
  BY <1>1, <1>2 DEF Exclusive
<1> QED  BY <1>1, <1>4, <1>5, <1>6, <1>7, <1>8 DEF Exclusive

LEMMA QuietSession ==
  ASSUME SessionOK, NEW t \in Tab, NEW x, IsTab(x), Session!Put(t, x),
         x.at # "closed",
         x.refresh = sTabs[t].refresh \/ (sTabs[t].refresh = "none" /\ x.refresh = "queued"),
         UNCHANGED <<sCookie, sLock, sCalls, sServer, sLost>>
  PROVE  SessionOK'
<1> PICK cs : cs = sCalls  OBVIOUS
<1>1. cs \subseteq TabCall  BY DEF SessionOK, Sound, Typed
<1>2. Exclusive(sTabs', sLock, cs)  BY <1>1, QuietTab DEF SessionOK
<1> QED  BY <1>2 DEF SessionOK

LEMMA ATab == ASSUME SessionOK, NEW t \in Tab PROVE IsTab(sTabs[t])
BY DEF SessionOK, Exclusive

LEMMA TabSteps ==
  ASSUME SessionOK, NEW t \in Tab,
         \/ Session!finish(t) \/ Session!choose(t) \/ Session!OpenTab(t) \/ Session!Expired(t)
         \/ \E op \in Session!Steps \cup {"use"} : Session!Request(t, op)
  PROVE  SessionOK'
<1>0. IsTab(sTabs[t])  BY ATab
<1>1. ASSUME Session!finish(t)  PROVE SessionOK'
  <2> PICK x : x = [sTabs[t] EXCEPT !.at = IF sTabs[t].status = "authenticated"
                                           THEN Session!nextStep(sTabs[t].todo) ELSE "signin"]
    OBVIOUS
  <2>1. \A todo : Session!nextStep(todo) # "closed"  BY DEF Session!nextStep
  <2>2. IsTab(x) /\ x.at # "closed" /\ x.refresh = sTabs[t].refresh  BY <1>0, <2>1 DEF IsTab, TabFields
  <2>3. Session!Put(t, x) /\ UNCHANGED <<sCookie, sLock, sCalls, sServer, sLost>>
    BY <1>1 DEF Session!finish
  <2> QED  BY <2>2, <2>3, QuietSession
<1>2. ASSUME Session!choose(t)  PROVE SessionOK'
  <2> PICK x : x = [sTabs[t] EXCEPT !.at = "onboarding"]  OBVIOUS
  <2>1. IsTab(x) /\ x.at # "closed" /\ x.refresh = sTabs[t].refresh  BY <1>0 DEF IsTab, TabFields
  <2>2. Session!Put(t, x) /\ UNCHANGED <<sCookie, sLock, sCalls, sServer, sLost>>
    BY <1>2 DEF Session!choose
  <2> QED  BY <2>1, <2>2, QuietSession
<1>3. ASSUME Session!OpenTab(t)  PROVE SessionOK'
  <2>1. PICK p \in {"splash", "app"} : Session!Put(t, Session!refreshing(Session!Loaded(p)))
    BY <1>3 DEF Session!OpenTab
  <2> PICK x : x = Session!refreshing(Session!Loaded(p))  OBVIOUS
  <2>2. IsTab(x) /\ x.at = p /\ x.refresh = "queued"
    BY DEF IsTab, TabFields, Session!refreshing, Session!Loaded
  <2>3. sTabs[t].refresh = "none"  BY <1>3 DEF Session!OpenTab, SessionOK, Exclusive
  <2>4. Session!Put(t, x) /\ UNCHANGED <<sCookie, sLock, sCalls, sServer, sLost>>
    BY <1>3, <2>1 DEF Session!OpenTab
  <2> QED  BY <2>2, <2>3, <2>4, QuietSession
<1>4. ASSUME Session!Expired(t)  PROVE SessionOK'
  <2> PICK x : x = IF sTabs[t].call = "sent" /\ sTabs[t].status = "authenticated"
                   THEN [Session!refreshing(sTabs[t]) EXCEPT !.call = "waiting"]
                   ELSE [sTabs[t] EXCEPT !.call = "none", !.busy = FALSE]
    OBVIOUS
  <2>1. sTabs[t].at # "closed"  BY <1>4 DEF Session!Expired, SessionOK, Exclusive
  <2>2. /\ IsTab(x) /\ x.at = sTabs[t].at
        /\ x.refresh = sTabs[t].refresh \/ (sTabs[t].refresh = "none" /\ x.refresh = "queued")
    BY <1>0 DEF IsTab, TabFields, Session!refreshing
  <2>3. Session!Put(t, x) /\ UNCHANGED <<sCookie, sLock, sCalls, sServer, sLost>>
    BY <1>4 DEF Session!Expired
  <2> QED  BY <2>1, <2>2, <2>3, QuietSession
<1>5. ASSUME NEW op \in Session!Steps \cup {"use"}, Session!Request(t, op)  PROVE SessionOK'
  <2> PICK x : x = [sTabs[t] EXCEPT !.call = "sent", !.busy = (op # "use")]  OBVIOUS
  <2>1. sTabs[t].at # "closed"  BY <1>5 DEF Session!Request, Session!Steps
  <2>2. IsTab(x) /\ x.at = sTabs[t].at /\ x.refresh = sTabs[t].refresh  BY <1>0 DEF IsTab, TabFields
  <2>3. Session!Put(t, x) /\ UNCHANGED <<sCookie, sLock, sCalls, sServer, sLost>>
    BY <1>5 DEF Session!Request
  <2> QED  BY <2>1, <2>2, <2>3, QuietSession
<1> QED  BY <1>1, <1>2, <1>3, <1>4, <1>5

LEMMA RowsAreASeq == ASSUME NEW n \in Nat, NEW r \in [1..n -> SignIn] PROVE r \in Seq(SignIn) /\ Len(r) = n
OBVIOUS

\* A request is answered; a new password ends other sign-ins.
LEMMA DoneStep ==
  ASSUME SessionOK, NEW t \in Tab, NEW ok \in BOOLEAN, Session!Done(t, ok)
  PROVE  SessionOK'
<1> PICK s : s = sServer.signIns  OBVIOUS
<1>1. s \in Seq(SignIn)  BY DEF SessionOK, Sound, Typed
<1>2. \A keep : SameRows(s, Session!OthersEnded(keep))
  <2> TAKE keep
  <2> PICK r : r = Session!OthersEnded(keep)  OBVIOUS
  <2>1. DOMAIN s = 1..Len(s) /\ Len(s) \in Nat /\ \A f \in 1..Len(s) : s[f] \in SignIn  BY <1>1
  <2>2. r = [f \in 1..Len(s) |->
               [s[f] EXCEPT !.ended = IF s[f].ended = "no" /\ f # keep THEN "password changed" ELSE s[f].ended]]
    BY <2>1 DEF Session!OthersEnded
  <2>3. \A f \in 1..Len(s) : /\ r[f] \in SignIn /\ r[f].row = s[f].row
                             /\ r[f].ended = "reused" => s[f].ended = "reused"
    <3> TAKE f \in 1..Len(s)
    <3> PICK e : e = s[f]  OBVIOUS
    <3> PICK v : v = IF e.ended = "no" /\ f # keep THEN "password changed" ELSE e.ended  OBVIOUS
    <3>1. e \in SignIn  BY <2>1
    <3>2. r[f] = [e EXCEPT !.ended = v]  BY <2>2
    <3> QED  BY <3>1, <3>2 DEF SignIn, Ends
  <2>4. r \in Seq(SignIn) /\ Len(r) = Len(s)
    <3> PICK n : n = Len(s)  OBVIOUS
    <3>1. r \in [1..n -> SignIn] /\ n \in Nat  BY <2>1, <2>2, <2>3
    <3> QED  BY <3>1, RowsAreASeq
  <2> QED  BY <2>3, <2>4 DEF SameRows
<1>3. sServer' = [todo |-> sServer'.todo, signIns |-> sServer'.signIns]
      /\ (sServer'.signIns = s \/ SameRows(s, sServer'.signIns))
  BY <1>2 DEF Session!Done, SessionOK
<1>4. Sound(sCookie, sCalls, sServer'.signIns, sLost)
  <2> PICK r : r = sServer'.signIns  OBVIOUS
  <2> QED  BY <1>3, SoundSameRows DEF SessionOK
<1>5. PICK x : Session!Put(t, x) /\ IsTab(x) /\ x.at # "closed" /\ x.refresh = sTabs[t].refresh
  <2> PICK step : step = IF sTabs[t].at = "onboarding" /\ sTabs[t].busy THEN {"onboarding"}
                         ELSE IF sTabs[t].at = "password" /\ sTabs[t].busy THEN {"password"} ELSE {}
    OBVIOUS
  <2> PICK y : y = [sTabs[t] EXCEPT !.call = "none", !.busy = FALSE]  OBVIOUS
  <2> PICK x : x = CASE step = {"onboarding"} ->
                          [y EXCEPT !.at = "app", !.todo = IF ok THEN sServer'.todo ELSE @]
                     [] step = {"password"} /\ ok ->
                          [y EXCEPT !.at = Session!nextStep(sTabs[t].todo \ step), !.todo = @ \ step]
                     [] OTHER -> y
    OBVIOUS
  <2>1. Session!Put(t, x)  BY DEF Session!Done
  <2>2. IsTab(y) /\ y.at = sTabs[t].at /\ y.refresh = sTabs[t].refresh  BY ATab DEF IsTab, TabFields
  <2>3. sTabs[t].at # "closed"  BY DEF Session!Done, SessionOK, Exclusive
  <2>4. \A todo : Session!nextStep(todo) # "closed"  BY DEF Session!nextStep
  <2>5. IsTab(x) /\ x.at # "closed" /\ x.refresh = sTabs[t].refresh
    BY <2>2, <2>3, <2>4 DEF IsTab, TabFields
  <2> QED  BY <2>1, <2>5
<1>6. Exclusive(sTabs', sLock, sCalls)
  <2> PICK cs : cs = sCalls  OBVIOUS
  <2>1. cs \subseteq TabCall  BY DEF SessionOK, Sound, Typed
  <2>2. Exclusive(sTabs', sLock, cs)  BY <1>5, <2>1, QuietTab DEF SessionOK
  <2> QED  BY <2>2
<1>7. UNCHANGED <<sCookie, sLock, sCalls, sLost>>  BY DEF Session!Done
<1> QED  BY <1>3, <1>4, <1>6, <1>7 DEF SessionOK

-----------------------------------------------------------------------------
LEMMA SessionFacts ==
  ASSUME SessionOK
  PROVE  /\ sCalls \subseteq TabCall /\ sCookie \in Token /\ sLost \in BOOLEAN
         /\ \A c \in sCalls : c.tab \in Tab /\ IsTab(sTabs[c.tab]) /\ sTabs[c.tab].at # "closed"
         /\ sLock \in Tab \cup {NoTab}
<1>1. sCalls \subseteq TabCall /\ sCookie \in Token /\ sLost \in BOOLEAN
  BY DEF SessionOK, Sound, Typed, Issued
<1>2. \A c \in sCalls : c.tab \in Tab  BY <1>1 DEF TabCall
<1> QED  BY <1>1, <1>2 DEF SessionOK, Exclusive

\* A request that a tab sends.
NewCall(t, op, c) == c = [tab |-> t, op |-> op, with |-> sCookie, answer |-> "none"]

LEMMA ANewCall ==
  ASSUME SessionOK, NEW t \in Tab, NEW op \in Ops, NEW c, NewCall(t, op, c)
  PROVE  c \in TabCall /\ c.tab = t /\ c.op = op /\ c.with = sCookie /\ c.answer = "none"
BY SessionFacts DEF NewCall, TabCall, Answers

LEMMA SignInStep == ASSUME SessionOK, NEW t \in Tab, Session!signIn(t) PROVE SessionOK'
<1> PICK c : NewCall(t, "login", c)  BY DEF NewCall
<1> PICK cs : cs = sCalls \cup {c}  OBVIOUS
<1> PICK x : x = [sTabs[t] EXCEPT !.busy = TRUE]  OBVIOUS
<1>1. c \in TabCall /\ c.tab = t /\ c.with = sCookie /\ c.answer = "none" /\ ~Asks(c)
  BY ANewCall DEF Ops, Asks
<1>2. /\ sCalls' = cs /\ Session!Put(t, x) /\ sTabs[t].at = "signin"
      /\ UNCHANGED <<sCookie, sLock, sServer, sLost>>
  BY DEF Session!signIn, Session!Send, NewCall
<1>3. IsTab(x) /\ x.at = sTabs[t].at /\ x.refresh = sTabs[t].refresh  BY ATab DEF IsTab, TabFields
<1>4. cs \subseteq TabCall  BY <1>1, SessionFacts
<1>5. Exclusive(sTabs', sLock, cs)  BY <1>1, <1>2, <1>3, <1>4, QuietTab DEF SessionOK
<1>6. Sound(sCookie, cs, sServer.signIns, sLost)  BY <1>1, SoundSent DEF SessionOK
<1> QED  BY <1>2, <1>5, <1>6 DEF SessionOK

LEMMA SignOutStep == ASSUME SessionOK, NEW t \in Tab, Session!signOut(t) PROVE SessionOK'
<1> PICK c : NewCall(t, "logout", c)  BY DEF NewCall
<1> PICK cs : cs = sCalls \cup {c}  OBVIOUS
<1>1. c \in TabCall /\ c.tab = t /\ c.with = sCookie /\ c.answer = "none" /\ ~Asks(c)
  BY ANewCall DEF Ops, Asks
<1>2. /\ sCalls' = cs /\ sTabs[t].at = "app"
      /\ UNCHANGED <<sTabs, sCookie, sLock, sServer, sLost>>
  BY DEF Session!signOut, Session!Send, NewCall
<1>3. Exclusive(sTabs, sLock, cs)  BY <1>1, <1>2 DEF SessionOK, Exclusive
<1>4. Sound(sCookie, cs, sServer.signIns, sLost)  BY <1>1, SoundSent DEF SessionOK
<1> QED  BY <1>2, <1>3, <1>4 DEF SessionOK

\* Nobody else refreshes while a tab has the lock, or nobody has it.
LEMMA RefreshStep == ASSUME SessionOK, NEW t \in Tab, Session!doRefresh(t) PROVE SessionOK'
<1> PICK c : NewCall(t, "refresh", c)  BY DEF NewCall
<1> PICK cs : cs = sCalls \cup {c}  OBVIOUS
<1> PICK x : x = [sTabs[t] EXCEPT !.refresh = "asking"]  OBVIOUS
<1>1. c \in TabCall /\ c.tab = t /\ c.with = sCookie /\ c.answer = "none" /\ Asks(c)
  BY ANewCall DEF Ops, Asks
<1>2. /\ sCalls' = cs /\ Session!Put(t, x) /\ sLock' = t
      /\ (sTabs[t].refresh = "queued" /\ sLock = NoTab) \/ sTabs[t].refresh = "pausing"
      /\ UNCHANGED <<sCookie, sServer, sLost>>
  BY DEF Session!doRefresh, Session!LockFree, Session!Send, NewCall
<1>3. IsTab(x) /\ x.at = sTabs[t].at /\ x.call = sTabs[t].call /\ x.refresh = "asking"
  BY ATab DEF IsTab, TabFields
<1>4. sTabs[t].at # "closed" /\ (sLock = NoTab \/ sLock = t)  BY <1>2 DEF SessionOK, Exclusive
<1>5. \A d \in sCalls : ~Asks(d)
  BY <1>2, <1>4, SessionFacts, PeopleAssumption DEF SessionOK, Exclusive
<1>6. cs \subseteq TabCall  BY <1>1, SessionFacts
<1>7. /\ DOMAIN sTabs' = Tab /\ \A u \in Tab : IsTab(sTabs'[u])
      /\ \A u \in Tab \ {t} : sTabs'[u] = sTabs[u]
      /\ sTabs'[t].refresh = "asking" /\ sTabs'[t].call = x.call
      /\ sTabs'[t].at # "closed"
  BY <1>2, <1>3, <1>4, PutTab DEF SessionOK
<1>8. Exclusive(sTabs', sLock', cs)
  <2>1. \A u \in Tab \ {t} : sTabs[u].refresh \notin {"asking", "pausing"}
    BY <1>4, PeopleAssumption DEF SessionOK, Exclusive
  <2>2. \A d \in cs : Asks(d) => sLock' = d.tab /\ sTabs'[d.tab].refresh = "asking"
    BY <1>1, <1>2, <1>5, <1>7
  <2>3. \A u \in Tab : sTabs'[u].refresh \in {"asking", "pausing"} => sLock' = u
    BY <1>2, <1>7, <2>1
  <2>4. \A u \in Tab : sTabs'[u].at = "closed" => sTabs'[u].refresh = "none" /\ sTabs'[u].call = "none"
    BY <1>7 DEF SessionOK, Exclusive
  <2>5. \A d \in cs : sTabs'[d.tab].at # "closed"  BY <1>1, <1>7, SessionFacts
  <2> QED  BY <1>2, <1>7, <2>2, <2>3, <2>4, <2>5 DEF Exclusive
<1>9. Sound(sCookie, cs, sServer.signIns, sLost)  BY <1>1, <1>5, SoundAsked DEF SessionOK
<1> QED  BY <1>2, <1>8, <1>9 DEF SessionOK

LEMMA CloseStep == ASSUME SessionOK, NEW t \in Tab, Session!CloseTab(t) PROVE SessionOK'
<1> PICK cs : cs = {c \in sCalls : c.tab # t}  OBVIOUS
<1> PICK x : x = Session!Closed  OBVIOUS
<1>1. /\ sCalls' = cs /\ Session!Put(t, x) /\ sLock' = IF sLock = t THEN NoTab ELSE sLock
      /\ sLost' = (sLost \/ \E c \in sCalls : c.tab = t /\ c.op = "refresh")
      /\ UNCHANGED <<sCookie, sServer>>
  BY DEF Session!CloseTab
<1>2. IsTab(x) /\ x.at = "closed" /\ x.call = "none" /\ x.refresh = "none"
  BY DEF IsTab, TabFields, Session!Closed, Session!Loaded
<1>3. /\ DOMAIN sTabs' = Tab /\ \A u \in Tab : IsTab(sTabs'[u])
      /\ \A u \in Tab \ {t} : sTabs'[u] = sTabs[u]
      /\ sTabs'[t].refresh = "none" /\ sTabs'[t].call = "none"
  BY <1>1, <1>2, PutTab DEF SessionOK
<1>4. \A c \in cs : c \in sCalls /\ c.tab \in Tab \ {t}  BY SessionFacts
<1>5. Exclusive(sTabs', sLock', cs)
  <2>1. \A c \in cs : Asks(c) => sLock' = c.tab /\ sTabs'[c.tab].refresh = "asking"
    BY <1>1, <1>3, <1>4 DEF SessionOK, Exclusive
  <2>2. \A u \in Tab : sTabs'[u].refresh \in {"asking", "pausing"} => sLock' = u
    BY <1>1, <1>3 DEF SessionOK, Exclusive
  <2>3. \A u \in Tab : sTabs'[u].at = "closed" => sTabs'[u].refresh = "none" /\ sTabs'[u].call = "none"
    BY <1>3 DEF SessionOK, Exclusive
  <2>4. \A c \in cs : sTabs'[c.tab].at # "closed"  BY <1>3, <1>4 DEF SessionOK, Exclusive
  <2>5. sLock' \in Tab \cup {NoTab}  BY <1>1, SessionFacts
  <2> QED  BY <1>3, <2>1, <2>2, <2>3, <2>4, <2>5 DEF Exclusive
<1>6. Sound(sCookie, cs, sServer.signIns, sLost')
  <2> PICK g : g = sLost'  OBVIOUS
  <2>1. g \in BOOLEAN /\ (sLost => g)  BY <1>1, SessionFacts
  <2>2. g \/ \A c \in sCalls : Rotated(c) => c \in cs  BY <1>1 DEF Rotated, Asks
  <2>3. cs \subseteq sCalls  OBVIOUS
  <2>4. Sound(sCookie, cs, sServer.signIns, g)  BY <2>1, <2>2, <2>3, SoundFewer DEF SessionOK
  <2> QED  BY <2>4
<1> QED  BY <1>1, <1>5, <1>6 DEF SessionOK

-----------------------------------------------------------------------------
LEMMA SignInAnsweredStep ==
  ASSUME SessionOK, NEW c \in sCalls, Session!SignInAnswered(c) PROVE SessionOK'
<1> PICK cs : cs = sCalls \ {c}  OBVIOUS
<1> PICK t : t = c.tab  OBVIOUS
<1>1. /\ sCalls' = cs /\ UNCHANGED <<sLock, sServer, sLost>> /\ c.op = "login" /\ t \in Tab
      /\ IsTab(sTabs[t]) /\ sTabs[t].at # "closed"
  BY SessionFacts DEF Session!SignInAnswered
<1>2. PICK x : Session!Put(t, x) /\ IsTab(x) /\ x.at = sTabs[t].at /\ x.refresh = sTabs[t].refresh
  <2>1. CASE c.answer = "ok"
    <3> PICK x : x = [Session!setSession(sTabs[t], c.with[1], sServer.todo) EXCEPT !.busy = FALSE]  OBVIOUS
    <3>1. Session!Put(t, x)  BY <2>1 DEF Session!SignInAnswered
    <3>2. IsTab(x) /\ x.at = sTabs[t].at /\ x.refresh = sTabs[t].refresh
      BY <1>1 DEF IsTab, TabFields, Session!setSession
    <3> QED  BY <3>1, <3>2
  <2>2. CASE c.answer # "ok"
    <3> PICK x : x = [sTabs[t] EXCEPT !.busy = FALSE]  OBVIOUS
    <3>1. Session!Put(t, x)  BY <2>2 DEF Session!SignInAnswered
    <3>2. IsTab(x) /\ x.at = sTabs[t].at /\ x.refresh = sTabs[t].refresh
      BY <1>1 DEF IsTab, TabFields
    <3> QED  BY <3>1, <3>2
  <2> QED  BY <2>1, <2>2
<1>3. cs \subseteq TabCall /\ \A d \in cs : d \in sCalls  BY SessionFacts
<1>4. Exclusive(sTabs', sLock, cs)  BY <1>1, <1>2, <1>3, QuietTab DEF SessionOK
<1>5. Sound(sCookie', cs, sServer.signIns, sLost)
  <2>1. CASE c.answer = "ok"
    <3> PICK k : k = sCookie'  OBVIOUS
    <3>1. Granted(c) /\ k = <<c.with[1], 0>>  BY <2>1 DEF Session!SignInAnswered, Granted
    <3>2. Sound(<<c.with[1], 0>>, cs, sServer.signIns, sLost)  BY <3>1, SoundSignedIn DEF SessionOK
    <3> QED  BY <3>1, <3>2
  <2>2. CASE c.answer # "ok"
    <3>1. sCookie' = sCookie /\ ~Rotated(c)  BY <2>2 DEF Session!SignInAnswered, Rotated
    <3>2. Sound(sCookie, cs, sServer.signIns, sLost)  BY <3>1, SessionFacts, SoundFewer DEF SessionOK
    <3> QED  BY <3>1, <3>2
  <2> QED  BY <2>1, <2>2
<1> QED  BY <1>1, <1>4, <1>5 DEF SessionOK

LEMMA SignOutAnsweredStep ==
  ASSUME SessionOK, NEW c \in sCalls, Session!SignOutAnswered(c) PROVE SessionOK'
<1> PICK cs : cs = sCalls \ {c}  OBVIOUS
<1> PICK t : t = c.tab  OBVIOUS
<1> PICK x : x = Session!signedOut(sTabs[t])  OBVIOUS
<1>1. /\ sCalls' = cs /\ UNCHANGED <<sLock, sServer, sLost>> /\ c.op = "logout" /\ t \in Tab
      /\ IsTab(sTabs[t]) /\ sTabs[t].at # "closed" /\ Session!Put(t, x)
      /\ sCookie' \in {sCookie, Session!NoCookie}
  BY SessionFacts DEF Session!SignOutAnswered
<1>2. IsTab(x) /\ x.at = sTabs[t].at /\ x.refresh = sTabs[t].refresh
  BY <1>1 DEF IsTab, TabFields, Session!signedOut
<1>3. cs \subseteq TabCall /\ \A d \in cs : d \in sCalls  BY SessionFacts
<1>4. Exclusive(sTabs', sLock, cs)  BY <1>1, <1>2, <1>3, QuietTab DEF SessionOK
<1>5. Sound(sCookie, cs, sServer.signIns, sLost)
  BY <1>1, SessionFacts, SoundFewer DEF SessionOK, Rotated, Asks
<1>6. Sound(Session!NoCookie, cs, sServer.signIns, sLost)  BY <1>5, SoundNoCookie
<1>7. Sound(sCookie', cs, sServer.signIns, sLost)  BY <1>1, <1>5, <1>6
<1> QED  BY <1>1, <1>4, <1>7 DEF SessionOK

\* What is left of a refresh that ended.
LEMMA RefreshEnds ==
  ASSUME SessionOK, NEW c \in sCalls, Asks(c), NEW x, IsTab(x), Session!Put(c.tab, x), x.at # "closed",
         NEW l, \/ l = NoTab /\ x.refresh = "none"
                \/ l = sLock /\ x.refresh = "pausing"
  PROVE  Exclusive(sTabs', l, sCalls \ {c})
<1> PICK cs : cs = sCalls \ {c}  OBVIOUS
<1> PICK t : t = c.tab  OBVIOUS
<1>0. t \in Tab /\ sLock = t /\ Session!Put(t, x)  BY SessionFacts DEF SessionOK, Exclusive
<1>1. /\ DOMAIN sTabs' = Tab /\ \A u \in Tab : IsTab(sTabs'[u])
      /\ \A u \in Tab \ {t} : sTabs'[u] = sTabs[u]
      /\ sTabs'[t].refresh = x.refresh
      /\ sTabs'[t].at # "closed"
  BY <1>0, PutTab DEF SessionOK
<1>2. \A d \in cs : ~Asks(d)  BY DEF SessionOK, Sound, Typed
<1>3. \A u \in Tab \ {t} : sTabs[u].refresh \notin {"asking", "pausing"}
  BY <1>0 DEF SessionOK, Exclusive
<1>4. \A u \in Tab : sTabs'[u].refresh \in {"asking", "pausing"} => l = u
  BY <1>0, <1>1, <1>3
<1>5. \A u \in Tab : sTabs'[u].at = "closed" => sTabs'[u].refresh = "none" /\ sTabs'[u].call = "none"
  BY <1>1 DEF SessionOK, Exclusive
<1>6. \A d \in cs : sTabs'[d.tab].at # "closed"  BY <1>1, SessionFacts
<1>7. l \in Tab \cup {NoTab}  BY <1>0
<1>8. Exclusive(sTabs', l, cs)  BY <1>1, <1>2, <1>4, <1>5, <1>6, <1>7 DEF Exclusive
<1> QED  BY <1>8

LEMMA RefreshedTab ==
  ASSUME NEW x, IsTab(x), NEW ok \in BOOLEAN, NEW y, y = Session!Refreshed(x, ok)
  PROVE  IsTab(y) /\ y.at = x.at /\ y.refresh = "none"
BY DEF IsTab, TabFields, Session!Refreshed, Session!signedOut

LEMMA RefreshAnsweredStep ==
  ASSUME SessionOK, NEW c \in sCalls, Session!RefreshAnswered(c) PROVE SessionOK'
<1> PICK cs : cs = sCalls \ {c}  OBVIOUS
<1> PICK t : t = c.tab  OBVIOUS
<1> PICK x : x = sTabs[t]  OBVIOUS
<1> PICK race : race = (c.answer = "race" /\ x.attempt = 0)  OBVIOUS
<1>1. /\ sCalls' = cs /\ UNCHANGED <<sServer, sLost>> /\ Asks(c) /\ t \in Tab
      /\ IsTab(x) /\ x.at # "closed" /\ sLock' = (IF race THEN sLock ELSE NoTab)
      /\ race \in BOOLEAN
  BY SessionFacts DEF Session!RefreshAnswered, Asks
<1>2. CASE c.answer = "ok"
  <2> PICK z : z = Session!setSession(x, c.with[1], sServer.todo)  OBVIOUS
  <2> PICK y : y = Session!Refreshed(z, TRUE)  OBVIOUS
  <2>1. ~race  BY <1>2
  <2>2. Session!Put(t, y) /\ sCookie' = <<c.with[1], c.with[2] + 1>>  BY <1>2, <2>1 DEF Session!RefreshAnswered
  <2>3. IsTab(z) /\ z.at = x.at  BY <1>1 DEF IsTab, TabFields, Session!setSession
  <2>4. IsTab(y) /\ y.at = z.at /\ y.refresh = "none"  BY <2>3, RefreshedTab
  <2> PICK l : l = NoTab  OBVIOUS
  <2>5. Exclusive(sTabs', l, sCalls \ {c})  BY <1>1, <2>2, <2>3, <2>4, RefreshEnds
  <2>6. Rotated(c)  BY <1>1, <1>2 DEF Rotated
  <2>7. Sound(<<c.with[1], c.with[2] + 1>>, sCalls \ {c}, sServer.signIns, sLost)
    BY <2>6, SoundRotated DEF SessionOK
  <2> QED  BY <1>1, <2>1, <2>2, <2>5, <2>7 DEF SessionOK
<1>3. CASE c.answer # "ok"
  <2>1. /\ sCookie' = sCookie
        /\ IF race THEN Session!Put(t, [x EXCEPT !.refresh = "pausing", !.attempt = 1])
           ELSE Session!Put(t, Session!Refreshed(Session!signedOut(x), FALSE))
    BY <1>1, <1>3 DEF Session!RefreshAnswered
  <2>2. PICK y : /\ Session!Put(t, y) /\ IsTab(y) /\ y.at = x.at
                 /\ IF race THEN y.refresh = "pausing" ELSE y.refresh = "none"
    <3>1. CASE race
      <4> PICK y : y = [x EXCEPT !.refresh = "pausing", !.attempt = 1]  OBVIOUS
      <4>1. IsTab(y) /\ y.at = x.at /\ y.refresh = "pausing"  BY <1>1 DEF IsTab, TabFields
      <4> QED  BY <2>1, <3>1, <4>1
    <3>2. CASE ~race
      <4> PICK z : z = Session!signedOut(x)  OBVIOUS
      <4> PICK y : y = Session!Refreshed(z, FALSE)  OBVIOUS
      <4>1. IsTab(z) /\ z.at = x.at  BY <1>1 DEF IsTab, TabFields, Session!signedOut
      <4>2. IsTab(y) /\ y.at = z.at /\ y.refresh = "none"  BY <4>1, RefreshedTab
      <4> QED  BY <2>1, <3>2, <4>1, <4>2
    <3> QED  BY <1>1, <3>1, <3>2
  <2> PICK l : l = IF race THEN sLock ELSE NoTab  OBVIOUS
  <2>3. Exclusive(sTabs', l, sCalls \ {c})  BY <1>1, <2>2, RefreshEnds
  <2>4. ~Rotated(c)  BY <1>3 DEF Rotated
  <2>5. Sound(sCookie, cs, sServer.signIns, sLost)  BY <2>4, SessionFacts, SoundFewer DEF SessionOK
  <2> QED  BY <1>1, <2>1, <2>3, <2>5 DEF SessionOK
<1> QED  BY <1>2, <1>3

LEMMA RefreshLostStep ==
  ASSUME SessionOK, NEW c \in sCalls, Session!RefreshLost(c) PROVE SessionOK'
<1> PICK t : t = c.tab  OBVIOUS
<1> PICK y : y = Session!Refreshed(sTabs[t], FALSE)  OBVIOUS
<1>1. /\ sCalls' = sCalls \ {c} /\ UNCHANGED <<sCookie, sServer>> /\ Asks(c) /\ t \in Tab
      /\ IsTab(sTabs[t]) /\ sTabs[t].at # "closed" /\ sLock' = NoTab /\ sLost' = TRUE
      /\ Session!Put(t, y)
  BY SessionFacts DEF Session!RefreshLost, Asks
<1>2. IsTab(y) /\ y.at = sTabs[t].at /\ y.refresh = "none"  BY <1>1, RefreshedTab
<1> PICK l : l = NoTab  OBVIOUS
<1>3. Exclusive(sTabs', l, sCalls \ {c})  BY <1>1, <1>2, RefreshEnds
<1>4. Sound(sCookie, sCalls \ {c}, sServer.signIns, TRUE)  BY SoundFewer DEF SessionOK
<1> QED  BY <1>1, <1>3, <1>4 DEF SessionOK

-----------------------------------------------------------------------------
\* An answer leaves tabs and lock alone; the request stays its tab's.
LEMMA AnswerKeepsTabs ==
  ASSUME SessionOK, NEW c \in sCalls, NEW d, d.tab = c.tab, d.op = c.op
  PROVE  Exclusive(sTabs, sLock, (sCalls \ {c}) \cup {d})
BY DEF SessionOK, Exclusive, Asks

LEMMA ServedStep ==
  ASSUME SessionOK, NEW c \in sCalls, NEW a \in Answers, NEW w \in Token, NEW s, Session!Answer(c, a, w, s),
         NEW d, Becomes(c, d, a, w), Sound(sCookie, (sCalls \ {c}) \cup {d}, s, sLost)
  PROVE  SessionOK'
<1>1. c \in TabCall  BY SessionFacts
<1>2. d \in TabCall /\ d.tab = c.tab /\ d.op = c.op /\ d.answer = a /\ d.with = w  BY <1>1, BecomesCall
<1>3. /\ sCalls' = (sCalls \ {c}) \cup {d} /\ sServer' = [sServer EXCEPT !.signIns = s]
      /\ UNCHANGED <<sTabs, sCookie, sLock, sLost>>
  BY DEF Session!Answer, Becomes
<1>4. sServer' = [todo |-> sServer'.todo, signIns |-> sServer'.signIns] /\ sServer'.signIns = s
  BY <1>3 DEF SessionOK
<1>5. Exclusive(sTabs, sLock, (sCalls \ {c}) \cup {d})  BY <1>2, AnswerKeepsTabs
<1> QED  BY <1>3, <1>4, <1>5 DEF SessionOK

LEMMA AnAnswer == \A a \in {"ok", "out", "race"} : a \in Answers
BY DEF Answers

LEMMA ServeSignInStep == ASSUME SessionOK, NEW c \in sCalls, Session!ServeSignIn(c) PROVE SessionOK'
<1> PICK s : s = sServer.signIns  OBVIOUS
<1> PICK r : r = Append(s, [row |-> 0, ended |-> "no"])  OBVIOUS
<1> PICK w : w = <<Len(s) + 1, 0>>  OBVIOUS
<1>1. s \in Seq(SignIn)  BY DEF SessionOK, Sound, Typed
<1>2. w \in Token  BY <1>1 DEF Token
<1>3. Session!Answer(c, "ok", w, r) /\ c.op = "login"  BY DEF Session!ServeSignIn
<1> PICK d : Becomes(c, d, "ok", w)  BY DEF Becomes
<1>4. d \in TabCall /\ d.op = c.op /\ d.answer = "ok" /\ d.with = w
  BY <1>2, SessionFacts, BecomesCall, AnAnswer
<1>5. Granted(d) /\ ~Asks(c)  BY <1>3, <1>4 DEF Granted, Asks
<1>6. Sound(sCookie, (sCalls \ {c}) \cup {d}, r, sLost)  BY <1>4, <1>5, SoundGranted DEF SessionOK
<1> QED  BY <1>2, <1>3, <1>6, ServedStep, AnAnswer

\* A sign-in ends once.
LEMMA EndedRows ==
  ASSUME SessionOK, NEW f \in 1..Len(sServer.signIns), NEW why \in Ends,
         why = "reused" => sServer.signIns[f].ended # "no"
  PROVE  SameRows(sServer.signIns, Session!Ended(f, why))
<1> PICK s : s = sServer.signIns  OBVIOUS
<1> PICK r : r = Session!Ended(f, why)  OBVIOUS
<1> PICK e : e = s[f]  OBVIOUS
<1> PICK v : v = IF e.ended = "no" THEN why ELSE e.ended  OBVIOUS
<1> PICK x : x = [e EXCEPT !.ended = v]  OBVIOUS
<1>1. s \in Seq(SignIn)  BY DEF SessionOK, Sound, Typed
<1>2. r = [s EXCEPT ![f] = x]  BY DEF Session!Ended
<1>3. x \in SignIn /\ x.row = e.row /\ (x.ended = "reused" => e.ended = "reused")
  <2>1. e \in SignIn  BY <1>1
  <2>2. v \in Ends /\ (v = "reused" => e.ended = "reused")
    <3>1. e.ended \in Ends  BY <2>1 DEF SignIn
    <3> QED  BY <3>1
  <2>3. x.ended = v /\ x.row = e.row /\ x \in SignIn  BY <2>1, <2>2 DEF SignIn
  <2> QED  BY <2>2, <2>3
<1>4. SameRows(s, r)
  BY <1>1, <1>2, <1>3 DEF SameRows
<1> QED  BY <1>4

LEMMA ServeSignOutStep == ASSUME SessionOK, NEW c \in sCalls, Session!ServeSignOut(c) PROVE SessionOK'
<1> PICK s : s = sServer.signIns  OBVIOUS
<1>1. c.with \in Token /\ Issued(c.with, s) /\ s \in Seq(SignIn)
  BY DEF SessionOK, Sound, Typed, Issued
<1>2. c.op = "logout" /\ c.with \in Token  BY <1>1 DEF Session!ServeSignOut
<1>3. PICK a, r : a \in {"ok", "out"} /\ Session!Answer(c, a, c.with, r) /\ (r = s \/ SameRows(s, r))
  <2>1. CASE c.with = Session!NoCookie
    BY <2>1 DEF Session!ServeSignOut
  <2>2. CASE c.with # Session!NoCookie
    <3>1. c.with[1] \in 1..Len(s)  BY <1>1, <2>2 DEF Issued, Token
    <3>2. SameRows(s, Session!Ended(c.with[1], "signed out"))  BY <3>1, EndedRows DEF Ends
    <3> QED  BY <2>2, <3>2 DEF Session!ServeSignOut
  <2> QED  BY <2>1, <2>2
<1> PICK w : w = c.with  OBVIOUS
<1> PICK d : Becomes(c, d, a, w)  BY DEF Becomes
<1>4. d \in TabCall /\ d.op = c.op /\ d.answer = a /\ d.with = w
  BY <1>2, <1>3, SessionFacts, BecomesCall, AnAnswer
<1>5. ~Granted(d) /\ ~Rotated(d) /\ ~Rotated(c) /\ ~Asks(d)  BY <1>2, <1>4 DEF Granted, Rotated, Asks
<1>6. Sound(sCookie, (sCalls \ {c}) \cup {d}, s, sLost)  BY <1>3, <1>4, <1>5, SoundAnswered DEF SessionOK
<1>7. Sound(sCookie, (sCalls \ {c}) \cup {d}, r, sLost)  BY <1>3, <1>6, SoundSameRows
<1> QED  BY <1>2, <1>3, <1>7, ServedStep, AnAnswer

\* Every answer that does not rotate leaves the rows as they are.
LEMMA RefusedStep ==
  ASSUME SessionOK, NEW c \in sCalls, Asks(c), c.answer = "none", NEW a \in {"out", "race"},
         NEW r, Session!Answer(c, a, c.with, r),
         sLost \/ a # "race", r = sServer.signIns \/ SameRows(sServer.signIns, r)
  PROVE  SessionOK'
<1> PICK s : s = sServer.signIns  OBVIOUS
<1>1. c.with \in Token  BY DEF SessionOK, Sound, Typed, Issued
<1> PICK w : w = c.with  OBVIOUS
<1> PICK d : Becomes(c, d, a, w)  BY DEF Becomes
<1>2. d \in TabCall /\ d.op = c.op /\ d.answer = a /\ d.with = w
  BY <1>1, SessionFacts, BecomesCall, AnAnswer
<1>3. ~Granted(d) /\ ~Rotated(d) /\ ~Rotated(c)  BY <1>2 DEF Granted, Rotated, Asks
<1>4. Sound(sCookie, (sCalls \ {c}) \cup {d}, s, sLost)  BY <1>2, <1>3, SoundAnswered DEF SessionOK
<1>5. Sound(sCookie, (sCalls \ {c}) \cup {d}, r, sLost)  BY <1>4, SoundSameRows
<1> QED  BY <1>1, <1>5, ServedStep, AnAnswer

\* When an answer has been lost, anything may end.
LEMMA LostRows ==
  ASSUME NEW k, NEW cs, NEW s, NEW r, Sound(k, cs, s, TRUE), r \in Seq(SignIn), Len(r) = Len(s)
  PROVE  Sound(k, cs, r, TRUE)
BY DEF Sound, Typed, Issued

LEMMA ServeRefreshStep == ASSUME SessionOK, NEW c \in sCalls, Session!ServeRefresh(c) PROVE SessionOK'
<1> PICK s : s = sServer.signIns  OBVIOUS
<1> PICK f : f = c.with[1]  OBVIOUS
<1>1. c.with \in Token /\ Issued(c.with, s) /\ s \in Seq(SignIn) /\ Asks(c) /\ c.answer = "none"
  BY DEF SessionOK, Sound, Typed, Issued, Session!ServeRefresh, Asks
<1>2. CASE c.with = Session!NoCookie /\ Session!Answer(c, "out", c.with, s)
  <2>1. s = sServer.signIns  OBVIOUS
  <2> QED  BY <1>1, <1>2, <2>1, RefusedStep
<1>3. ASSUME c.with # Session!NoCookie  PROVE f \in 1..Len(s)
  BY <1>1, <1>3 DEF Issued, Token
<1>4. ASSUME c.with # Session!NoCookie, s[f].ended = "no", s[f].row = c.with[2],
             Session!Answer(c, "ok", c.with, [s EXCEPT ![f].row = @ + 1])
      PROVE  SessionOK'
  <2> PICK e : e = [s[f] EXCEPT !.row = s[f].row + 1]  OBVIOUS
  <2> PICK r : r = [s EXCEPT ![f] = e]  OBVIOUS
  <2>1. f \in 1..Len(s) /\ s[f] \in SignIn  BY <1>1, <1>3, <1>4
  <2>2. e \in SignIn /\ e.row = s[f].row + 1 /\ e.ended = s[f].ended  BY <2>1 DEF SignIn
  <2>3. r \in Seq(SignIn) /\ Len(r) = Len(s)  BY <1>1, <2>1, <2>2
  <2>4. \A g \in 1..Len(s) : r[g].ended = s[g].ended
                             /\ r[g].row = IF g = c.with[1] THEN s[g].row + 1 ELSE s[g].row
    BY <1>1, <2>1, <2>2
  <2>5. Session!Answer(c, "ok", c.with, r)  BY <1>4
  <2> PICK w : w = c.with  OBVIOUS
  <2> PICK d : Becomes(c, d, "ok", w)  BY DEF Becomes
  <2>6. d \in TabCall /\ d.op = c.op /\ d.answer = "ok" /\ d.with = w
    BY <1>1, SessionFacts, BecomesCall, AnAnswer
  <2>7. Sound(sCookie, (sCalls \ {c}) \cup {d}, r, sLost)
    <3>1. Sound(sCookie, sCalls, s, sLost)  BY DEF SessionOK
    <3>2. c.with[1] \in 1..Len(s) /\ s[c.with[1]].row = c.with[2]  BY <1>4, <2>1
    <3>3. NextRow(s, r, c.with[1])  BY <2>3, <2>4 DEF NextRow
    <3>4. d.with = c.with  BY <2>6
    <3> QED  BY <1>1, <2>6, <3>1, <3>2, <3>3, <3>4, SoundRow
  <2> QED  BY <1>1, <2>5, <2>7, ServedStep, AnAnswer
<1>5. ASSUME c.with # Session!NoCookie, s[f].ended = "no",
             Session!Answer(c, "out", c.with, Session!Ended(f, "idle"))
      PROVE  SessionOK'
  <2> PICK r : r = Session!Ended(f, "idle")  OBVIOUS
  <2>1. SameRows(s, r)  BY <1>3, <1>5, EndedRows DEF Ends
  <2> QED  BY <1>1, <1>5, <2>1, RefusedStep
<1>6. ASSUME c.with # Session!NoCookie, ~sLost  PROVE s[f].row = c.with[2]
  BY <1>1, <1>6 DEF SessionOK, Sound, Honest, Newest
<1>7. ASSUME c.with # Session!NoCookie, s[f].row > c.with[2], Session!Answer(c, "race", c.with, s)
      PROVE  SessionOK'
  <2>1. sLost  
    <3>1. s[f] \in SignIn  BY <1>1, <1>3, <1>7
    <3>2. s[f].row \in Nat  BY <3>1 DEF SignIn
    <3>3. c.with[2] \in Nat  BY <1>1 DEF Token
    <3> QED  BY <1>6, <1>7, <3>2, <3>3
  <2>2. s = sServer.signIns  OBVIOUS
  <2> QED  BY <1>1, <1>7, <2>1, <2>2, RefusedStep
<1>8. ASSUME c.with # Session!NoCookie, s[f].row > c.with[2] \/ s[f].ended # "no",
             Session!Answer(c, "out", c.with, Session!Ended(f, "reused"))
      PROVE  SessionOK'
  <2> PICK r : r = Session!Ended(f, "reused")  OBVIOUS
  <2>1. f \in 1..Len(s) /\ s[f] \in SignIn  BY <1>1, <1>3, <1>8
  <2>2. CASE s[f].ended # "no"
    <3>1. SameRows(s, r)  BY <2>1, <2>2, EndedRows DEF Ends
    <3> QED  BY <1>1, <1>8, <3>1, RefusedStep
  <2>3. CASE s[f].ended = "no"
    <3>1. sLost
      <4>1. s[f].row \in Nat /\ c.with[2] \in Nat  BY <1>1, <2>1 DEF SignIn, Token
      <4> QED  BY <1>6, <1>8, <2>3, <4>1
    <3>2. r \in Seq(SignIn) /\ Len(r) = Len(s)
      <4> PICK x : x = [s[f] EXCEPT !.ended = "reused"]  OBVIOUS
      <4>1. x \in SignIn  BY <2>1 DEF SignIn, Ends
      <4>2. r = [s EXCEPT ![f] = x]  BY <2>3 DEF Session!Ended
      <4> QED  BY <1>1, <2>1, <4>1, <4>2
    <3> PICK w : w = c.with  OBVIOUS
    <3> PICK d : Becomes(c, d, "out", w)  BY DEF Becomes
    <3>3. d \in TabCall /\ d.op = c.op /\ d.answer = "out" /\ d.with = w
      BY <1>1, SessionFacts, BecomesCall, AnAnswer
    <3>4. ~Granted(d) /\ ~Rotated(d) /\ ~Rotated(c)  BY <1>1, <3>3 DEF Granted, Rotated, Asks
    <3>5. sLost = TRUE  BY <3>1, SessionFacts
    <3>6. Sound(sCookie, (sCalls \ {c}) \cup {d}, s, sLost)  BY <3>1, <3>3, <3>4, SoundAnswered DEF SessionOK
    <3>7. Sound(sCookie, (sCalls \ {c}) \cup {d}, r, sLost)  BY <3>2, <3>5, <3>6, LostRows
    <3> QED  BY <1>1, <1>8, <3>7, ServedStep, AnAnswer
  <2> QED  BY <2>2, <2>3
<1> QED  BY <1>2, <1>4, <1>5, <1>7, <1>8 DEF Session!ServeRefresh

LEMMA SessionInit == Session!Init => SessionOK
<1> SUFFICES ASSUME Session!Init  PROVE SessionOK  OBVIOUS
<1> PICK x : x = Session!Closed  OBVIOUS
<1>1. IsTab(x) /\ x.at = "closed" /\ x.call = "none" /\ x.refresh = "none"
  BY DEF IsTab, TabFields, Session!Closed, Session!Loaded
<1>2. sTabs = [t \in Tab |-> x] /\ sLock = NoTab /\ sCalls = {} /\ sCookie = Session!NoCookie /\ sLost = FALSE
  BY DEF Session!Init
<1>3. Exclusive(sTabs, sLock, sCalls)  BY <1>1, <1>2 DEF Exclusive
<1>4. sServer = [todo |-> sServer.todo, signIns |-> sServer.signIns] /\ sServer.signIns = <<>>
  BY DEF Session!Init
<1>5. Issued(Session!NoCookie, <<>>)  BY DEF Issued, Session!NoCookie, Token
<1>6. Typed(sCookie, sCalls, <<>>)  BY <1>2, <1>5 DEF Typed
<1>7. Honest(sCookie, sCalls, <<>>) /\ Unseen(sCookie, sCalls)  BY <1>2 DEF Honest, Unseen
<1> QED  BY <1>2, <1>3, <1>4, <1>6, <1>7 DEF SessionOK, Sound

LEMMA SessionSteps == ASSUME SessionOK, Session!Next PROVE SessionOK'
<1>1. ASSUME NEW t \in Tab,
             \/ Session!OpenTab(t) \/ Session!CloseTab(t) \/ Session!finish(t) \/ Session!choose(t)
             \/ Session!doRefresh(t) \/ Session!Expired(t) \/ Session!signIn(t) \/ Session!signOut(t)
             \/ \E ok \in BOOLEAN : Session!Done(t, ok)
             \/ \E op \in Session!Steps \cup {"use"} : Session!Request(t, op)
      PROVE  SessionOK'
  BY <1>1, TabSteps, CloseStep, RefreshStep, SignInStep, SignOutStep, DoneStep
<1>2. ASSUME NEW c \in sCalls,
             \/ Session!ServeSignIn(c) \/ Session!ServeSignOut(c) \/ Session!ServeRefresh(c)
             \/ Session!SignInAnswered(c) \/ Session!SignOutAnswered(c)
             \/ Session!RefreshAnswered(c) \/ Session!RefreshLost(c)
      PROVE  SessionOK'
  BY <1>2, ServeSignInStep, ServeSignOutStep, ServeRefreshStep, SignInAnsweredStep,
     SignOutAnsweredStep, RefreshAnsweredStep, RefreshLostStep
<1> QED  BY <1>1, <1>2 DEF Session!Next

SessionInv == at = "session" => SessionOK

LEMMA InitSession == Init => SessionInv
BY SessionInit DEF Init, SessionInv

LEMMA StepSession == SessionInv /\ [Next]_vars => SessionInv'
<1> SUFFICES ASSUME SessionInv, [Next]_vars, at' = "session"  PROVE SessionOK'
  BY DEF SessionInv
<1>1. CASE SessionStep
  BY <1>1, SessionSteps DEF SessionStep, SessionInv
<1>2. CASE at' = at /\ UNCHANGED sessionVars
  BY <1>2 DEF sessionVars, SessionInv, SessionOK, Exclusive, Sound, Typed, Unseen, Honest
<1> QED
  BY <1>1, <1>2 DEF Next, TrainerStep, UsersStep, EditorStep, BoardStep, FormStep, AnalysisStep, vars

\* The tabs of an honest browser never end their session as a stolen one,
\* unless an answer to a refresh was lost: however many tabs there are, one
\* of them refreshes at a time, with the newest token.
THEOREM HonestTabs == Spec => []HonestIsNoThief
<1>1. SessionInv => HonestIsNoThief
  <2> SUFFICES ASSUME SessionOK  PROVE Session!HonestIsNoThief
    BY DEF SessionInv, HonestIsNoThief
  <2>1. DOMAIN sServer.signIns = 1..Len(sServer.signIns)  BY DEF SessionOK, Sound, Typed
  <2> QED  BY <2>1 DEF SessionOK, Sound, Honest, Session!HonestIsNoThief
<1> QED  BY InitSession, StepSession, <1>1, PTL DEF Spec
-----------------------------------------------------------------------------
\* The live board: what the queue of the subscription says last of an alert
\* is how the alert is, and so is what the page shows of an alert that the
\* queue does not mention; both unless one of the three races was met.
AlertEvent    == {"alert"} \X Alert \X {"open", "acked"}
IncidentEvent == {"incident"} \X {"active", "closed"}
Events        == AlertEvent \cup IncidentEvent

About(e, a)       == e[1] = "alert" /\ e[2] = a
Mentions(q, a)    == \E i \in 1..Len(q) : About(q[i], a)
LastSays(q, a, v) == \E i \in 1..Len(q) : /\ About(q[i], a) /\ q[i][3] = v
                                          /\ \A j \in (i + 1)..Len(q) : ~About(q[j], a)

StreamFields == {"on", "ready", "queue"}
IsStream(st) ==
  /\ DOMAIN st = StreamFields
  /\ st.on \in BOOLEAN /\ st.ready \in BOOLEAN
  /\ st.queue \in Seq(Events) /\ Len(st.queue) <= QueueSize
  /\ ~st.on => st.queue = <<>>

ServerFields == {"status", "alerts", "silent", "stream", "breaks"}
IsBoardServer(s) ==
  /\ DOMAIN s = ServerFields
  /\ DOMAIN s.alerts = Alert /\ s.silent \subseteq Alert
  /\ IsStream(s.stream)

IsBoardCache(c) ==
  /\ DOMAIN c = {"list", "incident", "alerts", "loaded", "stale"}
  /\ DOMAIN c.alerts = Alert /\ c.loaded \in BOOLEAN /\ c.stale \in BOOLEAN

WasRead(ld)  == Len(ld) = 2
IsLoad(ld)   == \/ ld = Board!NoLoad \/ ld = <<"sent">>
                \/ \E f : DOMAIN f = Alert /\ ld = <<"read", f>>

\* Alerts of which the page may be expected to know.
Expected(s, r) == Alert \ (r \cup s.silent)

Told(s, r)     == \A a \in Alert \ r : \A v : LastSays(s.stream.queue, a, v) => v = s.alerts[a]
ReadWell(ld, s, r) == WasRead(ld) => \A a \in Expected(s, r) : ld[2][a] = s.alerts[a]
Current(c, s, r) ==
  s.stream.on /\ ~s.stream.ready /\ c.loaded /\ ~c.stale =>
    \A a \in Expected(s, r) : Mentions(s.stream.queue, a) \/ c.alerts[a] = s.alerts[a]

Agrees(s, c, ld, r) ==
  /\ IsBoardServer(s) /\ IsBoardCache(c) /\ IsLoad(ld)
  /\ Told(s, r) /\ ReadWell(ld, s, r) /\ Current(c, s, r)

AcksTrue(cs, s) ==
  \A c \in cs : /\ DOMAIN c = {"op", "alert", "stage", "live"}
                /\ c.op = "ack" => c.alert \in Alert
                /\ c.op = "ack" /\ c.stage = "done" => s.alerts[c.alert] = "acked"

BoardOK == Agrees(bServer, bCache, bLoad, bRaced) /\ AcksTrue(bCalls, bServer)

-----------------------------------------------------------------------------
LEMMA AnEvent ==
  ASSUME NEW e \in Events
  PROVE  /\ e[1] \in {"alert", "incident"}
         /\ e[1] = "alert" => e[2] \in Alert /\ e[3] \in {"open", "acked"}
BY DEF Events, AlertEvent, IncidentEvent

LEMMA Appended ==
  ASSUME NEW q \in Seq(Events), NEW e \in Events, NEW r, r = Append(q, e)
  PROVE  /\ r \in Seq(Events) /\ Len(r) = Len(q) + 1
         /\ \A a, v : LastSays(r, a, v) => \/ About(e, a) /\ v = e[3]
                                           \/ ~About(e, a) /\ LastSays(q, a, v)
         /\ \A a : Mentions(q, a) \/ About(e, a) => Mentions(r, a)
<1>1. r \in Seq(Events) /\ Len(r) = Len(q) + 1 /\ r[Len(r)] = e /\ Len(q) \in Nat
      /\ \A i \in 1..Len(q) : r[i] = q[i]
  OBVIOUS
<1>2. ASSUME NEW a, NEW v, LastSays(r, a, v)
      PROVE  (About(e, a) /\ v = e[3]) \/ (~About(e, a) /\ LastSays(q, a, v))
  <2>1. PICK i \in 1..Len(r) : /\ About(r[i], a) /\ r[i][3] = v
                               /\ \A j \in (i + 1)..Len(r) : ~About(r[j], a)
    BY <1>2 DEF LastSays
  <2>2. CASE i = Len(r)  BY <1>1, <2>1, <2>2
  <2>3. CASE i # Len(r)
    <3>1. i \in 1..Len(q) /\ Len(r) \in (i + 1)..Len(r)  BY <1>1, <2>3
    <3>2. ~About(e, a)  BY <1>1, <2>1, <3>1
    <3>3. \A j \in (i + 1)..Len(q) : j \in 1..Len(q) /\ j \in (i + 1)..Len(r)  BY <1>1, <3>1
    <3>4. LastSays(q, a, v)  BY <1>1, <2>1, <3>1, <3>3 DEF LastSays
    <3> QED  BY <3>2, <3>4
  <2> QED  BY <2>2, <2>3
<1>3. ASSUME NEW a, Mentions(q, a) \/ About(e, a)  PROVE Mentions(r, a)
  <2>1. 1..Len(q) \subseteq 1..Len(r) /\ Len(r) \in 1..Len(r)  BY <1>1
  <2> QED  BY <1>1, <1>3, <2>1 DEF Mentions
<1> QED  BY <1>1, <1>2, <1>3

LEMMA Shortened ==
  ASSUME NEW q \in Seq(Events), q # <<>>, NEW r, r = Tail(q)
  PROVE  /\ r \in Seq(Events) /\ Len(r) = Len(q) - 1 /\ Head(q) \in Events
         /\ \A a, v : LastSays(r, a, v) => LastSays(q, a, v)
         /\ \A a : Mentions(q, a) => Mentions(r, a) \/ About(Head(q), a)
         /\ \A a : About(Head(q), a) => Mentions(r, a) \/ LastSays(q, a, Head(q)[3])
<1>1. r \in Seq(Events) /\ Len(r) = Len(q) - 1 /\ Head(q) = q[1] /\ Len(q) \in Nat /\ Len(q) > 0
      /\ Head(q) \in Events /\ \A i \in 1..Len(r) : r[i] = q[i + 1]
  OBVIOUS
<1>2. \A i \in 1..Len(r) : i + 1 \in 1..Len(q)  BY <1>1
<1>3. \A i \in 2..Len(q) : i - 1 \in 1..Len(r) /\ r[i - 1] = q[i]
  <2> TAKE i \in 2..Len(q)
  <2>1. i - 1 \in 1..Len(r) /\ (i - 1) + 1 = i  BY <1>1
  <2> QED  BY <1>1, <2>1
<1>4. ASSUME NEW a, NEW v, LastSays(r, a, v)  PROVE LastSays(q, a, v)
  <2>1. PICK i \in 1..Len(r) : /\ About(r[i], a) /\ r[i][3] = v
                               /\ \A j \in (i + 1)..Len(r) : ~About(r[j], a)
    BY <1>4 DEF LastSays
  <2>2. \A j \in (i + 2)..Len(q) : j \in 2..Len(q) /\ j - 1 \in (i + 1)..Len(r)  BY <1>1, <2>1
  <2>3. \A j \in (i + 2)..Len(q) : ~About(q[j], a)  BY <1>3, <2>1, <2>2
  <2>4. (i + 1) + 1 = i + 2  BY <2>1
  <2> PICK k : k = i + 1  OBVIOUS
  <2>5. k \in 1..Len(q) /\ About(q[k], a) /\ q[k][3] = v  BY <1>1, <1>2, <2>1
  <2>6. \A j \in (k + 1)..Len(q) : ~About(q[j], a)  BY <2>3, <2>4
  <2> QED  BY <2>5, <2>6 DEF LastSays
<1>5. ASSUME NEW a, Mentions(q, a)  PROVE Mentions(r, a) \/ About(Head(q), a)
  <2>1. PICK i \in 1..Len(q) : About(q[i], a)  BY <1>5 DEF Mentions
  <2>2. i = 1 \/ i \in 2..Len(q)  BY <1>1, <2>1
  <2> QED  BY <1>1, <1>3, <2>1, <2>2 DEF Mentions
<1>6. ASSUME NEW a, About(Head(q), a), ~Mentions(r, a)  PROVE LastSays(q, a, Head(q)[3])
  <2>1. \A j \in 2..Len(q) : ~About(q[j], a)  BY <1>3, <1>6 DEF Mentions
  <2>2. 1 \in 1..Len(q) /\ 1 + 1 = 2  BY <1>1
  <2> QED  BY <1>1, <1>6, <2>1, <2>2 DEF LastSays
<1> QED  BY <1>1, <1>4, <1>5, <1>6

LEMMA EmptySaysNothing == \A a, v : ~LastSays(<<>>, a, v) /\ ~Mentions(<<>>, a)
BY DEF LastSays, Mentions

Streaming(s, st, z) == z = [s EXCEPT !.stream = st]
Streams(s, st, z)   == IsBoardServer(z) /\ z.alerts = s.alerts /\ z.silent = s.silent /\ z.stream = st

LEMMA WithStream ==
  ASSUME NEW s, IsBoardServer(s), NEW st, IsStream(st), NEW z, Streaming(s, st, z)
  PROVE  Streams(s, st, z)
BY DEF IsBoardServer, ServerFields, Streaming, Streams

\* An event is queued for the subscriber, if there is one.
Publication(s, e, z) ==
  /\ IsBoardServer(z)
  /\ z.alerts = s.alerts /\ z.silent = s.silent
  /\ z.stream.on = s.stream.on /\ z.stream.ready = s.stream.ready
  /\ \A a, v : LastSays(z.stream.queue, a, v) => \/ About(e, a) /\ v = e[3]
                                                 \/ ~About(e, a) /\ LastSays(s.stream.queue, a, v)
  /\ \A a : s.stream.on /\ (Mentions(s.stream.queue, a) \/ About(e, a))
              => Mentions(z.stream.queue, a) \/ a \in Board!Dropped(s)

LEMMA Published ==
  ASSUME NEW s, IsBoardServer(s), NEW e \in Events
  PROVE  Publication(s, e, Board!Publish(s, e))
<1> PICK z : z = Board!Publish(s, e)  OBVIOUS
<1> SUFFICES Publication(s, e, z)  OBVIOUS
<1> PICK q : q = s.stream.queue  OBVIOUS
<1>1. q \in Seq(Events) /\ Len(q) <= QueueSize /\ Len(q) \in Nat /\ QueueSize \in Nat \ {0}
  BY SizesAssumption DEF IsBoardServer, IsStream
<1>2. CASE ~s.stream.on
  <2>1. z = s /\ q = <<>>  BY <1>2 DEF Board!Publish, IsBoardServer, IsStream
  <2> QED  BY <1>2, <2>1, EmptySaysNothing DEF Publication
<1>3. CASE s.stream.on
  <2> PICK p : p = Board!Queued(q, e)  OBVIOUS
  <2>1. z = [s EXCEPT !.stream.queue = p]  BY <1>3 DEF Board!Publish
  <2>2. /\ p \in Seq(Events) /\ Len(p) <= QueueSize
        /\ \A a, v : LastSays(p, a, v) => \/ About(e, a) /\ v = e[3]
                                          \/ ~About(e, a) /\ LastSays(q, a, v)
        /\ \A a : Mentions(q, a) \/ About(e, a) => Mentions(p, a) \/ a \in Board!Dropped(s)
    <3>1. CASE Len(q) < QueueSize
      <4>1. p = Append(q, e)  BY <3>1 DEF Board!Queued
      <4>2. Len(p) = Len(q) + 1 /\ p \in Seq(Events)
            /\ (\A a, v : LastSays(p, a, v) => \/ About(e, a) /\ v = e[3]
                                               \/ ~About(e, a) /\ LastSays(q, a, v))
            /\ \A a : Mentions(q, a) \/ About(e, a) => Mentions(p, a)
        BY <1>1, <4>1, Appended
      <4> QED  BY <1>1, <3>1, <4>2
    <3>2. CASE ~(Len(q) < QueueSize)
      <4> PICK t : t = Tail(q)  OBVIOUS
      <4>0. Len(q) = QueueSize /\ q # <<>>  BY <1>1, <3>2
      <4>1. p = Append(t, e)  BY <3>2 DEF Board!Queued
      <4>2. /\ t \in Seq(Events) /\ Len(t) = Len(q) - 1 /\ Head(q) \in Events
            /\ \A a, v : LastSays(t, a, v) => LastSays(q, a, v)
            /\ \A a : Mentions(q, a) => Mentions(t, a) \/ About(Head(q), a)
        BY <1>1, <4>0, Shortened
      <4>3. /\ Len(p) = Len(t) + 1 /\ p \in Seq(Events)
            /\ \A a, v : LastSays(p, a, v) => \/ About(e, a) /\ v = e[3]
                                              \/ ~About(e, a) /\ LastSays(t, a, v)
            /\ \A a : Mentions(t, a) \/ About(e, a) => Mentions(p, a)
        BY <4>1, <4>2, Appended
      <4>4. \A a : About(Head(q), a) => a \in Board!Dropped(s)
        BY <1>3, <4>0 DEF About, Board!Dropped
      <4> QED  BY <1>1, <4>0, <4>2, <4>3, <4>4
    <3> QED  BY <3>1, <3>2
  <2>3. /\ IsBoardServer(z) /\ z.alerts = s.alerts /\ z.silent = s.silent
        /\ z.stream.on = s.stream.on /\ z.stream.ready = s.stream.ready /\ z.stream.queue = p
    <3> PICK st : st = [s.stream EXCEPT !.queue = p]  OBVIOUS
    <3>1. Streaming(s, st, z)  BY <2>1 DEF Streaming
    <3>2. IsStream(s.stream)  BY DEF IsBoardServer
    <3>3. IsStream(st) /\ st.on = s.stream.on /\ st.ready = s.stream.ready /\ st.queue = p
      BY <1>3, <2>2, <3>2 DEF IsStream, StreamFields
    <3>4. IsBoardServer(z) /\ z.alerts = s.alerts /\ z.silent = s.silent /\ z.stream = st
      BY <3>1, <3>3, WithStream DEF Streams
    <3> QED  BY <3>3, <3>4
  <2> QED  BY <2>2, <2>3 DEF Publication
<1> QED  BY <1>2, <1>3 DEF IsBoardServer, IsStream

-----------------------------------------------------------------------------
\* Without a subscription there is nothing to be told.
LEMMA OfflineServer ==
  ASSUME NEW s, IsBoardServer(s), NEW z, z = Board!Offline(s)
  PROVE  /\ IsBoardServer(z) /\ z.alerts = s.alerts /\ z.silent = s.silent
         /\ z.stream.on = FALSE /\ z.stream.queue = <<>>
<1> PICK st : st = Board!NoStream  OBVIOUS
<1>1. IsStream(st) /\ st.on = FALSE /\ st.queue = <<>>
  BY SizesAssumption DEF IsStream, StreamFields, Board!NoStream
<1>2. Streaming(s, st, z)  BY DEF Board!Offline, Streaming
<1> QED  BY <1>1, <1>2, WithStream DEF Streams

LEMMA AgreesOffline ==
  ASSUME NEW s, NEW c, NEW ld, NEW r, Agrees(s, c, ld, r), NEW z, z = Board!Offline(s)
  PROVE  Agrees(z, c, ld, r)
<1>1. /\ IsBoardServer(z) /\ z.alerts = s.alerts /\ z.silent = s.silent
      /\ z.stream.on = FALSE /\ z.stream.queue = <<>>
  BY OfflineServer DEF Agrees
<1>2. Told(z, r)  BY <1>1, EmptySaysNothing DEF Told
<1> QED  BY <1>1, <1>2 DEF Agrees, ReadWell, Current, Expected

LEMMA AgreesLoad ==
  ASSUME NEW s, NEW c, NEW ld, NEW r, Agrees(s, c, ld, r), NEW l, l \in {Board!NoLoad, <<"sent">>}
  PROVE  Agrees(s, c, l, r)
<1>1. IsLoad(l) /\ ~WasRead(l)  BY DEF IsLoad, WasRead, Board!NoLoad
<1> QED  BY <1>1 DEF Agrees, ReadWell

\* What is shown changes nothing of the alerts.
LEMMA DisplayStep ==
  ASSUME NEW s, NEW c, NEW ld, NEW r, NEW cs, NEW v,
         Agrees(s, c, ld, r), AcksTrue(cs, s),
         Board!Display(v, c, ld, cs), Board!Rest(s), bRaced' = r
  PROVE  BoardOK'
<1>1. bCache' = c /\ bServer' \in {s, Board!Offline(s)} /\ bLoad' \in {ld, <<"sent">>}
  BY DEF Board!Display, Board!Rest
<1>2. AcksTrue(bCalls', bServer')
  <2> PICK z : z = bServer'  OBVIOUS
  <2>2. z.alerts = s.alerts  BY <1>1, OfflineServer DEF Agrees
  <2>3. ASSUME NEW x \in bCalls'
        PROVE  \E y \in cs : \E w : x = [y EXCEPT !.live = w]
    BY DEF Board!Display
  <2>4. AcksTrue(bCalls', z)  BY <2>2, <2>3 DEF AcksTrue
  <2> QED  BY <2>4
<1>3. Agrees(bServer', bCache', bLoad', r)
  <2> PICK z : z = bServer'  OBVIOUS
  <2> PICK l : l = bLoad'  OBVIOUS
  <2>1. Agrees(z, c, ld, r)  BY <1>1, AgreesOffline
  <2>2. Agrees(z, c, l, r)  BY <1>1, <2>1, AgreesLoad
  <2> QED  BY <1>1, <2>2
<1> QED  BY <1>2, <1>3 DEF BoardOK

-----------------------------------------------------------------------------
LEMMA BoardFacts ==
  ASSUME BoardOK
  PROVE  /\ Agrees(bServer, bCache, bLoad, bRaced) /\ AcksTrue(bCalls, bServer)
         /\ IsBoardServer(bServer) /\ IsBoardCache(bCache) /\ IsLoad(bLoad)
         /\ bServer.stream.queue \in Seq(Events) /\ DOMAIN bServer = ServerFields
         /\ bServer.stream.on \in BOOLEAN /\ bServer.stream.ready \in BOOLEAN
BY DEF BoardOK, Agrees, IsBoardServer, IsStream

LEMMA AcksKept ==
  ASSUME NEW cs, NEW s, AcksTrue(cs, s), NEW ds, ds \subseteq cs, NEW z, z.alerts = s.alerts
  PROVE  AcksTrue(ds, z)
BY DEF AcksTrue

\* A cache that differs in what it says of the incident.
LEMMA AgreesCache ==
  ASSUME NEW s, NEW c, NEW ld, NEW r, Agrees(s, c, ld, r), NEW k, IsBoardCache(k),
         k.alerts = c.alerts, k.loaded = c.loaded, k.stale = c.stale
  PROVE  Agrees(s, k, ld, r)
BY DEF Agrees, Current

\* The routes and the loads of the incident.
LEMMA ShowsStep ==
  ASSUME BoardOK, NEW v, NEW k, IsBoardCache(k), k.alerts = bCache.alerts, k.loaded = bCache.loaded,
         k.stale = bCache.stale, Board!Shows(v, k)
  PROVE  BoardOK'
<1>1. Agrees(bServer, k, bLoad, bRaced) /\ AcksTrue(bCalls, bServer)  BY BoardFacts, AgreesCache
<1>2. Board!Display(v, k, bLoad, bCalls) /\ Board!Rest(bServer) /\ bRaced' = bRaced  BY DEF Board!Shows
<1> QED  BY <1>1, <1>2, DisplayStep

LEMMA CacheWith ==
  ASSUME NEW c, IsBoardCache(c), NEW w, NEW k, k = [c EXCEPT !.list = w] \/ k = [c EXCEPT !.incident = w]
  PROVE  IsBoardCache(k) /\ k.alerts = c.alerts /\ k.loaded = c.loaded /\ k.stale = c.stale
BY DEF IsBoardCache

LEMMA BoardShown ==
  ASSUME BoardOK, Board!Mount \/ Board!Unmount \/ Board!LoadList \/ Board!LoadIncident
  PROVE  BoardOK'
<1> PICK k : k = bCache  OBVIOUS
<1>0. IsBoardCache(k)  BY BoardFacts
<1>1. ASSUME NEW v, Board!Shows(v, k)  PROVE BoardOK'
  BY <1>0, <1>1, ShowsStep
<1>2. CASE Board!Mount \/ Board!Unmount
  <2>1. \E v : Board!Shows(v, k)  BY <1>2 DEF Board!Mount, Board!Unmount
  <2> QED  BY <1>1, <2>1
<1>3. CASE Board!LoadList \/ Board!LoadIncident
  <2>1. PICK w, x : (x = [k EXCEPT !.list = w] \/ x = [k EXCEPT !.incident = w]) /\ Board!Shows(bView, x)
    BY <1>3 DEF Board!LoadList, Board!LoadIncident
  <2>2. IsBoardCache(x) /\ x.alerts = k.alerts /\ x.loaded = k.loaded /\ x.stale = k.stale
    BY <1>0, <2>1, CacheWith
  <2> QED  BY <2>1, <2>2, ShowsStep
<1> QED  BY <1>2, <1>3

\* Nothing that this is about changes.
LEMMA BoardQuiet ==
  ASSUME BoardOK, UNCHANGED <<bCache, bLoad, bRaced>>, NEW cs, bCalls' = cs, cs \subseteq bCalls,
         NEW s, bServer' = s, \/ s = bServer \/ s = Board!Offline(bServer)
                              \/ \E n : s = Board!Offline([bServer EXCEPT !.breaks = n])
                              \/ \E n : s = [bServer EXCEPT !.breaks = n]
  PROVE  BoardOK'
<1>1. ASSUME NEW n, NEW z, z = [bServer EXCEPT !.breaks = n]
      PROVE  Agrees(z, bCache, bLoad, bRaced)
  <2>1. IsBoardServer(z) /\ z.alerts = bServer.alerts /\ z.silent = bServer.silent /\ z.stream = bServer.stream
    BY <1>1, BoardFacts DEF IsBoardServer, ServerFields
  <2> QED  BY <2>1, BoardFacts DEF Agrees, Told, ReadWell, Current, Expected
<1>2. Agrees(s, bCache, bLoad, bRaced)
  <2>1. ASSUME NEW n, s = Board!Offline([bServer EXCEPT !.breaks = n])
        PROVE  Agrees(s, bCache, bLoad, bRaced)
    <3> PICK z : z = [bServer EXCEPT !.breaks = n]  OBVIOUS
    <3> QED  BY <1>1, <2>1, AgreesOffline
  <2> QED  BY <1>1, <2>1, BoardFacts, AgreesOffline
<1>3. IsBoardServer(bServer)  BY BoardFacts
<1>4. s.alerts = bServer.alerts
  <2>1. ASSUME NEW n  PROVE LET z == [bServer EXCEPT !.breaks = n] IN IsBoardServer(z) /\ z.alerts = bServer.alerts
    BY <1>3 DEF IsBoardServer, ServerFields
  <2>2. ASSUME NEW n, s = Board!Offline([bServer EXCEPT !.breaks = n])  PROVE s.alerts = bServer.alerts
    <3> PICK z : z = [bServer EXCEPT !.breaks = n]  OBVIOUS
    <3>1. IsBoardServer(z) /\ z.alerts = bServer.alerts  BY <2>1
    <3> QED  BY <2>2, <3>1, OfflineServer
  <2>3. ASSUME NEW n, s = [bServer EXCEPT !.breaks = n]  PROVE s.alerts = bServer.alerts
    BY <2>1, <2>3
  <2>4. ASSUME s = Board!Offline(bServer)  PROVE s.alerts = bServer.alerts
    BY <1>3, <2>4, OfflineServer
  <2> QED  BY <2>2, <2>3, <2>4
<1>5. AcksTrue(cs, s)  BY <1>4, BoardFacts, AcksKept
<1> QED  BY <1>2, <1>5 DEF BoardOK

LEMMA ConnectionSteps ==
  ASSUME BoardOK,
         \/ Board!Refused \/ Board!Break \/ Board!Noticed \/ Board!Reconnect
         \/ \E ok \in BOOLEAN : Board!Refreshed(ok)
  PROVE  BoardOK'
<1> PICK cs : cs = bCalls  OBVIOUS
<1> PICK s : s = bServer'  OBVIOUS
<1>1. /\ UNCHANGED <<bCache, bLoad, bRaced, bCalls>>
      /\ \/ s = bServer \/ \E n : s = Board!Offline([bServer EXCEPT !.breaks = n])
         \/ \E n : s = [bServer EXCEPT !.breaks = n]
  BY DEF Board!Refused, Board!Break, Board!Noticed, Board!Reconnect, Board!Refreshed, Board!To
<1> QED  BY <1>1, BoardQuiet

LEMMA BoardPresses ==
  ASSUME BoardOK, Board!AskClose \/ Board!CancelClose \/ Board!DismissNotice
  PROVE  BoardOK'
<1> PICK cs : cs = bCalls  OBVIOUS
<1>1. UNCHANGED <<bCache, bLoad, bRaced, bCalls, bServer>>
  BY DEF Board!AskClose, Board!CancelClose, Board!DismissNotice, Board!Press
<1> QED  BY <1>1, BoardQuiet

LEMMA BoardFailed == ASSUME BoardOK, NEW c \in bCalls, Board!Failed(c) PROVE BoardOK'
<1> PICK cs : cs = bCalls \ {c}  OBVIOUS
<1>1. UNCHANGED <<bCache, bLoad, bRaced, bServer>> /\ bCalls' = cs  BY DEF Board!Failed
<1> QED  BY <1>1, BoardQuiet

\* A request of the commander is sent.
LEMMA BoardSends ==
  ASSUME BoardOK, Board!Activate \/ Board!CloseIncident \/ \E a \in Alert : Board!Ack(a)
  PROVE  BoardOK'
<1>1. PICK op, a, v : Board!Send(op, a, v) /\ (op = "ack" => a \in Alert)
  <2>1. CASE Board!Activate  BY <2>1 DEF Board!Activate
  <2>2. CASE Board!CloseIncident  BY <2>2 DEF Board!CloseIncident
  <2>3. CASE \E a \in Alert : Board!Ack(a)  BY <2>3 DEF Board!Ack
  <2> QED  BY <2>1, <2>2, <2>3
<1> PICK c : c = [op |-> op, alert |-> a, stage |-> "sent", live |-> op # "ack"]  OBVIOUS
<1>2. /\ bCalls' = bCalls \cup {c} /\ UNCHANGED <<bCache, bLoad, bRaced, bServer>>
  BY <1>1 DEF Board!Send
<1>3. /\ DOMAIN c = {"op", "alert", "stage", "live"} /\ c.stage = "sent"
      /\ c.op = "ack" => c.alert \in Alert
  BY <1>1
<1>4. AcksTrue(bCalls \cup {c}, bServer)  BY <1>3, BoardFacts DEF AcksTrue
<1> QED  BY <1>2, <1>4 DEF BoardOK

\* Loads of the alerts.
LEMMA LoadSteps ==
  ASSUME BoardOK, Board!ServeLoad \/ Board!LoadAlerts \/ Board!LoadFails
  PROVE  BoardOK'
<1>1. CASE Board!ServeLoad
  <2> PICK l : l = <<"read", bServer.alerts>>  OBVIOUS
  <2>1. bLoad' = l /\ UNCHANGED <<bCache, bCalls, bServer, bRaced>>  BY <1>1 DEF Board!ServeLoad
  <2>2. l[2] = bServer.alerts /\ DOMAIN bServer.alerts = Alert  BY BoardFacts DEF IsBoardServer
  <2>3. IsLoad(l)  BY <2>2 DEF IsLoad
  <2>4. Agrees(bServer, bCache, l, bRaced)  BY <2>2, <2>3, BoardFacts DEF Agrees, ReadWell
  <2> QED  BY <2>1, <2>4, BoardFacts DEF BoardOK
<1>2. CASE Board!LoadAlerts
  <2> PICK k : k = [bCache EXCEPT !.alerts = bLoad[2], !.loaded = TRUE, !.stale = FALSE]  OBVIOUS
  <2> PICK l : l = Board!NoLoad  OBVIOUS
  <2>1. bLoad' = l /\ bCache' = k /\ UNCHANGED <<bCalls, bServer, bRaced>> /\ WasRead(bLoad)
    BY <1>2 DEF Board!LoadAlerts, WasRead
  <2>2. DOMAIN bLoad[2] = Alert
    <3>1. ~WasRead(Board!NoLoad) /\ ~WasRead(<<"sent">>)  BY DEF WasRead, Board!NoLoad
    <3>2. PICK f : DOMAIN f = Alert /\ bLoad = <<"read", f>>  BY <2>1, <3>1, BoardFacts DEF IsLoad
    <3> QED  BY <3>2
  <2>3. IsBoardCache(k) /\ k.alerts = bLoad[2]  BY <2>2, BoardFacts DEF IsBoardCache
  <2>4. Current(k, bServer, bRaced)  BY <2>1, <2>3, BoardFacts DEF Current, Agrees, ReadWell
  <2>5. Agrees(bServer, k, bLoad, bRaced)  BY <2>3, <2>4, BoardFacts DEF Agrees
  <2>6. Agrees(bServer, k, l, bRaced)  BY <2>5, AgreesLoad
  <2> QED  BY <2>1, <2>6, BoardFacts DEF BoardOK
<1>3. CASE Board!LoadFails
  <2> PICK l : l = Board!NoLoad  OBVIOUS
  <2>1. bLoad' = l /\ UNCHANGED <<bCache, bCalls, bServer, bRaced>>  BY <1>3 DEF Board!LoadFails
  <2>2. Agrees(bServer, bCache, l, bRaced)  BY BoardFacts, AgreesLoad
  <2> QED  BY <2>1, <2>2, BoardFacts DEF BoardOK
<1> QED  BY <1>1, <1>2, <1>3

-----------------------------------------------------------------------------
\* An event is queued after a step that agrees with it.
Announces(s, e, y, ld, r, g) ==
  /\ r \cup Board!Dropped(s) \subseteq g
  /\ e \in Events /\ IsBoardServer(y) /\ y.stream = s.stream
  /\ \A a \in Alert : About(e, a) \/ (y.alerts[a] = s.alerts[a] /\ (a \in s.silent => a \in y.silent))
  /\ \A a \in Alert \ g : About(e, a) => y.alerts[a] = e[3] /\ (WasRead(ld) => ld[2][a] = y.alerts[a])

LEMMA AgreesPublished ==
  ASSUME NEW s, NEW c, NEW ld, NEW r, Agrees(s, c, ld, r),
         NEW e, NEW y, NEW g, Announces(s, e, y, ld, r, g)
  PROVE  Agrees(Board!Publish(y, e), c, ld, g)
<1> USE DEF Announces
<1> PICK z : z = Board!Publish(y, e)  OBVIOUS
<1> SUFFICES Agrees(z, c, ld, g)  OBVIOUS
<1>1. /\ IsBoardServer(z)
      /\ z.alerts = y.alerts /\ z.silent = y.silent
      /\ z.stream.on = y.stream.on /\ z.stream.ready = y.stream.ready
      /\ \A a, v : LastSays(z.stream.queue, a, v) => \/ About(e, a) /\ v = e[3]
                                                     \/ ~About(e, a) /\ LastSays(y.stream.queue, a, v)
      /\ \A a : y.stream.on /\ (Mentions(y.stream.queue, a) \/ About(e, a))
                  => Mentions(z.stream.queue, a) \/ a \in Board!Dropped(y)
  BY Published DEF Publication
<1>2. Board!Dropped(y) = Board!Dropped(s)  BY DEF Board!Dropped
<1>3. Told(z, g)
  <2> SUFFICES ASSUME NEW a \in Alert \ g, NEW v, LastSays(z.stream.queue, a, v)  PROVE v = z.alerts[a]
    BY DEF Told
  <2>1. CASE About(e, a)  BY <1>1, <2>1
  <2>2. CASE ~About(e, a)
    <3>1. LastSays(s.stream.queue, a, v) /\ a \in Alert \ r  BY <1>1, <2>2
    <3>2. v = s.alerts[a]  BY <3>1 DEF Agrees, Told
    <3> QED  BY <1>1, <2>2, <3>2
  <2> QED  BY <2>1, <2>2
<1>4. \A a \in Expected(z, g) : a \in Alert \ g /\ (~About(e, a) => a \in Expected(s, r) /\ y.alerts[a] = s.alerts[a])
  BY <1>1 DEF Expected
<1>5. ReadWell(ld, z, g)  BY <1>1, <1>4 DEF ReadWell, Agrees
<1>6. Current(c, z, g)
  <2> SUFFICES ASSUME s.stream.on, ~s.stream.ready, c.loaded, ~c.stale, NEW a \in Expected(z, g)
               PROVE  Mentions(z.stream.queue, a) \/ c.alerts[a] = z.alerts[a]
    BY <1>1 DEF Current
  <2>1. a \in Alert \ g /\ a \notin Board!Dropped(y)  BY <1>2, <1>4
  <2>2. CASE About(e, a)  BY <1>1, <2>1, <2>2
  <2>3. CASE ~About(e, a)
    <3>1. Mentions(s.stream.queue, a) \/ c.alerts[a] = s.alerts[a]  BY <1>4, <2>3 DEF Agrees, Current
    <3> QED  BY <1>1, <1>4, <2>1, <2>3, <3>1
  <2> QED  BY <2>2, <2>3
<1> QED  BY <1>1, <1>3, <1>5, <1>6 DEF Agrees

LEMMA AlertsSay ==
  ASSUME NEW a, NEW st, NEW e, e = <<"alert", a, st>>
  PROVE  /\ e[3] = st /\ \A b : About(e, b) <=> b = a
         /\ a \in Alert /\ st \in {"open", "acked"} => e \in Events
BY DEF About, Events, AlertEvent

LEMMA RaiseStep == ASSUME BoardOK, NEW a \in Alert, Board!Raise(a) PROVE BoardOK'
<1> PICK q : q = bServer.stream.queue  OBVIOUS
<1> PICK al : al = [bServer.alerts EXCEPT ![a] = "open"]  OBVIOUS
<1> PICK z : z = [bServer EXCEPT !.alerts = al, !.silent = bServer.silent \cup {a}]  OBVIOUS
<1>1. bServer' = z /\ bServer.alerts[a] = "none" /\ UNCHANGED <<bCache, bLoad, bCalls, bRaced>>
  BY DEF Board!Raise, Board!None
<1>2. /\ DOMAIN bServer.alerts = Alert /\ bServer.silent \subseteq Alert /\ DOMAIN bServer = ServerFields
      /\ IsStream(bServer.stream)
  BY BoardFacts DEF IsBoardServer
<1>3. DOMAIN al = Alert /\ al[a] = "open" /\ \A b \in Alert \ {a} : al[b] = bServer.alerts[b]  BY <1>2
<1>4. z.alerts = al /\ z.silent = bServer.silent \cup {a} /\ z.stream = bServer.stream /\ DOMAIN z = ServerFields
  BY <1>2 DEF ServerFields
<1>5. IsBoardServer(z)  BY <1>2, <1>3, <1>4 DEF IsBoardServer
<1>6. Told(z, bRaced)
  <2> SUFFICES ASSUME NEW b \in Alert \ bRaced, NEW v, LastSays(q, b, v)  PROVE v = al[b]
    BY <1>4 DEF Told
  <2>1. v = bServer.alerts[b]  BY BoardFacts DEF Agrees, Told
  <2>2. v \in {"open", "acked"}
    <3>1. PICK i \in 1..Len(q) : About(q[i], b) /\ q[i][3] = v  BY DEF LastSays
    <3>2. q[i] \in Events  BY <3>1, BoardFacts
    <3> QED  BY <3>1, <3>2, AnEvent DEF About
  <2> QED  BY <1>1, <1>3, <2>1, <2>2
<1>7. \A b \in Expected(z, bRaced) : b \in Expected(bServer, bRaced) /\ al[b] = bServer.alerts[b]
  BY <1>3, <1>4 DEF Expected
<1>8. Agrees(z, bCache, bLoad, bRaced)
  BY <1>4, <1>5, <1>6, <1>7, BoardFacts DEF Agrees, ReadWell, Current
<1>9. AcksTrue(bCalls, z)  BY <1>1, <1>3, <1>4, BoardFacts DEF AcksTrue
<1> QED  BY <1>1, <1>8, <1>9 DEF BoardOK

LEMMA AnnounceStep == ASSUME BoardOK, NEW a \in Alert, Board!Announce(a) PROVE BoardOK'
<1> PICK y : y = [bServer EXCEPT !.silent = bServer.silent \ {a}]  OBVIOUS
<1> PICK e : e = <<"alert", a, "open">>  OBVIOUS
<1> PICK z : z = Board!Publish(y, e)  OBVIOUS
<1> PICK g : g = bRaced'  OBVIOUS
<1>1. bServer' = z /\ UNCHANGED <<bCache, bLoad, bCalls>> /\ Board!Raced(a, "open")
  BY DEF Board!Announce
<1>2. /\ bRaced \cup Board!Dropped(bServer) \subseteq g
      /\ a \notin g => ~Board!Overtaken(a, "open") /\ bServer.alerts[a] = "open"
  BY <1>1 DEF Board!Raced
<1>3. /\ IsBoardServer(y) /\ y.alerts = bServer.alerts /\ y.stream = bServer.stream
      /\ y.silent = bServer.silent \ {a}
  BY BoardFacts DEF IsBoardServer, ServerFields
<1>4. e \in Events /\ e[3] = "open" /\ \A b : About(e, b) <=> b = a  BY AlertsSay
<1>5. \A b \in Alert \ g : About(e, b) => y.alerts[b] = e[3] /\ (WasRead(bLoad) => bLoad[2][b] = y.alerts[b])
  BY <1>2, <1>3, <1>4 DEF Board!Overtaken, WasRead
<1>6. \A b \in Alert : About(e, b) \/ (y.alerts[b] = bServer.alerts[b] /\ (b \in bServer.silent => b \in y.silent))
  BY <1>3, <1>4
<1>7. Agrees(bServer, bCache, bLoad, bRaced)  BY BoardFacts
<1>8. Agrees(z, bCache, bLoad, g)
  <2>1. Announces(bServer, e, y, bLoad, bRaced, g)  BY <1>2, <1>3, <1>4, <1>5, <1>6 DEF Announces
  <2> QED  BY <1>7, <2>1, AgreesPublished
<1>9. z.alerts = bServer.alerts  BY <1>3, <1>4, Published DEF Publication
<1>10. AcksTrue(bCalls, z)  BY <1>9, BoardFacts DEF AcksTrue
<1> QED  BY <1>1, <1>8, <1>10 DEF BoardOK

\* The requests that a served one leaves.
Served(c, d)      == d = [c EXCEPT !.stage = "done"]
Remaining(cs, c, d)  == (cs \ {c}) \cup {d}
StillAcked(s, c, z) ==
  /\ \A a \in Alert : s.alerts[a] = "acked" => z.alerts[a] = "acked"
  /\ c.op = "ack" => z.alerts[c.alert] = "acked"

LEMMA AcksServed ==
  ASSUME NEW s, NEW cs, AcksTrue(cs, s), NEW c \in cs, NEW z, StillAcked(s, c, z),
         NEW d, Served(c, d)
  PROVE  AcksTrue(Remaining(cs, c, d), z)
<1> USE DEF Served, Remaining, StillAcked
<1>1. DOMAIN c = {"op", "alert", "stage", "live"} /\ (c.op = "ack" => c.alert \in Alert)  BY DEF AcksTrue
<1>2. DOMAIN d = {"op", "alert", "stage", "live"} /\ d.op = c.op /\ d.alert = c.alert  BY <1>1
<1> QED  BY <1>1, <1>2 DEF AcksTrue

LEMMA ServeLifeStep ==
  ASSUME BoardOK, NEW c \in bCalls, Board!ServeActivate(c) \/ Board!ServeClose(c)
  PROVE  BoardOK'
<1>1. PICK op, from, to : Board!ServeLife(c, op, from, to) /\ to \in {"active", "closed"} /\ op # "ack"
  <2>1. CASE Board!ServeActivate(c)  BY <2>1 DEF Board!ServeActivate
  <2>2. CASE Board!ServeClose(c)  BY <2>2 DEF Board!ServeClose
  <2> QED  BY <2>1, <2>2
<1> PICK y : y = [bServer EXCEPT !.status = to]  OBVIOUS
<1> PICK e : e = <<"incident", to>>  OBVIOUS
<1> PICK z : z = Board!Publish(y, e)  OBVIOUS
<1> PICK g : g = bRaced'  OBVIOUS
<1> PICK d : d = [c EXCEPT !.stage = "done"]  OBVIOUS
<1>2. /\ bServer' = z /\ g = bRaced \cup Board!Dropped(bServer) /\ bCalls' = (bCalls \ {c}) \cup {d}
      /\ UNCHANGED <<bCache, bLoad>> /\ c.op # "ack"
  BY <1>1 DEF Board!ServeLife, Board!Served
<1>3. /\ IsBoardServer(y) /\ y.alerts = bServer.alerts /\ y.stream = bServer.stream
      /\ y.silent = bServer.silent
  BY BoardFacts DEF IsBoardServer, ServerFields
<1>4. e \in Events /\ \A b : ~About(e, b)  BY <1>1 DEF Events, IncidentEvent, About
<1>5. Agrees(bServer, bCache, bLoad, bRaced)  BY BoardFacts
<1>6. Agrees(z, bCache, bLoad, g)
  <2>1. Announces(bServer, e, y, bLoad, bRaced, g)  BY <1>2, <1>3, <1>4 DEF Announces
  <2> QED  BY <1>5, <2>1, AgreesPublished
<1>7. z.alerts = bServer.alerts  BY <1>3, <1>4, Published DEF Publication
<1>8. AcksTrue(bCalls', z)
  <2> PICK s : s = bServer  OBVIOUS
  <2> PICK cs : cs = bCalls  OBVIOUS
  <2>1. AcksTrue(cs, s) /\ Served(c, d)  BY BoardFacts DEF Served
  <2>2. StillAcked(s, c, z)  BY <1>2, <1>7 DEF StillAcked
  <2>3. bCalls' = Remaining(cs, c, d)  BY <1>2 DEF Remaining
  <2> QED  BY <2>1, <2>2, <2>3, AcksServed
<1> QED  BY <1>2, <1>6, <1>8 DEF BoardOK

LEMMA ServeAckStep == ASSUME BoardOK, NEW c \in bCalls, Board!ServeAck(c) PROVE BoardOK'
<1> PICK a : a = c.alert  OBVIOUS
<1> PICK al : al = [bServer.alerts EXCEPT ![a] = "acked"]  OBVIOUS
<1> PICK y : y = [bServer EXCEPT !.alerts = al]  OBVIOUS
<1> PICK e : e = <<"alert", a, "acked">>  OBVIOUS
<1> PICK z : z = Board!Publish(y, e)  OBVIOUS
<1> PICK g : g = bRaced'  OBVIOUS
<1> PICK d : d = [c EXCEPT !.stage = "done"]  OBVIOUS
<1>1. /\ bServer' = z /\ bCalls' = (bCalls \ {c}) \cup {d} /\ UNCHANGED <<bCache, bLoad>> /\ c.op = "ack"
      /\ g = bRaced \cup Board!Dropped(bServer) \cup (IF Board!Overtaken(a, "acked") THEN {a} ELSE {})
  BY DEF Board!ServeAck, Board!Served
<1>2. a \in Alert  BY <1>1, BoardFacts DEF AcksTrue
<1>3. /\ DOMAIN bServer.alerts = Alert /\ bServer.silent \subseteq Alert /\ DOMAIN bServer = ServerFields
      /\ IsStream(bServer.stream)
  BY BoardFacts DEF IsBoardServer
<1>4. DOMAIN al = Alert /\ al[a] = "acked" /\ \A b \in Alert \ {a} : al[b] = bServer.alerts[b]  BY <1>2, <1>3
<1>5. y.alerts = al /\ y.silent = bServer.silent /\ y.stream = bServer.stream /\ DOMAIN y = ServerFields
  BY <1>3 DEF ServerFields
<1>6. IsBoardServer(y)  BY <1>3, <1>4, <1>5 DEF IsBoardServer
<1>7. e \in Events /\ e[3] = "acked" /\ \A b : About(e, b) <=> b = a  BY <1>2, AlertsSay
<1>8. \A b \in Alert \ g : About(e, b) => y.alerts[b] = e[3] /\ (WasRead(bLoad) => bLoad[2][b] = y.alerts[b])
  BY <1>1, <1>4, <1>5, <1>7 DEF Board!Overtaken, WasRead
<1>9. \A b \in Alert : About(e, b) \/ (y.alerts[b] = bServer.alerts[b] /\ (b \in bServer.silent => b \in y.silent))
  BY <1>4, <1>5, <1>7
<1>10. Agrees(bServer, bCache, bLoad, bRaced) /\ bRaced \cup Board!Dropped(bServer) \subseteq g
  BY <1>1, BoardFacts
<1>11. Agrees(z, bCache, bLoad, g)
  <2>1. Announces(bServer, e, y, bLoad, bRaced, g)  BY <1>5, <1>6, <1>7, <1>8, <1>9, <1>10 DEF Announces
  <2> QED  BY <1>10, <2>1, AgreesPublished
<1>12. z.alerts = al  BY <1>5, <1>6, <1>7, Published DEF Publication
<1>13. \A b \in Alert : bServer.alerts[b] = "acked" => z.alerts[b] = "acked"  BY <1>4, <1>12
<1>14. AcksTrue(bCalls', z)
  <2> PICK s : s = bServer  OBVIOUS
  <2> PICK cs : cs = bCalls  OBVIOUS
  <2>1. AcksTrue(cs, s) /\ Served(c, d)  BY BoardFacts DEF Served
  <2>2. StillAcked(s, c, z)  BY <1>4, <1>12, <1>13 DEF StillAcked
  <2>3. bCalls' = Remaining(cs, c, d)  BY <1>1 DEF Remaining
  <2> QED  BY <2>1, <2>2, <2>3, AcksServed
<1> QED  BY <1>1, <1>11, <1>14 DEF BoardOK

-----------------------------------------------------------------------------
LEMMA ConnectStep == ASSUME BoardOK, Board!Connect PROVE BoardOK'
<1> PICK s : s = bServer  OBVIOUS
<1> PICK st : st = [on |-> TRUE, ready |-> TRUE, queue |-> <<>>]  OBVIOUS
<1> PICK z : z = [s EXCEPT !.stream = st]  OBVIOUS
<1>0. IsBoardServer(s) /\ Streaming(s, st, z)  BY BoardFacts DEF Streaming
<1>1. bServer' = z /\ UNCHANGED <<bCache, bLoad, bCalls, bRaced>>  BY DEF Board!Connect
<1>2. IsStream(st) /\ st.ready = TRUE /\ st.queue = <<>>  BY SizesAssumption DEF IsStream, StreamFields
<1>3. IsBoardServer(z) /\ z.alerts = bServer.alerts /\ z.silent = bServer.silent /\ z.stream = st
  <2>1. Streams(s, st, z)  BY <1>0, <1>2, WithStream
  <2> QED  BY <2>1 DEF Streams
<1>4. Told(z, bRaced)  BY <1>2, <1>3, EmptySaysNothing DEF Told
<1>5. Agrees(z, bCache, bLoad, bRaced)
  BY <1>2, <1>3, <1>4, BoardFacts DEF Agrees, ReadWell, Current, Expected
<1>6. AcksTrue(bCalls, z)  BY <1>3, BoardFacts DEF AcksTrue
<1> QED  BY <1>1, <1>5, <1>6 DEF BoardOK

LEMMA ReadyStep == ASSUME BoardOK, Board!Ready PROVE BoardOK'
<1> PICK s : s = bServer  OBVIOUS
<1> PICK st : st = [bServer.stream EXCEPT !.ready = FALSE]  OBVIOUS
<1> PICK z : z = [s EXCEPT !.stream = st]  OBVIOUS
<1> PICK k : k = Board!Invalidated(bCache)  OBVIOUS
<1> PICK l : l = bLoad'  OBVIOUS
<1>0. IsBoardServer(s) /\ Streaming(s, st, z)  BY BoardFacts DEF Streaming
<1>1. /\ bServer' = z /\ bCache' = k /\ l \in {bLoad, <<"sent">>} /\ UNCHANGED <<bCalls, bRaced>>
  BY DEF Board!Ready
<1>2. IsStream(bServer.stream)  BY BoardFacts DEF IsBoardServer
<1>3. IsStream(st) /\ st.on = bServer.stream.on /\ st.queue = bServer.stream.queue
  BY <1>2 DEF IsStream, StreamFields
<1>4. IsBoardServer(z) /\ z.alerts = bServer.alerts /\ z.silent = bServer.silent /\ z.stream = st
  <2>1. Streams(s, st, z)  BY <1>0, <1>3, WithStream
  <2> QED  BY <2>1 DEF Streams
<1>5. IsBoardCache(k) /\ k.stale = k.loaded  BY BoardFacts DEF IsBoardCache, Board!Invalidated
<1>6. Agrees(z, k, bLoad, bRaced)
  BY <1>3, <1>4, <1>5, BoardFacts DEF Agrees, Told, ReadWell, Current, Expected
<1>7. Agrees(z, k, l, bRaced)  BY <1>1, <1>6, AgreesLoad
<1>8. AcksTrue(bCalls, z)  BY <1>4, BoardFacts DEF AcksTrue
<1> QED  BY <1>1, <1>7, <1>8 DEF BoardOK

Upserts(c, a, v, k) == k = Board!upsertAlert(c, a, v)
Shows(c, a, v, k) ==
  /\ IsBoardCache(k) /\ k.loaded = c.loaded /\ k.stale = c.stale
  /\ c.loaded => k.alerts[a] = v
  /\ \A b \in Alert \ {a} : k.alerts[b] = c.alerts[b]

LEMMA Upserted ==
  ASSUME NEW c, IsBoardCache(c), NEW a \in Alert, NEW st, NEW k, Upserts(c, a, st, k)
  PROVE  Shows(c, a, st, k)
<1> USE DEF Upserts, Shows
<1>1. CASE ~c.loaded  BY <1>1 DEF Board!upsertAlert
<1>2. CASE c.loaded
  <2> PICK al : al = [c.alerts EXCEPT ![a] = st]  OBVIOUS
  <2>1. k = [c EXCEPT !.alerts = al]  BY <1>2 DEF Board!upsertAlert
  <2>2. DOMAIN al = Alert /\ al[a] = st /\ \A b \in Alert \ {a} : al[b] = c.alerts[b]
    BY DEF IsBoardCache
  <2>3. k.alerts = al /\ k.loaded = c.loaded /\ k.stale = c.stale /\ DOMAIN k = DOMAIN c
    BY <2>1 DEF IsBoardCache
  <2> QED  BY <2>2, <2>3 DEF IsBoardCache
<1> QED  BY <1>1, <1>2 DEF IsBoardCache

LEMMA DeliverStep == ASSUME BoardOK, Board!Deliver PROVE BoardOK'
<1> PICK q : q = bServer.stream.queue  OBVIOUS
<1> PICK e : e = Head(q)  OBVIOUS
<1> PICK p : p = Tail(q)  OBVIOUS
<1> PICK s : s = bServer  OBVIOUS
<1> PICK st : st = [bServer.stream EXCEPT !.queue = p]  OBVIOUS
<1> PICK z : z = [s EXCEPT !.stream = st]  OBVIOUS
<1> PICK k : k = IF e[1] = "alert" THEN Board!upsertAlert(bCache, e[2], e[3])
                 ELSE [bCache EXCEPT !.incident = e[2]]
  OBVIOUS
<1> PICK g : g = bRaced'  OBVIOUS
<1>0. IsBoardServer(s) /\ Streaming(s, st, z)  BY BoardFacts DEF Streaming
<1>1. /\ Board!Display(bView, k, bLoad, bCalls) /\ Board!Rest(z) /\ bServer.stream.on /\ q # <<>>
      /\ g = IF e[1] = "alert" /\ Board!Overtaken(e[2], e[3]) THEN bRaced \cup {e[2]} ELSE bRaced
  BY DEF Board!Deliver
<1>2. q \in Seq(Events) /\ Len(q) <= QueueSize /\ IsStream(bServer.stream) /\ Len(q) \in Nat /\ QueueSize \in Nat
  BY BoardFacts, SizesAssumption DEF IsBoardServer, IsStream
<1>3. /\ p \in Seq(Events) /\ Len(p) = Len(q) - 1 /\ e \in Events
      /\ \A a, v : LastSays(p, a, v) => LastSays(q, a, v)
      /\ \A a : Mentions(q, a) => Mentions(p, a) \/ About(e, a)
      /\ \A a : About(e, a) => Mentions(p, a) \/ LastSays(q, a, e[3])
  BY <1>1, <1>2, Shortened
<1>4. IsStream(st) /\ st.on = bServer.stream.on /\ st.ready = bServer.stream.ready /\ st.queue = p
  <2>1. Len(p) <= QueueSize  BY <1>2, <1>3
  <2> QED  BY <1>1, <1>2, <1>3, <2>1 DEF IsStream, StreamFields
<1>5. IsBoardServer(z) /\ z.alerts = bServer.alerts /\ z.silent = bServer.silent /\ z.stream = st
  <2>1. Streams(s, st, z)  BY <1>0, <1>4, WithStream
  <2> QED  BY <2>1 DEF Streams
<1>6. bRaced \subseteq g  BY <1>1
<1>7. Told(z, g)
  <2>1. Told(bServer, bRaced)  BY BoardFacts DEF Agrees
  <2> SUFFICES ASSUME NEW a \in Alert \ g, NEW v, LastSays(p, a, v)  PROVE v = z.alerts[a]
    <3>1. z.stream.queue = p  BY <1>4, <1>5
    <3> QED  BY <3>1 DEF Told
  <2>2. LastSays(q, a, v)  BY <1>3
  <2> QED  BY <1>5, <1>6, <2>1, <2>2 DEF Told
<1>8. ReadWell(bLoad, z, g)  BY <1>5, <1>6, BoardFacts DEF ReadWell, Agrees, Expected
<1>9. IsBoardCache(k) /\ Current(k, z, g)
  <2>0. /\ z.stream.queue = p /\ z.stream.on = bServer.stream.on /\ z.stream.ready = bServer.stream.ready
        /\ z.alerts = bServer.alerts
    BY <1>4, <1>5
  <2>1. CASE e[1] = "alert"
    <3> PICK a : a = e[2]  OBVIOUS
    <3>1. a \in Alert /\ k = Board!upsertAlert(bCache, a, e[3]) /\ \A b : About(e, b) <=> b = a
      BY <1>3, <2>1, AnEvent DEF About
    <3>2. /\ IsBoardCache(k) /\ k.loaded = bCache.loaded /\ k.stale = bCache.stale
          /\ bCache.loaded => k.alerts[a] = e[3]
          /\ \A b \in Alert \ {a} : k.alerts[b] = bCache.alerts[b]
      <4> PICK h : h = bCache  OBVIOUS
      <4> PICK w : w = e[3]  OBVIOUS
      <4>1. IsBoardCache(h) /\ Upserts(h, a, w, k)  BY <3>1, BoardFacts DEF Upserts
      <4>2. Shows(h, a, w, k)  BY <3>1, <4>1, Upserted
      <4> QED  BY <4>2 DEF Shows
    <3>3. ASSUME bServer.stream.on, ~bServer.stream.ready, k.loaded, ~k.stale, NEW b \in Expected(z, g)
          PROVE  Mentions(p, b) \/ k.alerts[b] = z.alerts[b]
      <4>1. b \in Expected(bServer, bRaced) /\ b \in Alert \ bRaced  BY <1>5, <1>6, <3>3 DEF Expected
      <4>2. CASE b = a
        <5>1. CASE Mentions(p, b)  BY <5>1
        <5>2. CASE ~Mentions(p, b)
          <6>1. LastSays(q, b, e[3])  BY <1>3, <3>1, <4>2, <5>2
          <6>2. e[3] = bServer.alerts[b]  BY <4>1, <6>1, BoardFacts DEF Agrees, Told
          <6> QED  BY <1>5, <3>2, <3>3, <4>2, <6>2
        <5> QED  BY <5>1, <5>2
      <4>3. CASE b # a
        <5>1. Mentions(q, b) \/ bCache.alerts[b] = bServer.alerts[b]
          BY <3>2, <3>3, <4>1, BoardFacts DEF Agrees, Current
        <5>2. k.alerts[b] = bCache.alerts[b]  BY <3>2, <4>1, <4>3
        <5> QED  BY <1>3, <1>5, <3>1, <4>3, <5>1, <5>2
      <4> QED  BY <4>2, <4>3
    <3> QED  BY <2>0, <3>2, <3>3 DEF Current
  <2>2. CASE e[1] # "alert"
    <3>1. k = [bCache EXCEPT !.incident = e[2]] /\ \A b : ~About(e, b)  BY <2>2 DEF About
    <3>2. IsBoardCache(k) /\ k.alerts = bCache.alerts /\ k.loaded = bCache.loaded /\ k.stale = bCache.stale
      <4> PICK h : h = bCache  OBVIOUS
      <4> PICK w : w = e[2]  OBVIOUS
      <4>1. IsBoardCache(h) /\ k = [h EXCEPT !.incident = w]  BY <3>1, BoardFacts
      <4> QED  BY <4>1 DEF IsBoardCache
    <3>3. \A b \in Expected(z, g) : b \in Expected(bServer, bRaced)  BY <1>5, <1>6 DEF Expected
    <3>4. ASSUME bServer.stream.on, ~bServer.stream.ready, k.loaded, ~k.stale, NEW b \in Expected(z, g)
          PROVE  Mentions(p, b) \/ k.alerts[b] = z.alerts[b]
      <4>1. Mentions(q, b) \/ bCache.alerts[b] = bServer.alerts[b]
        BY <3>2, <3>3, <3>4, BoardFacts DEF Agrees, Current
      <4> QED  BY <1>3, <2>0, <3>1, <3>2, <4>1
    <3> QED  BY <2>0, <3>2, <3>4 DEF Current
  <2> QED  BY <2>1, <2>2
<1>10. Agrees(z, k, bLoad, g)  BY <1>5, <1>7, <1>8, <1>9, BoardFacts DEF Agrees
<1>11. AcksTrue(bCalls, z)  BY <1>5, BoardFacts DEF AcksTrue
<1>12. bRaced' = g  OBVIOUS
<1> QED  BY <1>1, <1>10, <1>11, <1>12, DisplayStep

LEMMA LifeAnsweredStep == ASSUME BoardOK, NEW c \in bCalls, Board!LifeAnswered(c) PROVE BoardOK'
<1>1. PICK v, w : /\ Board!Display(v, [bCache EXCEPT !.incident = w], bLoad, bCalls \ {c})
                  /\ Board!Rest(bServer) /\ bRaced' = bRaced
  BY DEF Board!LifeAnswered
<1> PICK k : k = [bCache EXCEPT !.incident = w]  OBVIOUS
<1> PICK cs : cs = bCalls \ {c}  OBVIOUS
<1>2. IsBoardCache(k) /\ k.alerts = bCache.alerts /\ k.loaded = bCache.loaded /\ k.stale = bCache.stale
  BY BoardFacts, CacheWith
<1>3. Agrees(bServer, k, bLoad, bRaced)  BY <1>2, BoardFacts, AgreesCache
<1>4. AcksTrue(cs, bServer)  BY BoardFacts DEF AcksTrue
<1>5. Board!Display(v, k, bLoad, cs)  BY <1>1
<1> QED  BY <1>1, <1>3, <1>4, <1>5, DisplayStep

LEMMA AckAnsweredStep == ASSUME BoardOK, NEW c \in bCalls, Board!AckAnswered(c) PROVE BoardOK'
<1> PICK a : a = c.alert  OBVIOUS
<1> PICK k : k = Board!upsertAlert(bCache, a, "acked")  OBVIOUS
<1> PICK cs : cs = bCalls \ {c}  OBVIOUS
<1>1. bCache' = k /\ bCalls' = cs /\ UNCHANGED <<bLoad, bServer, bRaced>> /\ c.op = "ack" /\ c.stage = "done"
  BY DEF Board!AckAnswered
<1>2. a \in Alert /\ bServer.alerts[a] = "acked"  BY <1>1, BoardFacts DEF AcksTrue
<1>3. /\ IsBoardCache(k) /\ k.loaded = bCache.loaded /\ k.stale = bCache.stale
      /\ bCache.loaded => k.alerts[a] = "acked"
      /\ \A b \in Alert \ {a} : k.alerts[b] = bCache.alerts[b]
  <2> PICK h : h = bCache  OBVIOUS
  <2>1. IsBoardCache(h) /\ Upserts(h, a, "acked", k)  BY BoardFacts DEF Upserts
  <2>2. Shows(h, a, "acked", k)  BY <1>2, <2>1, Upserted
  <2> QED  BY <2>2 DEF Shows
<1>4. \A b \in Expected(bServer, bRaced) : b \in Alert  BY DEF Expected
<1>5. Current(k, bServer, bRaced)  BY <1>2, <1>3, <1>4, BoardFacts DEF Agrees, Current
<1>6. Agrees(bServer, k, bLoad, bRaced)  BY <1>3, <1>5, BoardFacts DEF Agrees
<1>7. AcksTrue(cs, bServer)  BY BoardFacts DEF AcksTrue
<1> QED  BY <1>1, <1>6, <1>7 DEF BoardOK

LEMMA BoardInit == Board!Init => BoardOK
<1> SUFFICES ASSUME Board!Init  PROVE BoardOK  OBVIOUS
<1> PICK st : st = Board!NoStream  OBVIOUS
<1>1. IsStream(st) /\ st.queue = <<>> /\ st.on = FALSE
  BY SizesAssumption DEF IsStream, StreamFields, Board!NoStream
<1>2. bServer = [status |-> "dispatched", alerts |-> Board!Blank, silent |-> {}, stream |-> st, breaks |-> 0]
      /\ bCache = [list |-> Board!None, incident |-> Board!None, alerts |-> Board!Blank, loaded |-> FALSE, stale |-> FALSE]
      /\ bLoad = Board!NoLoad /\ bCalls = {}
  BY DEF Board!Init
<1>3. DOMAIN Board!Blank = Alert  BY DEF Board!Blank
<1>4. IsBoardServer(bServer) /\ bServer.stream = st  BY <1>1, <1>2, <1>3 DEF IsBoardServer, ServerFields
<1>5. IsBoardCache(bCache)  BY <1>2, <1>3 DEF IsBoardCache
<1>6. Told(bServer, bRaced)  BY <1>1, <1>4, EmptySaysNothing DEF Told
<1>7. ~WasRead(bLoad) /\ IsLoad(bLoad)  BY <1>2 DEF WasRead, IsLoad, Board!NoLoad
<1> QED  BY <1>1, <1>2, <1>4, <1>5, <1>6, <1>7 DEF BoardOK, Agrees, ReadWell, Current, AcksTrue

LEMMA BoardSteps == ASSUME BoardOK, Board!Mount \/ Board!Unmount \/ Board!Next PROVE BoardOK'
<1>1. ASSUME NEW a \in Alert, Board!Raise(a) \/ Board!Announce(a) \/ Board!Ack(a)  PROVE BoardOK'
  BY <1>1, RaiseStep, AnnounceStep, BoardSends
<1>2. ASSUME NEW c \in bCalls,
             \/ Board!ServeActivate(c) \/ Board!ServeClose(c) \/ Board!ServeAck(c)
             \/ Board!LifeAnswered(c) \/ Board!AckAnswered(c) \/ Board!Failed(c)
      PROVE  BoardOK'
  BY <1>2, ServeLifeStep, ServeAckStep, LifeAnsweredStep, AckAnsweredStep, BoardFailed
<1> QED
  BY <1>1, <1>2, BoardShown, ConnectionSteps, BoardPresses, BoardSends, LoadSteps, ConnectStep,
     ReadyStep, DeliverStep DEF Board!Next

BoardInv == at = "board" => BoardOK

LEMMA InitBoard == Init => BoardInv
BY BoardInit DEF Init, BoardInv

LEMMA StepBoard == BoardInv /\ [Next]_vars => BoardInv'
<1> SUFFICES ASSUME BoardInv, [Next]_vars, at' = "board"  PROVE BoardOK'
  BY DEF BoardInv
<1>1. CASE BoardStep
  BY <1>1, BoardSteps DEF BoardStep, BoardInv
<1>2. CASE at' = at /\ UNCHANGED boardVars
  BY <1>2 DEF boardVars, BoardInv, BoardOK
<1> QED
  BY <1>1, <1>2 DEF Next, TrainerStep, UsersStep, EditorStep, FormStep, AnalysisStep, SessionStep, vars

\* A live board that is connected and has received everything shows every
\* alert as it is, except one that met one of the three races: for any
\* alerts, queue, broken connections and loads.
THEOREM AlertsShown == Spec => []NothingMissed
<1>1. BoardInv => NothingMissed
  <2> SUFFICES ASSUME BoardOK, Board!Quiet, NEW a \in Alert \ (bRaced \cup bServer.silent)
               PROVE  bCache.alerts[a] = bServer.alerts[a]
    BY DEF BoardInv, NothingMissed, Board!NothingMissed
  <2>1. ~Mentions(bServer.stream.queue, a)  BY EmptySaysNothing DEF Board!Quiet
  <2> QED  BY <2>1, BoardFacts DEF Board!Quiet, Agrees, Current, Expected
<1> QED  BY InitBoard, StepBoard, <1>1, PTL DEF Spec
=============================================================================
