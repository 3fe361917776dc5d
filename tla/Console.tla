------------------------------ MODULE Console ------------------------------
(***************************************************************************)
(* The pages of the console, each with the part of the server that it      *)
(* talks to: this module composes their modules behind the router, and     *)
(* says what they promise together.                                        *)
(*                                                                         *)
(* No two of the modules look at the same part of the query cache, nor of  *)
(* the server, so that what their pages do does not meet: a behaviour of   *)
(* the console goes to one part, with everything that happens there, opens *)
(* and leaves it as often as it likes, and the other parts stay closed.    *)
(***************************************************************************)
EXTENDS Naturals, Sequences, FiniteSets, SequencesExt

CONSTANTS
  ItemOrder, Target, FirstTargets, Label, MaxAttempts, MaxEdits,  \* the trainer
  Me, Known, NewId, MaxPasswords,                                 \* users
  Words, MaxId, MaxItems,                                         \* scenarios
  Alert, QueueSize, MaxBreaks,                                    \* the live board
  Section, Field, MaxValue,                                       \* settings
  Samples, Workers, MaxMedia, MaxRestarts,                        \* analysis
  Tab, NoTab, MaxSignIns, MaxRotations,                           \* the session
  MaxCalls,   \* bound: requests under way at once of the trainer, users and tabs
  FewCalls,   \* bound: the same for scenarios, settings and the live board
  MaxOthers   \* bound: steps of other administrators

ASSUME PeopleAssumption ==
  /\ Me \in Known /\ NewId \notin Known /\ "none" \notin Known /\ NoTab \notin Tab
  /\ FirstTargets \subseteq Target /\ FirstTargets # {} /\ Words # {}
ASSUME SizesAssumption == {MaxValue, QueueSize, Samples, Workers} \subseteq Nat \ {0}
ASSUME ConsoleBounds ==
  {MaxAttempts, MaxEdits, MaxPasswords, MaxId, MaxItems, MaxBreaks, MaxMedia, MaxRestarts,
   MaxSignIns, MaxRotations, MaxCalls, FewCalls, MaxOthers} \subseteq Nat

VARIABLES
  at,  \* the part of the console that this behaviour is about
  tPage, tDrafts, tCache, tCalls, tAttempts, tScenario,
  uPage, uCalls, uAccounts, uMade, uTold,
  ePage, eCache, eCalls, eStore,
  bView, bSock, bCache, bLoad, bCalls, bServer, bRaced,
  fPage, fCache, fCalls, fStore,
  aPage, aCache, aUpload, aJobs, aQueue, aBreaks,
  sTabs, sCookie, sLock, sCalls, sServer, sLost

Trainer == INSTANCE TrainerAttempt WITH
  page <- tPage, drafts <- tDrafts, cache <- tCache, calls <- tCalls,
  attempts <- tAttempts, scenario <- tScenario
Users == INSTANCE AdminUsers WITH
  page <- uPage, calls <- uCalls, accounts <- uAccounts, made <- uMade, told <- uTold
Editor == INSTANCE ScenarioEditor WITH
  page <- ePage, cache <- eCache, calls <- eCalls, store <- eStore, MaxCalls <- FewCalls
Board == INSTANCE LiveBoard WITH
  view <- bView, sock <- bSock, cache <- bCache, load <- bLoad, calls <- bCalls,
  server <- bServer, raced <- bRaced, MaxCalls <- FewCalls
Form == INSTANCE SettingsForm WITH
  page <- fPage, cache <- fCache, calls <- fCalls, store <- fStore, MaxCalls <- FewCalls
Analysis == INSTANCE ThermalAnalysis WITH
  page <- aPage, cache <- aCache, upload <- aUpload, jobs <- aJobs, queue <- aQueue,
  breaks <- aBreaks
Session == INSTANCE ClientSession WITH
  tabs <- sTabs, cookie <- sCookie, lock <- sLock, calls <- sCalls, server <- sServer,
  lost <- sLost

trainerVars == <<tPage, tDrafts, tCache, tCalls, tAttempts, tScenario>>
usersVars   == <<uPage, uCalls, uAccounts, uMade, uTold>>
editorVars == <<ePage, eCache, eCalls, eStore>>
boardVars == <<bView, bSock, bCache, bLoad, bCalls, bServer, bRaced>>
formVars == <<fPage, fCache, fCalls, fStore>>
analysisVars == <<aPage, aCache, aUpload, aJobs, aQueue, aBreaks>>
sessionVars == <<sTabs, sCookie, sLock, sCalls, sServer, sLost>>

vars == <<at, trainerVars, usersVars, editorVars, boardVars, formVars, analysisVars, sessionVars>>

(* A part that the behaviour does not visit holds nothing. *)
NoTrainer == tPage = <<>> /\ tDrafts = <<>> /\ tCache = <<>> /\ tCalls = <<>> /\ tAttempts = <<>> /\ tScenario = <<>>
NoUsers == uPage = <<>> /\ uCalls = <<>> /\ uAccounts = <<>> /\ uMade = <<>> /\ uTold = <<>>
NoEditor == ePage = <<>> /\ eCache = <<>> /\ eCalls = <<>> /\ eStore = <<>>
NoBoard == bView = <<>> /\ bSock = <<>> /\ bCache = <<>> /\ bLoad = <<>> /\ bCalls = <<>> /\ bServer = <<>> /\ bRaced = <<>>
NoForm == fPage = <<>> /\ fCache = <<>> /\ fCalls = <<>> /\ fStore = <<>>
NoAnalysis == aPage = <<>> /\ aCache = <<>> /\ aUpload = <<>> /\ aJobs = <<>> /\ aQueue = <<>> /\ aBreaks = <<>>
NoSession == sTabs = <<>> /\ sCookie = <<>> /\ sLock = <<>> /\ sCalls = <<>> /\ sServer = <<>> /\ sLost = <<>>

Init ==
  \/ at = "trainer" /\ Trainer!Init
     /\ NoUsers /\ NoEditor /\ NoBoard /\ NoForm /\ NoAnalysis /\ NoSession
  \/ at = "users" /\ Users!Init
     /\ NoTrainer /\ NoEditor /\ NoBoard /\ NoForm /\ NoAnalysis /\ NoSession
  \/ at = "editor" /\ Editor!Init
     /\ NoTrainer /\ NoUsers /\ NoBoard /\ NoForm /\ NoAnalysis /\ NoSession
  \/ at = "board" /\ Board!Init
     /\ NoTrainer /\ NoUsers /\ NoEditor /\ NoForm /\ NoAnalysis /\ NoSession
  \/ at = "form" /\ Form!Init
     /\ NoTrainer /\ NoUsers /\ NoEditor /\ NoBoard /\ NoAnalysis /\ NoSession
  \/ at = "analysis" /\ Analysis!Init
     /\ NoTrainer /\ NoUsers /\ NoEditor /\ NoBoard /\ NoForm /\ NoSession
  \/ at = "session" /\ Session!Init
     /\ NoTrainer /\ NoUsers /\ NoEditor /\ NoBoard /\ NoForm /\ NoAnalysis

(* The routes: a page is mounted when its path is entered, and unmounted   *)
(* when it is left.                                                        *)
TrainerStep ==
  /\ at = "trainer" /\ (Trainer!Mount \/ Trainer!Unmount \/ Trainer!Next)
  /\ UNCHANGED <<at, usersVars, editorVars, boardVars, formVars, analysisVars, sessionVars>>

UsersStep ==
  /\ at = "users" /\ (Users!Mount \/ Users!Unmount \/ Users!Next)
  /\ UNCHANGED <<at, trainerVars, editorVars, boardVars, formVars, analysisVars, sessionVars>>

EditorStep ==
  /\ at = "editor" /\ (Editor!Mount \/ Editor!Unmount \/ Editor!Next)
  /\ UNCHANGED <<at, trainerVars, usersVars, boardVars, formVars, analysisVars, sessionVars>>

BoardStep ==
  /\ at = "board" /\ (Board!Mount \/ Board!Unmount \/ Board!Next)
  /\ UNCHANGED <<at, trainerVars, usersVars, editorVars, formVars, analysisVars, sessionVars>>

FormStep ==
  /\ at = "form" /\ (Form!Mount \/ Form!Unmount \/ Form!Next)
  /\ UNCHANGED <<at, trainerVars, usersVars, editorVars, boardVars, analysisVars, sessionVars>>

AnalysisStep ==
  /\ at = "analysis" /\ (Analysis!Mount \/ Analysis!Unmount \/ Analysis!Next)
  /\ UNCHANGED <<at, trainerVars, usersVars, editorVars, boardVars, formVars, sessionVars>>

(* The tabs and their guards. *)
SessionStep ==
  /\ at = "session" /\ Session!Next
  /\ UNCHANGED <<at, trainerVars, usersVars, editorVars, boardVars, formVars, analysisVars>>

Next == \/ TrainerStep \/ UsersStep \/ EditorStep \/ BoardStep \/ FormStep
        \/ AnalysisStep \/ SessionStep

Spec == Init /\ [][Next]_vars

(***************************************************************************)
(* Properties                                                              *)
(***************************************************************************)
(* What is graded without an answer was not there to be answered: the      *)
(* trainer submits nothing incomplete, so that only an edit of the         *)
(* scenario can cost a trainee a target that nobody showed.                *)
UnansweredWasNotShown == at = "trainer" => Trainer!UnansweredWasNotShown

(* Attempts are a book whose entries are written once (AttemptBook), by    *)
(* whatever is retried, lost or edited on the trainer's pages.             *)
BookKept == Trainer!BookKept

(* The password on an administrator's screen opens the account it is shown *)
(* for, unless somebody else changed that account since.                   *)
ShownPasswordWorks == at = "users" => Users!ShownPasswordWorks

(* What the scenario editor saves is what it loaded with the               *)
(* administrator's own changes on it.                                      *)
SavesWhatWasLoaded == at = "editor" => Editor!SavesWhatWasLoaded

(* A live board whose link is up shows every alert and acknowledgement     *)
(* that was announced to it, those excepted that met one of three races.   *)
NothingMissed == at = "board" => Board!NothingMissed

(* Saving a section of the settings changes what was typed in it, and      *)
(* nothing that another administrator saved.                               *)
SavesOnlyWhatWasTyped == at = "form" => Form!SavesOnlyWhatWasTyped

(* The viewer of a thermal file shows all that is found in it.             *)
ShownIsFinal == at = "analysis" => Analysis!ShownIsFinal

(* An accepted thermal file is waiting, being analysed or over, and never  *)
(* analysed twice at once.                                                 *)
NoJobLost == at = "analysis" => Analysis!NoJobLost

(* The tabs of an honest browser never end their session as a stolen one,  *)
(* unless an answer to a refresh was lost.                                 *)
HonestIsNoThief == at = "session" => Session!HonestIsNoThief
=============================================================================
