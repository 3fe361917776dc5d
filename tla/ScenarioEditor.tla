--------------------------- MODULE ScenarioEditor ---------------------------
(***************************************************************************)
(* The pages on which an administrator makes a training scenario and draws *)
(* the ground truth of its items, while another administrator may work on  *)
(* the same scenario.                                                      *)
(*                                                                         *)
(* Code: features/admin/AdminScenarios.tsx, ScenarioFields.tsx,            *)
(* ScenarioEditor.tsx, the administrator's part of api/training.ts,        *)
(* app/api/v1/training_admin.py.                                           *)
(*                                                                         *)
(* There is one scenario.  Of its fields only matters whether the form     *)
(* has them; all that an item's ground truth says beside the ids   *)
(* of its targets is one value: outlines, labels, explanations, the frame. *)
(* The reference output of the models and the progress of an upload are    *)
(* left out.                                                               *)
(***************************************************************************)
EXTENDS Naturals, FiniteSets, FiniteSetsExt, TLC

CONSTANTS
  Words,      \* what ground truths may say
  MaxId,      \* bound: the largest number in a target's id
  MaxItems,   \* bound: items uploaded
  MaxCalls,   \* bound: requests under way at once
  MaxOthers   \* bound: changes by the other administrator

VARIABLES
  page,    \* the page on screen, its state, and the Labeller's
  cache,   \* the query cache's copy of the scenario
  calls,   \* requests under way
  store    \* training_scenarios and scenario_items, and the other's changes so far

vars == <<page, cache, calls, store>>

None == "none"
AnyWord == CHOOSE w \in Words : TRUE
Blank   == [ids |-> {}, words |-> AnyWord]
Nothing == [exists |-> FALSE, items |-> <<>>]

NoLabeller == [key |-> <<>>, base |-> Blank, gt |-> Blank, busy |-> {}, confirm |-> FALSE]

Fresh(name) == [name |-> name, draft |-> None, fields |-> None, item |-> 0, busy |-> {},
                confirm |-> FALSE, lab |-> NoLabeller]

Init ==
  /\ page = Fresh("off")
  /\ cache = Nothing
  /\ calls = {}
  /\ store = Nothing @@ [made |-> 0, others |-> 0]

(***************************************************************************)
(* What is rendered                                                        *)
(***************************************************************************)
(* Mutant: the Labeller is keyed by the item alone. *)
Mutant_Key(i, gt) == <<i>>

(* The Labeller's key: other ground truth mounts another Labeller. *)
Key(i, gt) == <<i, gt>>

Labeller(i, gt, l) ==
  IF l.key = Key(i, gt) THEN l ELSE [NoLabeller EXCEPT !.key = Key(i, gt), !.base = gt, !.gt = gt]

(* The effects: the fields are taken once, and an item that is gone gives  *)
(* way to the first one there is.                                          *)
Rendered(p, c) ==
  LET i == IF p.item \in DOMAIN c.items THEN p.item
           ELSE IF DOMAIN c.items = {} THEN 0 ELSE Min(DOMAIN c.items)
  IN  IF p.name # "editor" \/ ~c.exists THEN p
      ELSE [p EXCEPT !.fields = IF @ = None THEN "loaded" ELSE @, !.item = i,
                     !.lab = IF i = 0 THEN NoLabeller ELSE Labeller(i, c.items[i], @)]

(* Callbacks of an unmounted component are dropped. *)
Detach(ops, cs) == {IF c.op \in ops THEN [c EXCEPT !.live = FALSE] ELSE c : c \in cs}

Display(p, c, cs) ==
  /\ page' = Rendered(p, c)
  /\ calls' = IF page'.lab.key = page.lab.key THEN cs ELSE Detach({"save", "delItem"}, cs)

Press(p) == Display(p, cache, calls) /\ UNCHANGED <<cache, store>>

(* A dialog covers the page. *)
Shown   == page.name = "editor" /\ cache.exists /\ page.fields # None
Editing == Shown /\ ~page.confirm /\ ~page.lab.confirm
HasItem == Editing /\ page.item # 0

(***************************************************************************)
(* Requests                                                                *)
(***************************************************************************)
Request(op) ==
  [op |-> op, item |-> 0, gt |-> Blank, base |-> Blank, seen |-> Blank, stage |-> "sent", live |-> TRUE]

Send(p, c) ==
  /\ Cardinality(calls) < MaxCalls
  /\ Display(p, cache, calls \cup {c})
  /\ UNCHANGED <<cache, store>>

(* AdminScenarios: the dialog of a new scenario, which needs its titles. *)
NewScenario == page.name = "list" /\ page.draft = None /\ Press([page EXCEPT !.draft = "empty"])
CloseDraft  == page.name = "list" /\ page.draft # None /\ Press([page EXCEPT !.draft = None])
CreateScenario ==
  /\ page.name = "list" /\ page.draft = "typed" /\ "create" \notin page.busy
  /\ Send([page EXCEPT !.busy = @ \cup {"create"}], Request("create"))

(* ScenarioFields, of a new scenario. *)
SetField == page.name = "list" /\ page.draft = "empty" /\ Press([page EXCEPT !.draft = "typed"])

SaveFields ==
  /\ Editing /\ "update" \notin page.busy
  /\ Send([page EXCEPT !.busy = @ \cup {"update"}], Request("update"))

Upload == Editing /\ Send(page, Request("upload"))

PickItem(i) == Editing /\ i \in DOMAIN cache.items \ {page.item} /\ Press([page EXCEPT !.item = i])

AskDeleteScenario == Editing /\ Press([page EXCEPT !.confirm = TRUE])
DeleteScenario ==
  /\ Shown /\ page.confirm /\ "delete" \notin page.busy
  /\ Send([page EXCEPT !.busy = @ \cup {"delete"}], Request("delete"))

(***************************************************************************)
(* The Labeller                                                            *)
(***************************************************************************)
nextId(ids) == Max(ids \cup {0}) + 1

Draw(gt) == HasItem /\ gt # page.lab.gt /\ Press([page EXCEPT !.lab.gt = gt])

(* finishPolygon, or the end of a drag that is large enough for a box. *)
DrawTarget ==
  LET ids == page.lab.gt.ids
  IN  nextId(ids) <= MaxId /\ Draw([page.lab.gt EXCEPT !.ids = ids \cup {nextId(ids)}])

(* The grid replaces all regions, and numbers its cells anew. *)
applyGrid(n) == Draw([page.lab.gt EXCEPT !.ids = 1..n])

RemoveTarget(i) == i \in page.lab.gt.ids /\ Draw([page.lab.gt EXCEPT !.ids = @ \ {i}])

(* Another label, explanation or frame. *)
Reword(w) == Draw([page.lab.gt EXCEPT !.words = w])

(* "Save" needs a change, and no save of this Labeller under way. *)
SaveItem ==
  /\ HasItem /\ page.lab.gt # cache.items[page.item] /\ "save" \notin page.lab.busy
  /\ Send([page EXCEPT !.lab.busy = @ \cup {"save"}],
          [Request("save") EXCEPT !.item = page.item, !.gt = page.lab.gt, !.base = page.lab.base,
                                  !.seen = cache.items[page.item]])

AskDeleteItem == HasItem /\ Press([page EXCEPT !.lab.confirm = TRUE])
DeleteItem ==
  /\ Shown /\ page.lab.confirm /\ "delItem" \notin page.lab.busy
  /\ Send([page EXCEPT !.lab.busy = @ \cup {"delItem"}], [Request("delItem") EXCEPT !.item = page.item])

(* ConfirmDialog: cancel, or Escape. *)
Cancel ==
  /\ page.confirm \/ page.lab.confirm
  /\ Press([page EXCEPT !.confirm = FALSE, !.lab.confirm = FALSE])

(***************************************************************************)
(* The server                                                              *)
(***************************************************************************)
Serve(c, op, after) ==
  /\ c \in calls /\ c.op = op /\ c.stage = "sent"
  /\ store' = after
  /\ calls' = (calls \ {c}) \cup {[c EXCEPT !.stage = "done", !.item = IF op = "upload" THEN store'.made ELSE @]}
  /\ UNCHANGED <<page, cache>>

ServeCreate(c) ==
  ~store.exists /\ store.made = 0 /\ Serve(c, "create", [store EXCEPT !.exists = TRUE])

ServeUpdate(c) == store.exists /\ Serve(c, "update", store)

(* add_item: the new item has no targets yet. *)
ServeUpload(c) ==
  /\ store.exists /\ store.made < MaxItems
  /\ Serve(c, "upload", [store EXCEPT !.made = @ + 1, !.items = (store.made + 1 :> Blank) @@ @])

(* update_item takes what it is sent, whatever the item said before. *)
ServeSave(c) ==
  c.item \in DOMAIN store.items /\ Serve(c, "save", [store EXCEPT !.items[c.item] = c.gt])

Without(i) == [j \in DOMAIN store.items \ {i} |-> store.items[j]]
ServeDeleteItem(c) ==
  c.item \in DOMAIN store.items /\ Serve(c, "delItem", [store EXCEPT !.items = Without(c.item)])

ServeDelete(c) ==
  store.exists /\ Serve(c, "delete", [store EXCEPT !.exists = FALSE, !.items = <<>>, !.made = MaxItems])

(* The other administrator rewords an item. *)
RewordElsewhere(i, w) ==
  /\ store.others < MaxOthers /\ i \in DOMAIN store.items /\ w # store.items[i].words
  /\ store' = [store EXCEPT !.items[i].words = w, !.others = @ + 1]
  /\ UNCHANGED <<page, cache, calls>>

(***************************************************************************)
(* Answers and navigation                                                  *)
(***************************************************************************)
Copy(s) == [exists |-> s.exists, items |-> s.items]

(* The query is loaded, and again after every change that was answered, or *)
(* when the window gets the focus.  A copy stays when there is none to load. *)
Reload ==
  /\ page.name = "editor" /\ store.exists /\ cache # Copy(store)
  /\ cache' = Copy(store) /\ Display(page, cache', calls)
  /\ UNCHANGED store

Idle(p, c) == [p EXCEPT !.busy = @ \ {c.op}, !.lab.busy = @ \ {c.op}]

Goto(p, cs) ==
  /\ cache' = cache /\ page' = Rendered(p, cache)
  /\ calls' = {[c EXCEPT !.live = FALSE] : c \in cs}

(* onSuccess: a scenario that was created is opened, one that was deleted  *)
(* is left.                                                                *)
Answered(c) ==
  /\ c \in calls /\ c.stage = "done" /\ (c.op = "upload" => ~c.live)
  /\ CASE c.op = "create" /\ c.live -> Goto(Fresh("editor"), calls \ {c})
       [] c.op = "delete" /\ c.live -> Goto(Fresh("list"), calls \ {c})
       [] c.op = "delItem" /\ c.live ->
            Display([Idle(page, c) EXCEPT !.lab.confirm = FALSE], cache, calls \ {c}) /\ UNCHANGED cache
       [] OTHER -> Display(IF c.live THEN Idle(page, c) ELSE page, cache, calls \ {c}) /\ UNCHANGED cache
  /\ UNCHANGED store

(* onFile: the list is loaded before the new item is selected; if it is    *)
(* not, the item is not there and another is selected.                     *)
UploadAnswered(c, loaded) ==
  /\ c \in calls /\ c.op = "upload" /\ c.stage = "done" /\ c.live /\ (loaded => store.exists)
  /\ cache' = IF loaded THEN Copy(store) ELSE cache
  /\ Display([page EXCEPT !.item = c.item], cache', calls \ {c})
  /\ UNCHANGED store

(* An error, or no answer. *)
Failed(c) ==
  /\ c \in calls /\ Display(IF c.live THEN Idle(page, c) ELSE page, cache, calls \ {c})
  /\ UNCHANGED <<cache, store>>

OpenEditor == page.name = "list" /\ store.exists /\ Goto(Fresh("editor"), calls) /\ UNCHANGED store
BackToList == page.name = "editor" /\ Goto(Fresh("list"), calls) /\ UNCHANGED store
Mount      == page.name = "off" /\ Goto(Fresh("list"), calls) /\ UNCHANGED store
Unmount    == page.name # "off" /\ Goto(Fresh("off"), calls) /\ UNCHANGED store

Next ==
  \/ NewScenario \/ CloseDraft \/ CreateScenario \/ SaveFields \/ Upload \/ AskDeleteScenario
  \/ DeleteScenario \/ DrawTarget \/ SaveItem \/ AskDeleteItem \/ DeleteItem \/ Cancel
  \/ SetField \/ Reload \/ OpenEditor \/ BackToList
  \/ \E w \in Words : Reword(w)
  \/ \E n \in 1..MaxId : applyGrid(n) \/ RemoveTarget(n)
  \/ \E i \in 1..MaxItems : PickItem(i) \/ \E w \in Words : RewordElsewhere(i, w)
  \/ \E c \in calls : \/ ServeCreate(c) \/ ServeUpdate(c) \/ ServeUpload(c) \/ ServeSave(c)
                      \/ ServeDeleteItem(c) \/ ServeDelete(c)
                      \/ Answered(c) \/ Failed(c)
                      \/ \E loaded \in BOOLEAN : UploadAnswered(c, loaded)

Spec == Init /\ [][Mount \/ Unmount \/ Next]_vars

(***************************************************************************)
(* Properties                                                              *)
(***************************************************************************)
(* Nobody's labels are overwritten by a page that had them: what a page    *)
(* saves started from the newest ground truth that it had loaded.          *)
SavesWhatWasLoaded == \A c \in calls : c.op = "save" => c.base = c.seen
=============================================================================
