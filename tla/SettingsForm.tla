---------------------------- MODULE SettingsForm ----------------------------
(***************************************************************************)
(* The page on which an administrator edits the system settings: two of    *)
(* its sections, and what the server does with what they save while        *)
(* another administrator saves as well.                                    *)
(*                                                                         *)
(* Code: features/admin/AdminSettings.tsx, settingsForm.ts, the settings   *)
(* of api/admin.ts, app/api/v1/settings.py.                                *)
(*                                                                         *)
(* A section edits one setting, whose fields are saved together.  Values   *)
(* are numbers, of which 0 stands for a field that is empty or out of its  *)
(* range.  Toggles, weights, bands and "keep for ever" are values as well. *)
(***************************************************************************)
EXTENDS Naturals, FiniteSets

CONSTANTS
  Section,    \* sections, each with one setting
  Field,      \* fields of a setting
  MaxValue,   \* values are at most this
  MaxCalls,   \* bound: requests under way at once
  MaxOthers   \* bound: saves of the other administrator

VARIABLES
  page,   \* whether the page is open, and the state of every SectionForm
  cache,  \* the query cache's copy of the settings, none at first
  calls,  \* requests under way
  store   \* system_settings, and the other's saves so far

vars == <<page, cache, calls, store>>

Default == [s \in Section |-> [f \in Field |-> 1]]
NotLoaded == [loaded |-> FALSE, values |-> Default]

(* A SectionForm: what is typed over which copy, and by which fields. *)
Clean(values) == [draft |-> values, typed |-> {}, busy |-> FALSE]
Closed == [open |-> FALSE, form |-> [s \in Section |-> Clean(Default)]]

Init ==
  /\ page = Closed /\ cache = NotLoaded /\ calls = {}
  /\ store = [values |-> Default, others |-> 0]

(***************************************************************************)
(* The form                                                                *)
(***************************************************************************)
Shown == page.open /\ cache.loaded

(* validate *)
Invalid(form, s) == \E f \in Field : form.draft[s][f] = 0

changed(form, s) == form.draft[s] # cache.values[s]

(* Mutant: what was typed stays when the settings are loaded anew. *)
Mutant_Reset(form, values) == form

(* The effect on a new copy of the settings: every section starts again. *)
Reset(form, values) == [s \in Section |-> [Clean(values) EXCEPT !.busy = form[s].busy]]

Display(c, p) ==
  /\ cache' = c
  /\ page' = IF c.values # cache.values \/ c.loaded # cache.loaded
             THEN [p EXCEPT !.form = Reset(@, c.values)] ELSE p

SetDraft(s, f, v) ==
  /\ Shown /\ v # page.form[s].draft[s][f]
  /\ page' = [page EXCEPT !.form[s].draft[s][f] = v, !.form[s].typed = @ \cup {f}]
  /\ UNCHANGED <<cache, calls, store>>

Revert(s) ==
  /\ Shown /\ changed(page.form[s], s)
  /\ page' = [page EXCEPT !.form[s] = [Clean(cache.values) EXCEPT !.busy = page.form[s].busy]]
  /\ UNCHANGED <<cache, calls, store>>

(* "Save" sends the setting with all its fields. *)
onSave(s) ==
  LET form == page.form[s] IN
  /\ Shown /\ changed(form, s) /\ ~Invalid(form, s) /\ ~form.busy /\ Cardinality(calls) < MaxCalls
  /\ calls' = calls \cup {[section |-> s, value |-> form.draft[s], typed |-> form.typed,
                           seen |-> cache.values[s], stage |-> "sent", answer |-> Default, live |-> TRUE]}
  /\ page' = [page EXCEPT !.form[s].busy = TRUE]
  /\ UNCHANGED <<cache, store>>

(***************************************************************************)
(* The server, and its answers                                             *)
(***************************************************************************)
(* update_settings replaces the setting, and answers with all of them. *)
ServeSave(c) ==
  /\ c \in calls /\ c.stage = "sent"
  /\ store' = [store EXCEPT !.values[c.section] = c.value]
  /\ calls' = (calls \ {c}) \cup {[c EXCEPT !.stage = "done", !.answer = store'.values]}
  /\ UNCHANGED <<page, cache>>

SaveElsewhere(s, f, v) ==
  /\ store.others < MaxOthers /\ v # 0 /\ v # store.values[s][f]
  /\ store' = [values |-> [store.values EXCEPT ![s][f] = v], others |-> store.others + 1]
  /\ UNCHANGED <<page, cache, calls>>

(* The settings are loaded when the page is opened, gets the focus, or has *)
(* saved.                                                                  *)
Load ==
  /\ page.open /\ cache # [loaded |-> TRUE, values |-> store.values]
  /\ Display([loaded |-> TRUE, values |-> store.values], page)
  /\ UNCHANGED <<calls, store>>

(* onSuccess of the hook: the answer becomes the copy, also if it is older *)
(* than the copy there is.                                                 *)
SaveAnswered(c) ==
  /\ c \in calls /\ c.stage = "done" /\ calls' = calls \ {c}
  /\ Display([loaded |-> TRUE, values |-> c.answer],
             IF c.live THEN [page EXCEPT !.form[c.section].busy = FALSE] ELSE page)
  /\ UNCHANGED store

(* 422, or no answer: what was typed stays. *)
Failed(c) ==
  /\ c \in calls /\ calls' = calls \ {c}
  /\ page' = IF c.live THEN [page EXCEPT !.form[c.section].busy = FALSE] ELSE page
  /\ UNCHANGED <<cache, store>>

Mount ==
  /\ ~page.open
  /\ page' = [open |-> TRUE, form |-> [s \in Section |-> Clean(cache.values)]]
  /\ UNCHANGED <<cache, calls, store>>

Unmount ==
  /\ page.open /\ page' = Closed /\ calls' = {[c EXCEPT !.live = FALSE] : c \in calls}
  /\ UNCHANGED <<cache, store>>

Next ==
  \/ Load
  \/ \E s \in Section : \/ Revert(s) \/ onSave(s)
                        \/ \E f \in Field, v \in 0..MaxValue : SetDraft(s, f, v) \/ SaveElsewhere(s, f, v)
  \/ \E c \in calls : ServeSave(c) \/ SaveAnswered(c) \/ Failed(c)

Spec == Init /\ [][Mount \/ Unmount \/ Next]_vars

(***************************************************************************)
(* Properties                                                              *)
(***************************************************************************)
(* A setting is saved whole, yet no field is saved that nobody typed and   *)
(* that differs from the newest copy on the page: a save does not bring    *)
(* back the value that another administrator was seen to have replaced.    *)
SavesOnlyWhatWasTyped ==
  \A c \in calls : \A f \in Field \ c.typed : c.value[f] = c.seen[f]
=============================================================================
