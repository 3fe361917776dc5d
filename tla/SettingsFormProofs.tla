------------------------- MODULE SettingsFormProofs -------------------------
(***************************************************************************)
(* Theorems about SettingsForm, for any sections, fields, values, and      *)
(* numbers of requests and of other administrators' saves.                 *)
(***************************************************************************)
EXTENDS SettingsForm, TLAPS

Values == [Section -> [Field -> Nat]]
Form   == [draft : Values, typed : SUBSET Field, busy : BOOLEAN]
Save   == [section : Section, value : [Field -> Nat], typed : SUBSET Field, seen : [Field -> Nat],
           stage : {"sent", "done"}, answer : Values, live : BOOLEAN]

\* The copies of the settings, the drafts over them and the requests have
\* their shapes.
TypeOK ==
  /\ page \in [open : BOOLEAN, form : [Section -> Form]]
  /\ cache \in [loaded : BOOLEAN, values : Values]
  /\ calls \subseteq Save
  /\ store \in [values : Values, others : Nat]

\* Nothing is typed that is not remembered: an open form holds the cached
\* value in every field of its own section that nobody typed.
Faithful(p, values) ==
  p.open => \A s \in Section : \A f \in Field \ p.form[s].typed :
              p.form[s].draft[s][f] = values[s][f]

IInv == TypeOK /\ Faithful(page, cache.values) /\ SavesOnlyWhatWasTyped

-----------------------------------------------------------------------------
LEMMA CleanForm ==
  ASSUME NEW values \in Values
  PROVE  Clean(values) \in Form
BY DEF Clean, Form

LEMMA DefaultValues == Default \in Values
BY DEF Default, Values

\* A new copy of the settings leaves every section clean, and the same copy
\* leaves the page as it is.
LEMMA DisplayFaithful ==
  ASSUME TypeOK, NEW c \in [loaded : BOOLEAN, values : Values],
         NEW p \in [open : BOOLEAN, form : [Section -> Form]],
         Faithful(p, cache.values), Display(c, p)
  PROVE  /\ page' \in [open : BOOLEAN, form : [Section -> Form]]
         /\ cache' = c
         /\ Faithful(page', c.values)
<1>1. CASE c.values # cache.values \/ c.loaded # cache.loaded
  <2> DEFINE new == Reset(p.form, c.values)
  <2>1. page' = [p EXCEPT !.form = new]
    BY <1>1 DEF Display
  <2>2. new \in [Section -> Form]
    BY DEF Reset, Clean, Form
  <2>3. \A s \in Section : new[s].draft = c.values
    BY DEF Reset, Clean
  <2> HIDE DEF new
  <2>4. page'.form = new
    BY <2>1
  <2>5. \A s \in Section : page'.form[s].draft = c.values
    BY <2>3, <2>4
  <2> QED
    BY <2>1, <2>2, <2>5 DEF Faithful, Display
<1>2. CASE c.values = cache.values /\ c.loaded = cache.loaded
  BY <1>2 DEF Display
<1> QED
  BY <1>1, <1>2

\* The form of one section is changed, or the flag of its request.
LEMMA FormChanged ==
  ASSUME TypeOK, NEW s \in Section, NEW form \in Form,
         page' = [page EXCEPT !.form[s] = form]
  PROVE  /\ page' \in [open : BOOLEAN, form : [Section -> Form]]
         /\ page'.open = page.open
         /\ page'.form[s] = form
         /\ \A t \in Section \ {s} : page'.form[t] = page.form[t]
BY DEF TypeOK

-----------------------------------------------------------------------------
LEMMA InitInv == Init => IInv
<1> SUFFICES ASSUME Init PROVE IInv
  OBVIOUS
<1>1. \A s \in Section : Clean(Default) \in Form
  BY CleanForm, DefaultValues
<1>2. TypeOK
  BY <1>1, DefaultValues DEF Init, TypeOK, Closed, NotLoaded
<1>3. Faithful(page, cache.values)
  BY DEF Init, Faithful, Closed
<1>4. SavesOnlyWhatWasTyped
  BY DEF Init, SavesOnlyWhatWasTyped
<1> QED
  BY <1>2, <1>3, <1>4 DEF IInv

\* The page: typing, "Revert" and "Save".
LEMMA SetDraftInv ==
  ASSUME IInv, NEW s \in Section, NEW f \in Field, NEW v \in Nat, SetDraft(s, f, v)
  PROVE  IInv'
<1> DEFINE old == page.form[s]
           form == [old EXCEPT !.draft[s][f] = v, !.typed = @ \cup {f}]
<1>1. old \in Form
  BY DEF IInv, TypeOK
<1>2. form \in Form /\ form.typed = old.typed \cup {f}
  BY <1>1 DEF Form, Values
<1>3. \A g \in Field \ {f} : form.draft[s][g] = old.draft[s][g]
  BY <1>1 DEF Form, Values
<1>4. page' = [page EXCEPT !.form[s] = form]
  BY DEF SetDraft, IInv, TypeOK
<1> HIDE DEF form
<1>5. TypeOK'
  BY <1>2, <1>4, FormChanged DEF IInv, TypeOK, SetDraft
<1>6. Faithful(page, cache.values)'
  <2> SUFFICES ASSUME page'.open, NEW t \in Section, NEW g \in Field \ page'.form[t].typed
               PROVE  page'.form[t].draft[t][g] = cache.values[t][g]
    BY DEF Faithful, SetDraft
  <2>1. page.open /\ TypeOK /\ Faithful(page, cache.values)
    BY DEF SetDraft, Shown, IInv
  <2>2. CASE t = s
    <3>1. page'.form[t] = form
      BY <1>2, <1>4, <2>1, <2>2, FormChanged
    <3>2. g # f /\ g \in Field \ old.typed
      BY <1>2, <3>1
    <3> QED
      BY <1>3, <2>1, <2>2, <3>1, <3>2 DEF Faithful
  <2>3. CASE t # s
    <3>1. page'.form[t] = page.form[t]
      BY <1>2, <1>4, <2>1, <2>3, FormChanged
    <3> QED
      BY <2>1, <3>1 DEF Faithful
  <2> QED
    BY <2>2, <2>3
<1>7. SavesOnlyWhatWasTyped'
  BY DEF IInv, SavesOnlyWhatWasTyped, SetDraft
<1> QED
  BY <1>5, <1>6, <1>7 DEF IInv

LEMMA RevertInv ==
  ASSUME IInv, NEW s \in Section, Revert(s)
  PROVE  IInv'
<1> DEFINE form == [Clean(cache.values) EXCEPT !.busy = page.form[s].busy]
<1>1. form = [draft |-> cache.values, typed |-> {}, busy |-> page.form[s].busy]
  BY DEF Clean
<1>2. form \in Form
  BY <1>1 DEF IInv, TypeOK, Form
<1>3. page' = [page EXCEPT !.form[s] = form]
  BY DEF Revert
<1> HIDE DEF form
<1>4. TypeOK'
  BY <1>2, <1>3, FormChanged DEF IInv, TypeOK, Revert
<1>5. Faithful(page, cache.values)'
  BY <1>1, <1>2, <1>3, FormChanged DEF IInv, Faithful, Revert
<1>6. SavesOnlyWhatWasTyped'
  BY DEF IInv, SavesOnlyWhatWasTyped, Revert
<1> QED
  BY <1>4, <1>5, <1>6 DEF IInv

\* The request takes over what the form is known to hold.
LEMMA OnSaveInv ==
  ASSUME IInv, NEW s \in Section, onSave(s)
  PROVE  IInv'
<1> DEFINE form == page.form[s]
           busy == [form EXCEPT !.busy = TRUE]
           c == [section |-> s, value |-> form.draft[s], typed |-> form.typed,
                 seen |-> cache.values[s], stage |-> "sent", answer |-> Default, live |-> TRUE]
<1>1. form \in Form /\ cache.values \in Values
  BY DEF IInv, TypeOK
<1>2. c \in Save
  BY <1>1, DefaultValues DEF Save, Form, Values
<1>3. busy \in Form /\ busy.draft = form.draft /\ busy.typed = form.typed
  BY <1>1 DEF Form
<1>4. page' = [page EXCEPT !.form[s] = busy] /\ calls' = calls \cup {c}
  BY DEF onSave, IInv, TypeOK
<1>5. \A f \in Field \ c.typed : c.value[f] = c.seen[f]
  BY DEF IInv, Faithful, onSave, Shown
<1> HIDE DEF busy, c
<1>6. TypeOK'
  BY <1>2, <1>3, <1>4, FormChanged DEF IInv, TypeOK, onSave
<1>7. Faithful(page, cache.values)'
  BY <1>3, <1>4, FormChanged DEF IInv, Faithful, onSave
<1>8. SavesOnlyWhatWasTyped'
  BY <1>4, <1>5 DEF IInv, SavesOnlyWhatWasTyped
<1> QED
  BY <1>6, <1>7, <1>8 DEF IInv

\* The server, and the other administrator.
LEMMA ServeSaveInv ==
  ASSUME IInv, NEW c \in calls, ServeSave(c)
  PROVE  IInv'
<1> DEFINE d == [c EXCEPT !.stage = "done", !.answer = store'.values]
<1>1. c \in Save /\ store.values \in Values
  BY DEF IInv, TypeOK
<1>2. store' \in [values : Values, others : Nat]
  BY <1>1 DEF ServeSave, IInv, TypeOK, Save, Values
<1>3. d \in Save /\ d.value = c.value /\ d.typed = c.typed /\ d.seen = c.seen
  BY <1>1, <1>2 DEF Save
<1>4. calls' = (calls \ {c}) \cup {d}
  BY DEF ServeSave
<1> HIDE DEF d
<1>5. TypeOK'
  BY <1>2, <1>3, <1>4 DEF IInv, TypeOK, ServeSave
<1>6. Faithful(page, cache.values)'
  BY DEF IInv, Faithful, ServeSave
<1>7. SavesOnlyWhatWasTyped'
  BY <1>3, <1>4 DEF IInv, SavesOnlyWhatWasTyped
<1> QED
  BY <1>5, <1>6, <1>7 DEF IInv

LEMMA SaveElsewhereInv ==
  ASSUME IInv, NEW s \in Section, NEW f \in Field, NEW v \in Nat, SaveElsewhere(s, f, v)
  PROVE  IInv'
<1>1. TypeOK'
  BY DEF IInv, TypeOK, SaveElsewhere, Values
<1>2. Faithful(page, cache.values)' /\ SavesOnlyWhatWasTyped'
  BY DEF IInv, Faithful, SavesOnlyWhatWasTyped, SaveElsewhere
<1> QED
  BY <1>1, <1>2 DEF IInv

\* A copy of the settings arrives.
LEMMA LoadInv == ASSUME IInv, Load PROVE IInv'
<1> DEFINE c == [loaded |-> TRUE, values |-> store.values]
<1>1. c \in [loaded : BOOLEAN, values : Values]
  BY DEF IInv, TypeOK
<1>2. Display(c, page) /\ UNCHANGED <<calls, store>>
  BY DEF Load
<1>3. /\ page' \in [open : BOOLEAN, form : [Section -> Form]]
      /\ cache' = c /\ Faithful(page', c.values)
  BY <1>1, <1>2, DisplayFaithful DEF IInv, TypeOK
<1> HIDE DEF c
<1> QED
  BY <1>1, <1>2, <1>3 DEF IInv, TypeOK, SavesOnlyWhatWasTyped

\* The form of the section that a request came from is no longer busy.
LEMMA NotBusy ==
  ASSUME IInv, NEW c \in calls,
         NEW p, p = IF c.live THEN [page EXCEPT !.form[c.section].busy = FALSE] ELSE page
  PROVE  /\ p \in [open : BOOLEAN, form : [Section -> Form]]
         /\ Faithful(p, cache.values)
<1>1. c.section \in Section /\ page.form[c.section] \in Form
  BY DEF IInv, TypeOK, Save
<1>2. p.open = page.open
  BY DEF IInv, TypeOK
<1>3. p.form \in [Section -> Form]
  BY <1>1 DEF IInv, TypeOK, Form
<1>4. \A s \in Section : p.form[s].draft = page.form[s].draft /\ p.form[s].typed = page.form[s].typed
  BY <1>1 DEF IInv, TypeOK, Form
<1>5. p \in [open : BOOLEAN, form : [Section -> Form]]
  BY <1>3 DEF IInv, TypeOK
<1> QED
  BY <1>2, <1>4, <1>5 DEF IInv, Faithful

LEMMA SaveAnsweredInv == ASSUME IInv, NEW c \in calls, SaveAnswered(c) PROVE IInv'
<1> DEFINE new == [loaded |-> TRUE, values |-> c.answer]
           p == IF c.live THEN [page EXCEPT !.form[c.section].busy = FALSE] ELSE page
<1>1. new \in [loaded : BOOLEAN, values : Values]
  BY DEF IInv, TypeOK, Save
<1>2. p \in [open : BOOLEAN, form : [Section -> Form]] /\ Faithful(p, cache.values)
  BY NotBusy
<1>3. Display(new, p) /\ calls' = calls \ {c} /\ UNCHANGED store
  BY DEF SaveAnswered
<1> HIDE DEF new, p
<1>4. /\ page' \in [open : BOOLEAN, form : [Section -> Form]]
      /\ cache' = new /\ Faithful(page', new.values)
  BY <1>1, <1>2, <1>3, DisplayFaithful DEF IInv
<1> QED
  BY <1>1, <1>3, <1>4 DEF IInv, TypeOK, SavesOnlyWhatWasTyped

LEMMA FailedInv == ASSUME IInv, NEW c \in calls, Failed(c) PROVE IInv'
<1>1. page' \in [open : BOOLEAN, form : [Section -> Form]] /\ Faithful(page', cache.values)
  BY NotBusy DEF Failed
<1> QED
  BY <1>1 DEF IInv, TypeOK, SavesOnlyWhatWasTyped, Failed

\* The page is opened, with what is cached, or left.
LEMMA MountInv == ASSUME IInv, Mount PROVE IInv'
<1>1. \A s \in Section : Clean(cache.values) \in Form
  BY CleanForm DEF IInv, TypeOK
<1>2. TypeOK'
  BY <1>1 DEF IInv, TypeOK, Mount
<1>3. Faithful(page, cache.values)' /\ SavesOnlyWhatWasTyped'
  BY DEF IInv, Faithful, SavesOnlyWhatWasTyped, Mount, Clean
<1> QED
  BY <1>2, <1>3 DEF IInv

LEMMA UnmountInv == ASSUME IInv, Unmount PROVE IInv'
<1>1. \A c \in calls : /\ [c EXCEPT !.live = FALSE] \in Save
                       /\ [c EXCEPT !.live = FALSE].value = c.value
                       /\ [c EXCEPT !.live = FALSE].typed = c.typed
                       /\ [c EXCEPT !.live = FALSE].seen = c.seen
  BY DEF IInv, TypeOK, Save
<1>2. page' \in [open : BOOLEAN, form : [Section -> Form]] /\ ~page'.open
  BY CleanForm, DefaultValues DEF Unmount, Closed
<1>3. TypeOK'
  BY <1>1, <1>2 DEF IInv, TypeOK, Unmount
<1>4. Faithful(page, cache.values)'
  BY <1>2 DEF Faithful
<1>5. ASSUME NEW d \in calls', NEW f \in Field \ d.typed PROVE d.value[f] = d.seen[f]
  <2>1. PICK c \in calls : d = [c EXCEPT !.live = FALSE]
    BY <1>5 DEF Unmount
  <2>2. d.value = c.value /\ d.typed = c.typed /\ d.seen = c.seen
    BY <1>1, <2>1
  <2> QED
    BY <1>5, <2>2 DEF IInv, SavesOnlyWhatWasTyped
<1>6. SavesOnlyWhatWasTyped'
  BY <1>5 DEF SavesOnlyWhatWasTyped
<1> QED
  BY <1>3, <1>4, <1>6 DEF IInv

-----------------------------------------------------------------------------
LEMMA NextInv == IInv /\ [Mount \/ Unmount \/ Next]_vars => IInv'
<1> SUFFICES ASSUME IInv, [Mount \/ Unmount \/ Next]_vars PROVE IInv'
  OBVIOUS
<1>1. CASE Mount
  BY <1>1, MountInv
<1>2. CASE Unmount
  BY <1>2, UnmountInv
<1>3. CASE Load
  BY <1>3, LoadInv
<1>4. ASSUME NEW s \in Section, Revert(s) \/ onSave(s) PROVE IInv'
  BY <1>4, RevertInv, OnSaveInv
<1>5. ASSUME NEW s \in Section, NEW f \in Field, NEW v \in 0..MaxValue,
             SetDraft(s, f, v) \/ SaveElsewhere(s, f, v)
      PROVE  IInv'
  BY <1>5, SetDraftInv, SaveElsewhereInv
<1>6. ASSUME NEW c \in calls, ServeSave(c) \/ SaveAnswered(c) \/ Failed(c) PROVE IInv'
  BY <1>6, ServeSaveInv, SaveAnsweredInv, FailedInv
<1>7. CASE UNCHANGED vars
  BY <1>7 DEF vars, IInv, TypeOK, Faithful, SavesOnlyWhatWasTyped
<1> QED
  BY <1>1, <1>2, <1>3, <1>4, <1>5, <1>6, <1>7 DEF Next

\* The inductive invariant holds in every state of the form.
THEOREM Invariant == Spec => []IInv
BY InitInv, NextInv, PTL DEF Spec

\* However typing, reloads, saves of two administrators and late answers
\* interleave, a save carries over unchanged what its administrator did not
\* type (SavesOnlyWhatWasTyped).
THEOREM OnlyWhatWasTyped == Spec => []SavesOnlyWhatWasTyped
<1>1. IInv => SavesOnlyWhatWasTyped
  BY DEF IInv
<1> QED
  BY Invariant, <1>1, PTL
=============================================================================
