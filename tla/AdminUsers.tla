----------------------------- MODULE AdminUsers -----------------------------
(***************************************************************************)
(* The page on which an administrator creates, edits, deactivates and      *)
(* reactivates accounts and resets passwords, and what the server does     *)
(* while another administrator works on the same accounts.                 *)
(*                                                                         *)
(* Code: features/admin/AdminUsers.tsx, components/Modal.tsx, the user     *)
(* part of api/admin.ts, app/api/v1/users.py.                              *)
(*                                                                         *)
(* Passwords are numbers in the order in which they were made.  Names,     *)
(* roles and languages are left out, and so are the filters and pages of   *)
(* the list; the list may be out of date, so that a row may offer to       *)
(* deactivate an account or to reactivate it whichever it is.  The overlay *)
(* of a dialog covers the page behind it.                                  *)
(***************************************************************************)
EXTENDS Naturals, FiniteSets

CONSTANTS
  Me,            \* the administrator whose page this is
  Known, NewId,  \* accounts that exist at first, and the one that may be created
  MaxPasswords,  \* bound: temporary passwords made
  MaxCalls,      \* bound: requests under way at once
  MaxOthers      \* bound: steps of other administrators

VARIABLES
  page,      \* the state of AdminUsers and of its form
  calls,     \* requests under way
  accounts,  \* users
  made,      \* temporary passwords made so far, and steps of others
  told       \* those that this page was answered since it was opened

vars == <<page, calls, accounts, made, told>>

User == Known \cup {NewId}
None == "none"
New  == "new"

(* useState and the isPending of the mutations. *)
Closed ==
  [open |-> FALSE, editing |-> None, pending |-> <<None, None>>,
   secret |-> <<None, 0>>, busy |-> {}]

Init ==
  /\ page = Closed
  /\ accounts = [u \in Known |-> [active |-> TRUE, password |-> 0]]
  /\ calls = {} /\ made = [passwords |-> 0, others |-> 0] /\ told = {}

(***************************************************************************)
(* The page                                                                *)
(***************************************************************************)
(* A mutation keeps the callbacks of its latest call only. *)
Mutate(op, u) ==
  /\ Cardinality(calls) < MaxCalls
  /\ calls' = {IF c.op = op THEN [c EXCEPT !.live = FALSE] ELSE c : c \in calls} \cup
              {[op |-> op, user |-> u, stage |-> "sent", password |-> 0,
                live |-> TRUE, mine |-> TRUE]}
  /\ UNCHANGED <<accounts, made, told>>

Press(p) == page.open /\ page' = p /\ UNCHANGED <<calls, accounts, made, told>>

(* Modal: the overlay of a dialog covers the page behind it. *)
Covered(p) == p.editing # None \/ p.pending[1] # None \/ p.secret[1] # None

NewUser == ~Covered(page) /\ Press([page EXCEPT !.editing = New])

(* A row's buttons. *)
Edit(u) == u \in DOMAIN accounts /\ ~Covered(page) /\ Press([page EXCEPT !.editing = u])

AskReset(u) == u \in DOMAIN accounts /\ ~Covered(page) /\ Press([page EXCEPT !.pending = <<"reset", u>>])

AskDeactivate(u) ==
  /\ u \in DOMAIN accounts \ {Me} /\ ~Covered(page)
  /\ Press([page EXCEPT !.pending = <<"deactivate", u>>])

Reactivate(u) ==
  /\ page.open /\ u \in DOMAIN accounts \ {Me} /\ ~Covered(page)
  /\ Mutate("reactivate", u) /\ UNCHANGED page

(* The form's "save". *)
SubmitForm ==
  LET op == IF page.editing = New THEN "create" ELSE "edit"
  IN  /\ page.open /\ page.editing # None /\ page.busy \cap {"create", "edit"} = {}
      /\ Mutate(op, IF page.editing = New THEN NewId ELSE page.editing)
      /\ page' = [page EXCEPT !.busy = @ \cup {op}]

(* Mutant: the dialog's button works while its request is under way. *)
Mutant_Confirmable(p) == p.pending[1] # None

(* ConfirmDialog: disabled while busy. *)
Confirmable(p) == p.pending[1] # None /\ p.pending[1] \notin p.busy

Confirm ==
  /\ page.open /\ Confirmable(page)
  /\ Mutate(page.pending[1], page.pending[2])
  /\ page' = [page EXCEPT !.busy = @ \cup {page.pending[1]}]

(* A form that is closed is unmounted: its mutation's callbacks are gone,  *)
(* and with them the temporary password of an account it creates.          *)
WithoutForm(p) == [p EXCEPT !.editing = None, !.busy = @ \ {"create", "edit"}]
Abandon(ops)   == {IF c.op \in ops THEN [c EXCEPT !.live = FALSE] ELSE c : c \in calls}

CloseForm ==
  /\ page.editing # None /\ page' = WithoutForm(page) /\ calls' = Abandon({"create", "edit"})
  /\ UNCHANGED <<accounts, made, told>>

Cancel      == page.pending[1] # None /\ Press([page EXCEPT !.pending = <<None, None>>])
CloseSecret == page.secret[1] # None /\ Press([page EXCEPT !.secret = <<None, 0>>])

(* Every open dialog listens to the key: Escape closes them all. *)
Escape ==
  /\ Covered(page)
  /\ page' = [WithoutForm(page) EXCEPT !.pending = <<None, None>>, !.secret = <<None, 0>>]
  /\ calls' = Abandon({"create", "edit"})
  /\ UNCHANGED <<accounts, made, told>>

Mount   == ~page.open /\ page' = [Closed EXCEPT !.open = TRUE]
           /\ UNCHANGED <<calls, accounts, made, told>>
Unmount == /\ page.open /\ page' = Closed /\ told' = {}
           /\ calls' = {[c EXCEPT !.live = FALSE, !.mine = FALSE] : c \in calls}
           /\ UNCHANGED <<accounts, made>>

(***************************************************************************)
(* The server                                                              *)
(***************************************************************************)
Made(n) == made' = [made EXCEPT !.passwords = n]
Number  == made.passwords + 1

Serve(c, after) ==
  /\ c \in calls /\ c.stage = "sent"
  /\ calls' = (calls \ {c}) \cup {[c EXCEPT !.stage = "done", !.password = made'.passwords]}
  /\ accounts' = after
  /\ UNCHANGED <<page, told>>

(* 409 username_taken otherwise, which is a Failed. *)
ServeCreate(c) ==
  /\ c.op = "create" /\ c.user \notin DOMAIN accounts /\ Number <= MaxPasswords /\ Made(Number)
  /\ Serve(c, [u \in DOMAIN accounts \cup {c.user} |->
                IF u = c.user THEN [active |-> TRUE, password |-> Number] ELSE accounts[u]])

ServeReset(c) ==
  /\ c.op = "reset" /\ Number <= MaxPasswords /\ Made(Number)
  /\ Serve(c, [accounts EXCEPT ![c.user].password = Number])

(* PATCH with a form's fields, or with is_active. *)
ServeUpdate(c) ==
  /\ UNCHANGED made
  /\ \/ c.op = "edit" /\ Serve(c, accounts)
     \/ c.op = "reactivate" /\ Serve(c, [accounts EXCEPT ![c.user].active = TRUE])

ServeDeactivate(c) ==
  /\ c.op = "deactivate" /\ UNCHANGED made
  /\ Serve(c, [accounts EXCEPT ![c.user].active = FALSE])

(* Another administrator resets a password, or the person chooses one. *)
Elsewhere(u) ==
  /\ u \in DOMAIN accounts /\ made.others < MaxOthers /\ Number <= MaxPasswords
  /\ made' = [passwords |-> Number, others |-> made.others + 1]
  /\ accounts' = [accounts EXCEPT ![u].password = Number]
  /\ UNCHANGED <<page, calls, told>>

(***************************************************************************)
(* Answers                                                                 *)
(***************************************************************************)
(* onSuccess: a password is shown in the one slot there is, whatever the   *)
(* slot showed before; the dialog on screen is closed, also if it was      *)
(* opened since for something else.                                        *)
Shown(c) ==
  LET p == [page EXCEPT !.busy = @ \ {c.op}]
  IN  CASE c.op = "create"     -> [WithoutForm(p) EXCEPT !.secret = <<c.user, c.password>>]
        [] c.op = "edit"       -> WithoutForm(p)
        [] c.op = "reset"      -> [p EXCEPT !.pending = <<None, None>>, !.secret = <<c.user, c.password>>]
        [] c.op = "deactivate" -> [p EXCEPT !.pending = <<None, None>>]
        [] OTHER               -> p

Answered(c) ==
  /\ c \in calls /\ c.stage = "done" /\ calls' = calls \ {c}
  /\ page' = IF c.live THEN Shown(c) ELSE page
  /\ told' = IF c.mine /\ c.op \in {"create", "reset"} THEN told \cup {c.password} ELSE told
  /\ UNCHANGED <<accounts, made>>

(* onError: a form keeps what was typed, a dialog is closed.  An answer    *)
(* that was lost says nothing of what the server does with the request.    *)
Failed(c) ==
  /\ c \in calls
  /\ page' = IF ~c.live THEN page
             ELSE [page EXCEPT !.busy = @ \ {c.op},
                               !.pending = IF c.op \in {"reset", "deactivate"} THEN <<None, None>> ELSE @]
  /\ \/ calls' = calls \ {c}
     \/ calls' = (calls \ {c}) \cup {[c EXCEPT !.live = FALSE, !.mine = FALSE]}
  /\ UNCHANGED <<accounts, made, told>>

Next ==
  \/ NewUser \/ SubmitForm \/ Confirm \/ CloseForm \/ Cancel \/ CloseSecret \/ Escape
  \/ \E u \in User : Edit(u) \/ AskReset(u) \/ AskDeactivate(u) \/ Reactivate(u) \/ Elsewhere(u)
  \/ \E c \in calls : \/ ServeCreate(c) \/ ServeReset(c) \/ ServeUpdate(c) \/ ServeDeactivate(c)
                      \/ Answered(c) \/ Failed(c)

Spec == Init /\ [][Mount \/ Unmount \/ Next]_vars

(***************************************************************************)
(* Properties                                                              *)
(***************************************************************************)
(* A temporary password on screen opens the account: if it does not, the   *)
(* account's password was made by somebody else, or by a request whose     *)
(* answer this page has not got, or by one it sent on an earlier visit.    *)
(* An account that is being created is left out: its creation may be       *)
(* answered after a reset of it.                                           *)
ShownPasswordWorks ==
  page.secret[1] \in Known =>
    \/ accounts[page.secret[1]].password = page.secret[2]
    \/ accounts[page.secret[1]].password \notin told
=============================================================================
