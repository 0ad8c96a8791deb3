----------------------------- MODULE UsersPanel -----------------------------
(***************************************************************************)
(* The users tab of the administration page (web/src, AdminPage.tsx): the  *)
(* table of users, its four dialogs, and the requests behind them.         *)
(*                                                                         *)
(* Every request is sent, served and answered in three steps, so answers   *)
(* may come in any order, after the dialog that asked is gone, or not at   *)
(* all though the server did the work.  The role, the scope and the expiry *)
(* of an account, which a form writes together, are one value: its access. *)
(***************************************************************************)
EXTENDS Integers, FiniteSets

CONSTANTS
  Users,          \* accounts that may exist
  Accesses,       \* what an account may be given
  Everything,     \* the access a new account is offered
  Nothing,        \* the access offered for one that waits for approval
  Gone,           \* there is no such account
  NoDialog, NoQuestion, Pending,
  MaxRequests,    \* bound on the dialogs, lists and writes of other administrators
  MaxUnderWay     \* bound on the lists, and on the writes, under way at once

VARIABLES
  accounts,       \* the server's accounts: user -> [status, access] or Gone
  users,          \* the rows: user -> the account as it was read, or Gone
  failed,         \* the list could not be loaded
  loads,          \* requests of the list under way: [n, rows]
  dialog,         \* the open dialog and its form
  asked,          \* the question of the confirmation dialog: [op, user]
  calls,          \* requests that write, under way
  sent,           \* requests so far; numbers requests and dialogs
  latest, since   \* history: the list request that was answered last, and the first one
                  \* that must have been answered for the rows to be right

usersVars == <<accounts, users, failed, loads, dialog, asked, calls, sent, latest, since>>

-----------------------------------------------------------------------------
Form(kind, u, access) ==
  [id |-> sent, kind |-> kind, user |-> u, access |-> access, saving |-> FALSE]

CreateUserModal(u)    == Form("create", u, Everything)
EditUserModal(u)      == Form("edit", u, users[u].access)
ApproveUserModal(u)   == Form("approve", u, Nothing)
ResetPasswordModal(u) == Form("reset", u, Nothing)

NewLoad == loads \cup {[n |-> sent, rows |-> Pending]}

UsersInit ==
  /\ accounts \in [Users -> {Gone, [status |-> "pending", access |-> Nothing],
                             [status |-> "active", access |-> Everything]}]
  /\ users = [u \in Users |-> Gone] /\ failed = FALSE
  /\ loads = {[n |-> 0, rows |-> Pending]}        \* the effect that runs at mount
  /\ dialog = NoDialog /\ asked = NoQuestion /\ calls = {}
  /\ sent = 1 /\ latest = 0 /\ since = 0

(* What the table offers for a user.  It shows an alert instead when the   *)
(* list could not be loaded, and a dialog covers it.                       *)
MenuFor(u) ==
  {"edit", "reset", "delete"} \cup (IF users[u].status = "active" THEN {"disable"} ELSE {})
Offered(u) == MenuFor(u) \cup (IF users[u].status = "pending" THEN {"approve"} ELSE {})
Clickable  == dialog = NoDialog /\ asked = NoQuestion /\ sent < MaxRequests

OpenDialog(u) ==
  /\ Clickable
  /\ \/ users[u] = Gone /\ dialog' = CreateUserModal(u)
     \/ /\ users[u] # Gone /\ ~failed
        /\ \/ "edit" \in Offered(u) /\ dialog' = EditUserModal(u)
           \/ "approve" \in Offered(u) /\ dialog' = ApproveUserModal(u)
           \/ "reset" \in Offered(u) /\ dialog' = ResetPasswordModal(u)
  /\ sent' = sent + 1
  /\ UNCHANGED <<accounts, users, failed, loads, asked, calls, latest, since>>

Ask(u, op) ==
  /\ Clickable /\ ~failed /\ users[u] # Gone
  /\ op \in Offered(u) \cap {"disable", "delete"}
  /\ asked' = [op |-> op, user |-> u]
  /\ UNCHANGED <<accounts, users, failed, loads, dialog, calls, sent, latest, since>>

Fill(form) ==
  /\ dialog' = form
  /\ UNCHANGED <<accounts, users, failed, loads, asked, calls, sent, latest, since>>

(* The form's fields; AccessScope models the choice of what a user may see. *)
Choose(access) ==
  /\ dialog # NoDialog /\ dialog.kind # "reset" /\ ~dialog.saving
  /\ dialog.access # access
  /\ Fill([dialog EXCEPT !.access = access])

Send(op, u, access, id) ==
  /\ Cardinality(calls) < MaxUnderWay
  /\ calls' = calls \cup {[op |-> op, user |-> u, access |-> access,
                           from |-> id, state |-> "sent"]}

Submit ==
  /\ dialog # NoDialog /\ ~dialog.saving
  /\ Send(dialog.kind, dialog.user, dialog.access, dialog.id)
  /\ dialog' = [dialog EXCEPT !.saving = TRUE]
  /\ UNCHANGED <<accounts, users, failed, loads, asked, sent, latest, since>>

(* Cancel, the cross and Escape close a dialog whose answer is still out, too. *)
Cancel == dialog # NoDialog /\ Fill(NoDialog)

Settle(yes) ==
  /\ asked # NoQuestion
  /\ asked' = NoQuestion
  /\ IF yes THEN Send(asked.op, asked.user, Nothing, 0) ELSE UNCHANGED calls
  /\ UNCHANGED <<accounts, users, failed, loads, dialog, sent, latest, since>>

-----------------------------------------------------------------------------
(* The server, and other administrators. *)
Written(c) ==
  CASE c.op = "create"  -> [status |-> "active", access |-> c.access]
    [] c.op = "edit"    -> [accounts[c.user] EXCEPT !.access = c.access]
    [] c.op = "approve" -> [accounts[c.user] EXCEPT !.status = "active", !.access = c.access]
    [] c.op = "disable" -> [accounts[c.user] EXCEPT !.status = "disabled"]
    [] c.op = "delete"  -> Gone
    [] OTHER            -> accounts[c.user]
Accepted(c) == (accounts[c.user] = Gone) = (c.op = "create")

ServeWrite(c) ==
  /\ c.state = "sent"
  /\ \/ /\ Accepted(c)
        /\ accounts' = [accounts EXCEPT ![c.user] = Written(c)]
        /\ \E answer \in {"ok", "error"} :            \* "error": the answer was lost
             /\ calls' = (calls \ {c}) \cup {[c EXCEPT !.state = answer]}
             /\ since' = IF answer = "error" THEN sent ELSE since
     \/ /\ calls' = (calls \ {c}) \cup {[c EXCEPT !.state = "error"]}
        /\ UNCHANGED <<accounts, since>>
  /\ UNCHANGED <<users, failed, loads, dialog, asked, sent, latest>>

OtherAdministrator(u) ==
  /\ sent < MaxRequests /\ sent' = sent + 1
  /\ accounts[u] # Gone
  /\ accounts' = [accounts EXCEPT ![u].access = Nothing]
  /\ since' = sent + 1
  /\ UNCHANGED <<users, failed, loads, dialog, asked, calls, latest>>

ServeList(l) ==
  /\ l.rows = Pending
  /\ loads' = (loads \ {l}) \cup {[l EXCEPT !.rows = accounts]}
  /\ UNCHANGED <<accounts, users, failed, dialog, asked, calls, sent, latest, since>>

-----------------------------------------------------------------------------
(* Answers.  onCreated, onSaved, onApproved and onDone close whatever      *)
(* dialog of their kind is open by then and load the list again.           *)
Closed(c) == IF dialog # NoDialog /\ dialog.kind = c.op THEN NoDialog ELSE dialog
Reopened(c) ==
  IF dialog # NoDialog /\ dialog.id = c.from THEN [dialog EXCEPT !.saving = FALSE] ELSE dialog

ReloadNever(c) == loads                     \* mutant: the list is not loaded again
Reload(c)      == NewLoad

AnswerWrite(c) ==
  /\ c.state \in {"ok", "error"} /\ Cardinality(loads) < MaxUnderWay
  /\ calls' = calls \ {c}
  /\ IF c.state = "ok"
     THEN dialog' = Closed(c) /\ loads' = Reload(c) /\ sent' = sent + 1
     ELSE dialog' = Reopened(c) /\ UNCHANGED <<loads, sent>>
  /\ UNCHANGED <<accounts, users, failed, asked, latest, since>>

Answered(l) ==
  /\ loads' = loads \ {l}
  /\ latest' = l.n
  /\ since' = IF l.n < latest THEN sent ELSE since      \* a newer one was answered before
  /\ UNCHANGED <<accounts, dialog, asked, calls, sent>>

TakeList(l) ==
  /\ l.rows # Pending
  /\ users' = l.rows /\ failed' = FALSE
  /\ Answered(l)

FailList(l) == failed' = TRUE /\ UNCHANGED users /\ Answered(l)

Retry ==
  /\ failed /\ Clickable /\ Cardinality(loads) < MaxUnderWay
  /\ loads' = NewLoad /\ sent' = sent + 1
  /\ UNCHANGED <<accounts, users, failed, dialog, asked, calls, latest, since>>

UsersNext ==
  \/ \E u \in Users : OpenDialog(u) \/ OtherAdministrator(u)
  \/ \E u \in Users, op \in {"disable", "delete"} : Ask(u, op)
  \/ Submit \/ Cancel \/ Retry
  \/ \E access \in Accesses : Choose(access)
  \/ \E yes \in BOOLEAN : Settle(yes)
  \/ \E c \in calls : ServeWrite(c) \/ AnswerWrite(c)
  \/ \E l \in loads : ServeList(l) \/ TakeList(l) \/ FailList(l)

-----------------------------------------------------------------------------
(* UsersPanel: once every answer has come, the rows (what the next dialog  *)
(* starts from, and writes back in full) are the accounts of the server,   *)
(* unless an answer was lost, another administrator wrote since, or the    *)
(* answer to an older list request was taken after that to a newer one.    *)
SettledRowsAreCurrent ==
  calls = {} /\ loads = {} /\ ~failed /\ latest >= since => users = accounts
=============================================================================
