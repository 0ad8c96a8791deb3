------------------------------ MODULE Accounts ------------------------------
(***************************************************************************)
(* User accounts and login sessions in server mode (internal/server's      *)
(* auth_handlers.go and admin_handlers.go over the Postgres store).        *)
(*                                                                         *)
(* Every handler is a request that runs on a goroutine of its own, one     *)
(* store call at a time.  A store call is atomic; between two calls of one *)
(* request any other request may run.  An update reads the whole user row, *)
(* edits its copy and writes the whole row back.                           *)
(*                                                                         *)
(* A password, a scope with its expiry (a "grant") and a token are opaque  *)
(* values.  Clock time is abstracted to the set of grants and tokens whose *)
(* expiry has passed.                                                      *)
(***************************************************************************)
EXTENDS Naturals, FiniteSets

CONSTANTS
  Ids,              \* user ids (uuids), never reused
  Names,            \* usernames
  Passwords,        \* password hashes
  Grants,           \* scope together with expires_at
  Tokens,           \* JWT ids (jti), never reused
  Requests,         \* requests the server handles at the same time
  NoRow,            \* what a lookup of an unknown user yields
  Nobody,           \* the owner of a token not yet issued
  Root,             \* the administrator that "avalok server init" creates
  RootRow,          \* its row
  NoGrant,          \* of a registered account: an empty scope, and no expiry
  Lapsing,          \* grants and tokens short-lived enough to expire
  MaxRequests,      \* bound on the requests that administrators start
  SelfRegistration  \* the stored value of the self_registration setting

(* A row of the users table. *)
Row == [name: Names, role: {"admin", "reader"},
        status: {"active", "pending", "disabled"},
        pw: Passwords, grant: Grants]

ASSUME ConstAssumption ==
  /\ NoRow \notin Row
  /\ Nobody \notin Ids
  /\ Root \in Ids
  /\ RootRow \in Row /\ RootRow.role = "admin" /\ RootRow.status = "active"
  /\ Lapsing \subseteq Tokens \cup Grants
  /\ NoGrant \in Grants \ Lapsing
  /\ MaxRequests \in Nat
  /\ SelfRegistration \in BOOLEAN

VARIABLES
  row,        \* users table: id -> row or NoRow
  owner,      \* token -> the user id signed into its claims, or Nobody
  live,       \* sessions table: the tokens it holds
  lapsed,     \* grants and tokens whose expiry has passed
  born,       \* ids already given out
  pc,         \* request -> the store call it makes next
  job,        \* request -> what it was asked to do, and its copy of the row
  started,    \* administrator requests begun so far (bounded by MaxRequests)
  \* history, read by the properties only:
  approved,   \* ids that an administrator asked to activate
  overtaken,  \* requests whose copy was read before another write of the row
  doomed,     \* request -> tokens live when it changed the row
  revoked,    \* tokens whose revocation has completed
  unguarded   \* the guards against locking every administrator out were bypassed

table   == <<row, owner, live, born>>
history == <<approved, overtaken, doomed, revoked, unguarded>>
vars    == <<table, lapsed, pc, job, started, history>>

Removals == {"disable", "delete"}
AdminOps == {"create", "update", "approve", "reset"} \cup Removals
Ops      == AdminOps \cup {"login", "register", "none"}
Job      == [op: Ops, actor: Ids \cup {Nobody}, target: Ids \cup {Nobody},
             draft: Row \cup {NoRow}, asked: SUBSET {"role", "status", "grant", "pw"}]
NoJob    == [op |-> "none", actor |-> Nobody, target |-> Nobody,
             draft |-> NoRow, asked |-> {}]
Edits    == [role: {"admin", "reader"}, status: {"active", "pending", "disabled"},
             pw: Passwords, grant: Grants]
Points   == {"idle", "read", "write", "purge", "remove", "insert", "mint"}

TokensOf(u)  == {t \in Tokens : owner[t] = u}
Taken(n)     == \E u \in Ids : row[u] # NoRow /\ row[u].name = n
ActiveAdmin(r) == r # NoRow /\ r.role = "admin" /\ r.status = "active"

(* A request in flight that will disable or delete its target. *)
Removing(h) == pc[h] # "idle" /\ job[h].op \in Removals

Init ==
  /\ row = [u \in Ids |-> IF u = Root THEN RootRow ELSE NoRow]
  /\ owner = [t \in Tokens |-> Nobody]
  /\ live = {}
  /\ lapsed = {}
  /\ born = {Root}
  /\ pc = [h \in Requests |-> "idle"]
  /\ job = [h \in Requests |-> NoJob]
  /\ started = 0
  /\ approved = {Root}
  /\ overtaken = {}
  /\ doomed = [h \in Requests |-> {}]
  /\ revoked = {}
  /\ unguarded = FALSE

-----------------------------------------------------------------------------
(* What the JWT strategy accepts. *)
Authenticate(t) ==
  /\ t \in live \ lapsed
  /\ row[owner[t]] # NoRow
  /\ row[owner[t]].status = "active"
  /\ row[owner[t]].grant \notin lapsed

(* A request ends: its goroutine returns. *)
Finish(h) ==
  /\ pc' = [pc EXCEPT ![h] = "idle"]
  /\ job' = [job EXCEPT ![h] = NoJob]
  /\ overtaken' = overtaken \ {h}
  /\ doomed' = [doomed EXCEPT ![h] = {}]

Continue(h, point) == pc' = [pc EXCEPT ![h] = point]

(* A store call fails, the client goes away, or a check refuses the request.
   What was written so far stays written. *)
Abandon(h) ==
  /\ pc[h] # "idle"
  /\ Finish(h)
  /\ UNCHANGED <<table, lapsed, started, approved, revoked, unguarded>>

(* The expiry of a session or of an account passes. *)
Lapse(x) ==
  /\ x \notin lapsed
  /\ x \in Tokens => owner[x] # Nobody
  /\ lapsed' = lapsed \cup {x}
  /\ UNCHANGED <<table, pc, job, started, history>>

-----------------------------------------------------------------------------
(* handleLogin: look the user up and check password, status and expiry... *)
LoginRead(h, u) ==
  /\ pc[h] = "idle"
  /\ row[u] # NoRow
  /\ row[u].status \notin {"pending", "disabled"}
  /\ row[u].grant \notin lapsed
  /\ job' = [job EXCEPT ![h] = [NoJob EXCEPT !.op = "login", !.target = u]]
  /\ Continue(h, "mint")
  /\ UNCHANGED <<table, lapsed, started, history>>

(* ...then issue a token and store its session.  sessions.user_id references
   users, so the insert fails when the user has been deleted meanwhile. *)
LoginMint(h, t) ==
  /\ pc[h] = "mint"
  /\ owner[t] = Nobody
  /\ row[job[h].target] # NoRow
  /\ owner' = [owner EXCEPT ![t] = job[h].target]
  /\ live' = live \cup {t}
  /\ Finish(h)
  /\ UNCHANGED <<row, lapsed, born, started, approved, revoked, unguarded>>

(* handleLogout: the token need only be genuine, not live. *)
Logout(t) ==
  /\ owner[t] # Nobody
  /\ t \notin lapsed
  /\ live' = live \ {t}
  /\ revoked' = revoked \cup {t}
  /\ UNCHANGED <<row, owner, lapsed, born, pc, job, started,
                 approved, overtaken, doomed, unguarded>>

(* handleRegister: refuse a taken name (it answers as if it had succeeded)... *)
RegisteredActive(n, p) ==      \* fault: registered accounts start active
  [name |-> n, role |-> "reader", status |-> "active", pw |-> p, grant |-> NoGrant]

RegisteredRoleless(n, p) ==    \* fault: the role is left empty
  [name |-> n, role |-> "", status |-> "pending", pw |-> p, grant |-> NoGrant]

RegisteredRow(n, p) ==
  [name |-> n, role |-> "reader", status |-> "pending", pw |-> p, grant |-> NoGrant]

Register(h, n, p) ==
  /\ pc[h] = "idle"
  /\ ~Taken(n)
  /\ job' = [job EXCEPT ![h] =
               [NoJob EXCEPT !.op = "register", !.draft = RegisteredRow(n, p)]]
  /\ Continue(h, "insert")
  /\ UNCHANGED <<table, lapsed, started, history>>

(* ...then insert the row under a fresh id.  The username column is UNIQUE. *)
InsertUnchecked(r) == TRUE        \* fault: username without UNIQUE

CanInsert(r) == ~Taken(r.name)

Insert(h, u) ==
  /\ pc[h] = "insert"
  /\ u \notin born
  /\ CanInsert(job[h].draft)
  /\ row' = [row EXCEPT ![u] = job[h].draft]
  /\ born' = born \cup {u}
  /\ approved' = IF job[h].op = "create" THEN approved \cup {u} ELSE approved
  /\ Finish(h)
  /\ UNCHANGED <<owner, live, lapsed, started, revoked, unguarded>>

-----------------------------------------------------------------------------
(* authMiddleware and requireAdmin, then the handler's guard on itself. *)
RemoveAnyone(actor, target) == TRUE     \* fault: no guard against oneself

MayRemove(actor, target) == actor # target

Begin(h, t, op, u) ==
  /\ pc[h] = "idle"
  /\ started < MaxRequests
  /\ Authenticate(t)
  /\ row[owner[t]].role = "admin"
  /\ op \in Removals => MayRemove(owner[t], u)
  /\ job' = [job EXCEPT ![h] =
               [NoJob EXCEPT !.op = op, !.actor = owner[t], !.target = u]]
  /\ Continue(h, "read")
  /\ started' = started + 1
  /\ unguarded' = (unguarded \/ (op \in Removals /\ \E g \in Requests : Removing(g)))
  /\ UNCHANGED <<table, lapsed, approved, overtaken, doomed, revoked>>

(* handleCreateUser: refuse a taken name, then insert. *)
CreateRead(h, n, role, p, g) ==
  /\ pc[h] = "read" /\ job[h].op = "create"
  /\ ~Taken(n)
  /\ job' = [job EXCEPT ![h] =
               [@ EXCEPT !.draft = [name |-> n, role |-> role, status |-> "active",
                                    pw |-> p, grant |-> g]]]
  /\ Continue(h, "insert")
  /\ UNCHANGED <<table, lapsed, started, history>>

(* GetUser and the edit of the copy.  Only the fields in `asked` are edited. *)
Edit(r, asked, new) ==
  [r EXCEPT !.role   = IF "role"   \in asked THEN new.role   ELSE @,
            !.status = IF "status" \in asked THEN new.status ELSE @,
            !.pw     = IF "pw"     \in asked THEN new.pw     ELSE @,
            !.grant  = IF "grant"  \in asked THEN new.grant  ELSE @]

DraftClears(r, asked, new) ==     \* fault: a scope left out clears the grant
  Edit(r, asked \cup {"grant"}, new)

Draft(r, asked, new) == Edit(r, asked, new)

ReadRow(h, asked, new) ==
  LET u == job[h].target IN
  /\ pc[h] = "read"
  /\ row[u] # NoRow
  /\ job' = [job EXCEPT ![h] =
               [@ EXCEPT !.draft = Draft(row[u], asked, new), !.asked = asked]]
  /\ approved' = IF "status" \in asked /\ new.status = "active"
                 THEN approved \cup {u} ELSE approved
  /\ UNCHANGED <<table, lapsed, started, overtaken, doomed, revoked, unguarded>>

UpdateRead(h, asked, new) ==
  /\ job[h].op = "update"
  /\ asked \subseteq {"role", "status", "grant"}
  /\ ReadRow(h, asked, new)
  /\ Continue(h, "write")

ApproveRead(h, asked, new) ==
  /\ job[h].op = "approve"
  /\ row[job[h].target] # NoRow => row[job[h].target].status = "pending"
  /\ "status" \in asked /\ asked \subseteq {"status", "grant"}
  /\ new.status = "active"
  /\ ReadRow(h, asked, new)
  /\ Continue(h, "write")

DisableRead(h, new) ==
  /\ job[h].op = "disable"
  /\ new.status = "disabled"
  /\ ReadRow(h, {"status"}, new)
  /\ Continue(h, "write")

ResetRead(h, new) ==
  /\ job[h].op = "reset"
  /\ ReadRow(h, {"pw"}, new)
  /\ Continue(h, "write")

DeleteRead(h, new) ==
  /\ job[h].op = "delete"
  /\ ReadRow(h, {}, new)
  /\ Continue(h, "purge")

-----------------------------------------------------------------------------
(* UpdateUser: the whole row is written back.  Updating a deleted user changes
   nothing and is no error. *)
Overtaken(h, u) ==
  overtaken \cup {g \in Requests \ {h} : pc[g] = "write" /\ job[g].target = u}

(* handleDisableUser and handleResetPassword go on to end the user's sessions. *)
AfterWrite(op) == IF op \in {"disable", "reset"} THEN "purge" ELSE "idle"

Write(h) ==
  LET u == job[h].target
      op == job[h].op
      written == IF row[u] = NoRow THEN NoRow ELSE job[h].draft
  IN
  /\ pc[h] = "write"
  /\ row' = [row EXCEPT ![u] = written]
  /\ unguarded' = (unguarded \/ (op # "disable" /\ ActiveAdmin(row[u])
                                 /\ ~ActiveAdmin(written)))
  /\ IF AfterWrite(op) = "idle"
     THEN /\ pc' = [pc EXCEPT ![h] = "idle"]
          /\ job' = [job EXCEPT ![h] = NoJob]
          /\ overtaken' = Overtaken(h, u) \ {h}
          /\ UNCHANGED doomed
     ELSE /\ Continue(h, AfterWrite(op))
          /\ overtaken' = Overtaken(h, u)
          /\ doomed' = [doomed EXCEPT ![h] = live \cap TokensOf(u)]
          /\ UNCHANGED job
  /\ UNCHANGED <<owner, live, born, lapsed, started, approved, revoked>>

(* DeleteUserSessions. *)
SessionsOfActor(h) == TokensOf(job[h].actor)   \* fault: the wrong user's

SessionsToEnd(h) == TokensOf(job[h].target)

Purge(h) ==
  /\ pc[h] = "purge"
  /\ live' = live \ SessionsToEnd(h)
  /\ IF job[h].op = "delete"
     THEN /\ Continue(h, "remove")
          /\ UNCHANGED <<job, overtaken, doomed, revoked>>
     ELSE /\ Finish(h)
          /\ revoked' = revoked \cup doomed[h]
  /\ UNCHANGED <<row, owner, born, lapsed, started, approved, unguarded>>

(* DeleteUserSessions fails: the handlers ignore its error and carry on. *)
PurgeFails(h) ==
  /\ pc[h] = "purge"
  /\ IF job[h].op = "delete"
     THEN Continue(h, "remove") /\ UNCHANGED <<job, overtaken, doomed>>
     ELSE Finish(h)
  /\ UNCHANGED <<table, lapsed, started, approved, revoked, unguarded>>

(* DeleteUser: ON DELETE CASCADE removes the sessions with the row. *)
NoCascade(u) == live              \* fault: sessions without ON DELETE CASCADE

Cascade(u) == live \ TokensOf(u)

Remove(h) ==
  LET u == job[h].target IN
  /\ pc[h] = "remove"
  /\ row' = [row EXCEPT ![u] = NoRow]
  /\ live' = Cascade(u)
  /\ revoked' = revoked \cup TokensOf(u)
  /\ Finish(h)
  /\ UNCHANGED <<owner, born, lapsed, started, approved, unguarded>>

-----------------------------------------------------------------------------
AdminRead(h) ==
  \/ \E n \in Names, role \in {"admin", "reader"}, p \in Passwords, g \in Grants :
        CreateRead(h, n, role, p, g)
  \/ \E new \in Edits, asked \in SUBSET {"role", "status", "grant"} :
        UpdateRead(h, asked, new) \/ ApproveRead(h, asked, new)
  \/ \E new \in Edits : DisableRead(h, new) \/ ResetRead(h, new) \/ DeleteRead(h, new)

Step(h) ==
  \/ Abandon(h)
  \/ \E u \in Ids : LoginRead(h, u) \/ Insert(h, u)
  \/ \E t \in Tokens : LoginMint(h, t)
  \/ \E n \in Names, p \in Passwords : Register(h, n, p)
  \/ \E t \in Tokens, op \in AdminOps, u \in Ids : Begin(h, t, op, u)
  \/ AdminRead(h)
  \/ Write(h)
  \/ Purge(h) \/ PurgeFails(h)
  \/ Remove(h)

Next ==
  \/ \E h \in Requests : Step(h)
  \/ \E t \in Tokens : Logout(t)
  \/ \E x \in Lapsing : Lapse(x)

Spec == Init /\ [][Next]_vars
-----------------------------------------------------------------------------
TypeOK ==
  /\ row \in [Ids -> Row \cup {NoRow}]
  /\ owner \in [Tokens -> Ids \cup {Nobody}]
  /\ live \subseteq Tokens
  /\ lapsed \subseteq Tokens \cup Grants
  /\ born \subseteq Ids
  /\ pc \in [Requests -> Points]
  /\ job \in [Requests -> Job]
  /\ started \in 0..MaxRequests
  /\ approved \subseteq Ids
  /\ overtaken \subseteq Requests
  /\ doomed \in [Requests -> SUBSET Tokens]
  /\ revoked \subseteq Tokens
  /\ unguarded \in BOOLEAN

(* Deleting a user while that user logs in leaves no session behind: every
   session in the table belongs to an account that exists (the login inserts
   its session after reading the row that a delete removes meanwhile). *)
SessionsOwned == \A t \in live : owner[t] \in Ids /\ row[owner[t]] # NoRow

(* Two registrations, or a registration and an administrator's create, may both
   find a name free; still no two accounts ever share it. *)
UniqueNames ==
  \A u, v \in Ids :
    (row[u] # NoRow /\ row[v] # NoRow /\ row[u].name = row[v].name) => u = v

(* A self-registered account opens nothing until an administrator has asked to
   activate it, whatever copies of its row are in flight. *)
NoAccessBeforeApproval ==
  \A t \in Tokens : Authenticate(t) => owner[t] \in approved

(* Once a logout, a deletion, or a disable or password reset that got through
   has completed, no token that was live when it took effect is ever in the
   session table again. *)
RevocationIsFinal == revoked \cap live = {}

(* "cannot disable yourself" and "cannot delete yourself" keep the server
   administrable: an active administrator remains unless two removals ran at
   the same time or an update took an administrator's role or status away. *)
AdminRemains == ~unguarded => \E u \in Ids : ActiveAdmin(row[u])

(* A request that no other write of the row overtook changes only the fields it
   was asked to change: the whole-row write-back loses an update of another
   request only when that update fell between its read and its write. *)
OwnFieldsOnly ==
  [][\A h \in Requests :
       (pc[h] = "write" /\ pc'[h] # "write" /\ h \notin overtaken) =>
         LET u == job[h].target IN
         row'[u] # row[u] => row'[u] = Edit(row[u], job[h].asked, row'[u])]_vars

(* authentication.md: users can register themselves only while the setting
   self_registration is on. *)
RegistrationNeedsSetting == ~SelfRegistration => born \subseteq approved
=============================================================================
