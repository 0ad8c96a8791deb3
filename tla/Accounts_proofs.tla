--------------------------- MODULE Accounts_proofs ---------------------------
(***************************************************************************)
(* Proofs about Accounts, for any number of users, tokens and concurrent   *)
(* requests.                                                               *)
(***************************************************************************)
EXTENDS Accounts, TLAPS

(* What a request's own record says while it is between two store calls. *)
JobInv ==
  \A h \in Requests :
    /\ pc[h] \in {"read", "write", "purge", "remove", "mint"} => job[h].target \in Ids
    /\ pc[h] = "insert" => job[h].draft \in Row
    /\ pc[h] \in {"write", "purge", "remove"} => job[h].draft \in Row
    /\ pc[h] = "purge" => job[h].op \in {"disable", "reset", "delete"}
    /\ pc[h] = "remove" => job[h].op = "delete"
    /\ pc[h] = "insert" => job[h].op \in {"create", "register"}

(* Ids are handed out once; tokens and row writes concern ids handed out. *)
BornInv ==
  /\ \A u \in Ids : row[u] # NoRow => u \in born
  /\ \A t \in Tokens : owner[t] # Nobody => owner[t] \in born
  /\ \A h \in Requests : pc[h] \in {"write", "purge", "remove"} => job[h].target \in born

(* A copy keeps the name of its row: names never change. *)
NameInv ==
  /\ UniqueNames
  /\ \A h \in Requests :
       (pc[h] = "write" /\ row[job[h].target] # NoRow) =>
          job[h].draft.name = row[job[h].target].name

(* Only approved accounts are active, in the table and in every copy. *)
ApprovalInv ==
  /\ \A u \in Ids : (row[u] # NoRow /\ row[u].status = "active") => u \in approved
  /\ \A h \in Requests :
       (pc[h] = "write" /\ job[h].draft.status = "active") => job[h].target \in approved
  /\ \A h \in Requests :
       (pc[h] = "insert" /\ job[h].draft.status = "active") => job[h].op = "create"

(* Tokens about to be revoked belong to the target; revoked ones were issued. *)
RevokeInv ==
  /\ RevocationIsFinal
  /\ \A t \in revoked : owner[t] # Nobody
  /\ \A h \in Requests : doomed[h] \subseteq TokensOf(job[h].target)
  /\ \A h \in Requests : doomed[h] # {} => pc[h] \in {"purge", "remove"} /\ job[h].target # Nobody

(* At most one removal runs, and the administrator behind it stays one. *)
AdminInv ==
  ~unguarded =>
    /\ \E u \in Ids : ActiveAdmin(row[u])
    /\ \A h \in Requests : Removing(h) =>
         /\ job[h].actor \in Ids
         /\ job[h].actor # job[h].target
         /\ ActiveAdmin(row[job[h].actor])
         /\ \A g \in Requests : Removing(g) => g = h

(* A copy nobody overtook differs from its row in the asked fields only. *)
CopyInv ==
  \A h \in Requests :
    (pc[h] = "write" /\ h \notin overtaken /\ row[job[h].target] # NoRow) =>
       job[h].draft = Edit(row[job[h].target], job[h].asked, job[h].draft)

-----------------------------------------------------------------------------
(* Editing a row yields a row. *)
LEMMA EditRow ==
  ASSUME NEW r \in Row, NEW asked, NEW new \in Edits
  PROVE  /\ Edit(r, asked, new) \in Row
         /\ Edit(r, asked, new).name = r.name
BY DEF Edit, Row, Edits

(* Starting a request keeps the records of all requests well formed. *)
LEMMA JobType ==
  /\ NoJob \in Job
  /\ \A j \in Job, d \in Row : [j EXCEPT !.draft = d] \in Job
  /\ \A j \in Job, d \in Row, a \in SUBSET {"role", "status", "grant", "pw"} :
       [j EXCEPT !.draft = d, !.asked = a] \in Job
BY DEF NoJob, Job, Ops

(* Reading a row fills in the copy and leaves the rest of the job alone. *)
LEMMA JobKept ==
  ASSUME TypeOK, NEW h \in Requests, AdminRead(h)
  PROVE  /\ job'[h].op = job[h].op
         /\ job'[h].actor = job[h].actor /\ job'[h].target = job[h].target
<1>1. \A j \in Job : \A d, a :
        /\ [j EXCEPT !.draft = d].op = j.op
        /\ [j EXCEPT !.draft = d].actor = j.actor
        /\ [j EXCEPT !.draft = d].target = j.target
        /\ [j EXCEPT !.draft = d, !.asked = a].op = j.op
        /\ [j EXCEPT !.draft = d, !.asked = a].actor = j.actor
        /\ [j EXCEPT !.draft = d, !.asked = a].target = j.target
  BY DEF Job
<1>2. ASSUME NEW d, job' = [job EXCEPT ![h] = [@ EXCEPT !.draft = d]]
      PROVE  /\ job'[h].op = job[h].op
             /\ job'[h].actor = job[h].actor /\ job'[h].target = job[h].target
  BY <1>1, <1>2 DEF TypeOK
<1>3. ASSUME NEW d, NEW a, job' = [job EXCEPT ![h] = [@ EXCEPT !.draft = d, !.asked = a]]
      PROVE  /\ job'[h].op = job[h].op
             /\ job'[h].actor = job[h].actor /\ job'[h].target = job[h].target
  BY <1>1, <1>3 DEF TypeOK
<1>4. ASSUME NEW n, NEW role, NEW p, NEW g, CreateRead(h, n, role, p, g)
      PROVE  /\ job'[h].op = job[h].op
             /\ job'[h].actor = job[h].actor /\ job'[h].target = job[h].target
  BY <1>2, <1>4, Zenon DEF CreateRead
<1>5. ASSUME NEW new, NEW asked, ReadRow(h, asked, new)
      PROVE  /\ job'[h].op = job[h].op
             /\ job'[h].actor = job[h].actor /\ job'[h].target = job[h].target
  BY <1>3, <1>5, Zenon DEF ReadRow
<1>6. QED
  BY <1>4, <1>5
  DEF AdminRead, UpdateRead, ApproveRead, DisableRead, ResetRead, DeleteRead

(* A request that ends leaves well-formed records behind. *)
LEMMA FinishType ==
  ASSUME TypeOK, NEW h \in Requests, Finish(h)
  PROVE  /\ pc' \in [Requests -> Points]
         /\ job' \in [Requests -> Job]
         /\ overtaken' \subseteq Requests
         /\ doomed' \in [Requests -> SUBSET Tokens]
BY DEF TypeOK, Finish, NoJob, Job, Ops, Points

(* Every store call of every handler keeps the types of all variables. *)
LEMMA TypeStep == TypeOK /\ JobInv /\ [Next]_vars => TypeOK'
<1> SUFFICES ASSUME TypeOK, JobInv, [Next]_vars PROVE TypeOK'
  OBVIOUS
<1> USE ConstAssumption DEF TypeOK, table, history
<1>1. ASSUME NEW h \in Requests, Abandon(h) PROVE TypeOK'
  BY <1>1 DEF Abandon, Finish, NoJob, Job, Ops, Points
<1>2. ASSUME NEW h \in Requests, NEW u \in Ids, LoginRead(h, u) PROVE TypeOK'
  BY <1>2 DEF LoginRead, Continue, NoJob, Job, Ops, Points
<1>3. ASSUME NEW h \in Requests, NEW u \in Ids, Insert(h, u) PROVE TypeOK'
  BY <1>3 DEF Insert, Finish, NoJob, Job, Ops, Points
<1>4. ASSUME NEW h \in Requests, NEW t \in Tokens, LoginMint(h, t) PROVE TypeOK'
  BY <1>4 DEF LoginMint, Finish, NoJob, Job, Ops, Points
<1>5. ASSUME NEW h \in Requests, NEW n \in Names, NEW p \in Passwords,
             Register(h, n, p)
      PROVE  TypeOK'
  BY <1>5 DEF Register, RegisteredRow, Continue, NoJob, Job, Ops, Points, Row
<1>6. ASSUME NEW h \in Requests, NEW t \in Tokens, NEW op \in AdminOps, NEW u \in Ids,
             Begin(h, t, op, u)
      PROVE  TypeOK'
  <2>1. owner[t] \in Ids \cup {Nobody}
    OBVIOUS
  <2>2. unguarded' \in BOOLEAN
    BY <1>6, Zenon DEF Begin
  <2>3. job' \in [Requests -> Job]
    BY <1>6, <2>1 DEF Begin, NoJob, Job, Ops, AdminOps, Removals
  <2>4. QED
    BY <1>6, <2>2, <2>3 DEF Begin, Continue, Points
<1>7. ASSUME NEW h \in Requests, AdminRead(h) PROVE TypeOK'
  <2>1. ASSUME NEW n \in Names, NEW role \in {"admin", "reader"}, NEW p \in Passwords,
               NEW g \in Grants, CreateRead(h, n, role, p, g)
        PROVE  TypeOK'
    <3>1. job' \in [Requests -> Job]
      BY <2>1, JobType DEF CreateRead, Row
    <3>2. QED
      BY <2>1, <3>1 DEF CreateRead, Continue, Points
  <2>2. ASSUME NEW new \in Edits, NEW asked \in SUBSET {"role", "status", "grant", "pw"},
               ReadRow(h, asked, new), NEW point \in Points, Continue(h, point)
        PROVE  TypeOK'
    <3>1. /\ job[h].target \in Ids
          /\ Edit(row[job[h].target], asked, new) \in Row
      BY <2>2, EditRow DEF ReadRow, JobInv
    <3>2. QED
      BY <2>2, <3>1, JobType DEF ReadRow, Draft, Continue
  <2>3. QED
    BY <1>7, <2>1, <2>2
    DEF AdminRead, UpdateRead, ApproveRead, DisableRead, ResetRead, DeleteRead, Points
<1>8. ASSUME NEW h \in Requests, Write(h) PROVE TypeOK'
  <2>1. unguarded' \in BOOLEAN
    BY <1>8, Zenon DEF Write
  <2>2. row' \in [Ids -> Row \cup {NoRow}]
    BY <1>8 DEF Write, Job
  <2>3. CASE AfterWrite(job[h].op) = "idle"
    BY <1>8, <2>1, <2>2, <2>3, JobType, ZenonT(40) DEF Write, Overtaken, Points
  <2>4. CASE AfterWrite(job[h].op) = "purge"
    BY <1>8, <2>1, <2>2, <2>4 DEF Write, Overtaken, Continue, Points
  <2>5. QED
    BY <2>3, <2>4 DEF AfterWrite
<1>9. ASSUME NEW h \in Requests, Purge(h) PROVE TypeOK'
  <2>1. CASE job[h].op = "delete"
    BY <1>9, <2>1 DEF Purge, Continue, Points
  <2>2. CASE job[h].op # "delete"
    BY <1>9, <2>2, FinishType DEF Purge
  <2>3. QED
    BY <2>1, <2>2
<1>10. ASSUME NEW h \in Requests, PurgeFails(h) PROVE TypeOK'
  <2>1. CASE job[h].op = "delete"
    BY <1>10, <2>1 DEF PurgeFails, Continue, Points
  <2>2. CASE job[h].op # "delete"
    BY <1>10, <2>2, FinishType DEF PurgeFails
  <2>3. QED
    BY <2>1, <2>2
<1>11. ASSUME NEW h \in Requests, Remove(h) PROVE TypeOK'
  BY <1>11 DEF Remove, Cascade, TokensOf, Finish, NoJob, Job, Ops, Points
<1>12. ASSUME NEW t \in Tokens, Logout(t) PROVE TypeOK'
  BY <1>12 DEF Logout
<1>13. ASSUME NEW x \in Lapsing, Lapse(x) PROVE TypeOK'
  BY <1>13 DEF Lapse
<1>14. CASE UNCHANGED vars
  BY <1>14 DEF vars
<1>15. QED
  BY <1>1, <1>2, <1>3, <1>4, <1>5, <1>6, <1>7, <1>8, <1>9, <1>10, <1>11, <1>12, <1>13,
     <1>14 DEF Next, Step

(* What a request remembers fits the store call it makes next. *)
LEMMA JobStep == TypeOK /\ JobInv /\ [Next]_vars => JobInv'
<1> SUFFICES ASSUME TypeOK, JobInv, [Next]_vars PROVE JobInv'
  OBVIOUS
<1> USE ConstAssumption DEF TypeOK, JobInv, table, history
<1>1. ASSUME NEW h \in Requests, Finish(h) PROVE JobInv'
  BY <1>1 DEF Finish
<1>2. ASSUME NEW h \in Requests, NEW u \in Ids, LoginRead(h, u) PROVE JobInv'
  BY <1>2 DEF LoginRead, Continue, NoJob
<1>3. ASSUME NEW h \in Requests, NEW n \in Names, NEW p \in Passwords,
             Register(h, n, p)
      PROVE  JobInv'
  BY <1>3 DEF Register, RegisteredRow, Continue, NoJob, Row
<1>4. ASSUME NEW h \in Requests, NEW t \in Tokens, NEW op \in AdminOps, NEW u \in Ids,
             Begin(h, t, op, u)
      PROVE  JobInv'
  BY <1>4 DEF Begin, Continue, NoJob
<1>5. ASSUME NEW h \in Requests, AdminRead(h) PROVE JobInv'
  <2>1. ASSUME NEW n \in Names, NEW role \in {"admin", "reader"}, NEW p \in Passwords,
               NEW g \in Grants, CreateRead(h, n, role, p, g)
        PROVE  JobInv'
    BY <2>1 DEF CreateRead, Continue, Row
  <2>2. ASSUME NEW new \in Edits, NEW asked, ReadRow(h, asked, new),
               NEW point \in {"write", "purge"}, Continue(h, point),
               point = "purge" => job[h].op = "delete"
        PROVE  JobInv'
    <3>1. job[h].target \in Ids /\ Edit(row[job[h].target], asked, new) \in Row
      BY <2>2, EditRow DEF ReadRow
    <3>2. QED
      BY <2>2, <3>1 DEF ReadRow, Draft, Continue
  <2>3. QED
    BY <1>5, <2>1, <2>2
    DEF AdminRead, UpdateRead, ApproveRead, DisableRead, ResetRead, DeleteRead
<1>6. ASSUME NEW h \in Requests, Write(h) PROVE JobInv'
  <2>1. CASE AfterWrite(job[h].op) = "idle"
    BY <1>6, <2>1 DEF Write
  <2>2. CASE AfterWrite(job[h].op) = "purge"
    BY <1>6, <2>2 DEF Write, AfterWrite, Continue
  <2>3. QED
    BY <2>1, <2>2 DEF AfterWrite
<1>7. ASSUME NEW h \in Requests, Continue(h, "remove"), pc[h] = "purge", UNCHANGED job,
             job[h].op = "delete"
      PROVE  JobInv'
  BY <1>7 DEF Continue
<1>8. ASSUME UNCHANGED <<pc, job>> PROVE JobInv'
  BY <1>8
<1>9. QED
  <2>1. ASSUME NEW h \in Requests, Step(h) PROVE JobInv'
    BY <2>1, <1>1, <1>2, <1>3, <1>4, <1>5, <1>6, <1>7
    DEF Step, Abandon, Insert, LoginMint, Purge, PurgeFails, Remove
  <2>2. ASSUME NEW t \in Tokens, Logout(t) PROVE JobInv'
    BY <2>2, <1>8 DEF Logout
  <2>3. ASSUME NEW x \in Lapsing, Lapse(x) PROVE JobInv'
    BY <2>3, <1>8 DEF Lapse
  <2>4. CASE UNCHANGED vars
    BY <2>4, <1>8 DEF vars
  <2>5. QED
    BY <2>1, <2>2, <2>3, <2>4 DEF Next

-----------------------------------------------------------------------------
(* The rows and tokens a step may touch. *)
LEMMA BornStep == TypeOK /\ JobInv /\ BornInv /\ [Next]_vars => BornInv'
<1> SUFFICES ASSUME TypeOK, JobInv, BornInv, [Next]_vars PROVE BornInv'
  OBVIOUS
<1> USE ConstAssumption DEF TypeOK, JobInv, BornInv, table, history
<1>1. ASSUME NEW h \in Requests, Abandon(h) PROVE BornInv'
  BY <1>1 DEF Abandon, Finish
<1>2. ASSUME NEW h \in Requests, NEW u \in Ids, LoginRead(h, u) PROVE BornInv'
  BY <1>2 DEF LoginRead, Continue
<1>3. ASSUME NEW h \in Requests, NEW u \in Ids, Insert(h, u) PROVE BornInv'
  BY <1>3 DEF Insert, Finish
<1>4. ASSUME NEW h \in Requests, NEW t \in Tokens, LoginMint(h, t) PROVE BornInv'
  BY <1>4 DEF LoginMint, Finish
<1>5. ASSUME NEW h \in Requests, NEW n \in Names, NEW p \in Passwords,
             Register(h, n, p)
      PROVE  BornInv'
  BY <1>5 DEF Register, Continue
<1>6. ASSUME NEW h \in Requests, NEW t \in Tokens, NEW op \in AdminOps, NEW u \in Ids,
             Begin(h, t, op, u)
      PROVE  BornInv'
  BY <1>6 DEF Begin, Continue
<1>7. ASSUME NEW h \in Requests, AdminRead(h) PROVE BornInv'
  <2>1. ASSUME NEW n \in Names, NEW role \in {"admin", "reader"}, NEW p \in Passwords,
               NEW g \in Grants, CreateRead(h, n, role, p, g)
        PROVE  BornInv'
    BY <2>1 DEF CreateRead, Continue
  <2>2. ASSUME NEW new \in Edits, NEW asked, ReadRow(h, asked, new),
               NEW point \in {"write", "purge"}, Continue(h, point)
        PROVE  BornInv'
    BY <2>2 DEF ReadRow, Continue
  <2>3. QED
    BY <1>7, <2>1, <2>2
    DEF AdminRead, UpdateRead, ApproveRead, DisableRead, ResetRead, DeleteRead
<1>8. ASSUME NEW h \in Requests, Write(h) PROVE BornInv'
  <2>1. CASE AfterWrite(job[h].op) = "idle"
    BY <1>8, <2>1 DEF Write
  <2>2. CASE AfterWrite(job[h].op) = "purge"
    BY <1>8, <2>2 DEF Write, Continue
  <2>3. QED
    BY <2>1, <2>2 DEF AfterWrite
<1>9. ASSUME NEW h \in Requests, Purge(h) \/ PurgeFails(h) PROVE BornInv'
  BY <1>9 DEF Purge, PurgeFails, Continue, Finish
<1>10. ASSUME NEW h \in Requests, Remove(h) PROVE BornInv'
  BY <1>10 DEF Remove, Finish
<1>11. ASSUME NEW t \in Tokens, Logout(t) PROVE BornInv'
  BY <1>11 DEF Logout
<1>12. ASSUME NEW x \in Lapsing, Lapse(x) PROVE BornInv'
  BY <1>12 DEF Lapse
<1>13. CASE UNCHANGED vars
  BY <1>13, SMTT(30) DEF vars
<1>14. QED
  BY <1>1, <1>2, <1>3, <1>4, <1>5, <1>6, <1>7, <1>8, <1>9, <1>10, <1>11, <1>12, <1>13
  DEF Next, Step

(* Sessions end with their account, by the foreign key and its cascade. *)
LEMMA OwnedStep == TypeOK /\ JobInv /\ SessionsOwned /\ [Next]_vars => SessionsOwned'
<1> SUFFICES ASSUME TypeOK, JobInv, SessionsOwned, [Next]_vars PROVE SessionsOwned'
  OBVIOUS
<1> USE ConstAssumption DEF TypeOK, SessionsOwned, table, history
<1>1. ASSUME NEW h \in Requests, NEW u \in Ids, Insert(h, u) PROVE SessionsOwned'
  <2>1. job[h].draft \in Row
    BY <1>1 DEF Insert, JobInv
  <2>2. QED
    BY <1>1, <2>1 DEF Insert
<1>2. ASSUME NEW h \in Requests, NEW t \in Tokens, LoginMint(h, t) PROVE SessionsOwned'
  <2>1. job[h].target \in Ids
    BY <1>2 DEF LoginMint, JobInv
  <2>2. QED
    BY <1>2, <2>1 DEF LoginMint
<1>3. ASSUME NEW h \in Requests, Write(h) PROVE SessionsOwned'
  <2>1. job[h].draft \in Row
    BY <1>3 DEF Write, JobInv
  <2>2. QED
    BY <1>3, <2>1 DEF Write
<1>4. ASSUME NEW h \in Requests, Purge(h) PROVE SessionsOwned'
  BY <1>4 DEF Purge
<1>5. ASSUME NEW h \in Requests, Remove(h) PROVE SessionsOwned'
  BY <1>5 DEF Remove, Cascade, TokensOf
<1>6. ASSUME NEW t \in Tokens, Logout(t) PROVE SessionsOwned'
  BY <1>6 DEF Logout
<1>7. CASE UNCHANGED <<row, owner, live>>
  BY <1>7
<1>8. ASSUME NEW h \in Requests, Abandon(h) \/ AdminRead(h) \/ PurgeFails(h)
      PROVE  UNCHANGED <<row, owner, live>>
  BY <1>8 DEF Abandon, AdminRead, CreateRead, UpdateRead, ApproveRead, DisableRead,
              ResetRead, DeleteRead, ReadRow, PurgeFails
<1>9. QED
  BY <1>1, <1>2, <1>3, <1>4, <1>5, <1>6, <1>7, <1>8
  DEF Next, Step, vars, LoginRead, Register, Begin, Lapse

(* The steps that change neither a row nor a token: requests end, or go on to
   their next store call with what they remember. *)
Quiet ==
  /\ UNCHANGED <<row, owner, live, born, approved, revoked, unguarded>>
  /\ \A g \in Requests : job'[g] = job[g] \/ pc'[g] = "idle"
  /\ \A g \in Requests : pc'[g] # "idle" =>
        /\ pc'[g] = pc[g] \/ (pc[g] = "purge" /\ pc'[g] = "remove")
        /\ doomed'[g] = doomed[g]
        /\ g \in overtaken' <=> g \in overtaken
  /\ \A g \in Requests : pc'[g] = "idle" =>
        \/ doomed'[g] = {}
        \/ pc[g] = "idle" /\ job'[g] = job[g] /\ doomed'[g] = doomed[g]

(* The steps of the system, one by one, with those that leave a user's rows,
   sessions and requests alone gathered as quiet. *)
LEMMA NextCases ==
  ASSUME TypeOK, [Next]_vars
  PROVE  \/ \E h \in Requests : \E u \in Ids : Insert(h, u) \/ LoginRead(h, u)
         \/ \E h \in Requests : \E t \in Tokens : LoginMint(h, t)
         \/ \E h \in Requests : \E n \in Names, p \in Passwords :
               Register(h, n, p)
         \/ \E h \in Requests : \E t \in Tokens, op \in AdminOps, u \in Ids :
               Begin(h, t, op, u)
         \/ \E h \in Requests : AdminRead(h) \/ Write(h) \/ Purge(h) \/ Remove(h)
         \/ \E t \in Tokens : Logout(t)
         \/ Quiet
<1> USE DEF TypeOK, table, history
<1>1. ASSUME NEW h \in Requests, Finish(h),
             UNCHANGED <<row, owner, live, born, approved, revoked, unguarded>>
      PROVE  Quiet
  <2>1. pc'[h] = "idle" /\ doomed'[h] = {}
    BY <1>1 DEF Finish
  <2>2. \A g \in Requests \ {h} :
           /\ pc'[g] = pc[g] /\ job'[g] = job[g] /\ doomed'[g] = doomed[g]
           /\ g \in overtaken' <=> g \in overtaken
    BY <1>1 DEF Finish
  <2>3. QED
    BY <1>1, <2>1, <2>2 DEF Quiet
<1>2. ASSUME NEW h \in Requests, Abandon(h) PROVE Quiet
  BY <1>1, <1>2 DEF Abandon
<1>3. ASSUME NEW h \in Requests, PurgeFails(h) PROVE Quiet
  <2>1. CASE job[h].op = "delete"
    BY <1>3, <2>1 DEF PurgeFails, Continue, Quiet
  <2>2. CASE job[h].op # "delete"
    BY <1>1, <1>3, <2>2 DEF PurgeFails
  <2>3. QED
    BY <2>1, <2>2
<1>4. ASSUME UNCHANGED <<row, owner, live, born, approved, revoked, unguarded,
                         pc, job, doomed, overtaken>>
      PROVE  Quiet
  BY <1>4 DEF Quiet
<1>5. ASSUME NEW x \in Lapsing, Lapse(x) PROVE Quiet
  BY <1>4, <1>5 DEF Lapse
<1>6. CASE UNCHANGED vars
  BY <1>4, <1>6 DEF vars
<1>7. QED
  BY <1>2, <1>3, <1>5, <1>6 DEF Next, Step

(* Names never change and a taken one is never inserted. *)
LEMMA NameStep == TypeOK /\ JobInv /\ BornInv /\ NameInv /\ [Next]_vars => NameInv'
<1> SUFFICES ASSUME TypeOK, JobInv, BornInv, NameInv, [Next]_vars PROVE NameInv'
  OBVIOUS
<1> USE ConstAssumption DEF TypeOK, NameInv, UniqueNames, table, history
<1>1. ASSUME NEW h \in Requests, NEW u \in Ids, Insert(h, u) PROVE NameInv'
  <2>1. job[h].draft \in Row /\ row[u] = NoRow
    BY <1>1 DEF Insert, JobInv, BornInv
  <2>2. \A g \in Requests : pc[g] = "write" => job[g].target # u
    BY <1>1 DEF Insert, BornInv
  <2>3. \A v \in Ids : row[v] # NoRow => row[v].name # job[h].draft.name
    BY <1>1 DEF Insert, CanInsert, Taken
  <2>4. UniqueNames'
    BY <1>1, <2>1, <2>3 DEF Insert
  <2>5. \A g \in Requests : pc'[g] = "write" =>
          /\ pc[g] = "write" /\ job'[g] = job[g]
          /\ row'[job[g].target] = row[job[g].target]
    BY <1>1, <2>2 DEF Insert, Finish, JobInv
  <2>6. QED
    BY <2>4, <2>5
<1>2. ASSUME NEW h \in Requests, AdminRead(h) PROVE NameInv'
  <2>1. ASSUME NEW n \in Names, NEW role \in {"admin", "reader"}, NEW p \in Passwords,
               NEW g \in Grants, CreateRead(h, n, role, p, g)
        PROVE  NameInv'
    BY <2>1 DEF CreateRead, Continue
  <2>2. ASSUME NEW new \in Edits, NEW asked, ReadRow(h, asked, new),
               NEW point \in {"write", "purge"}, Continue(h, point)
        PROVE  NameInv'
    <3>1. Edit(row[job[h].target], asked, new).name = row[job[h].target].name
      BY <2>2, EditRow DEF ReadRow, JobInv
    <3>2. QED
      BY <2>2, <3>1 DEF ReadRow, Draft, Continue
  <2>3. QED
    BY <1>2, <2>1, <2>2
    DEF AdminRead, UpdateRead, ApproveRead, DisableRead, ResetRead, DeleteRead
<1>3. ASSUME NEW h \in Requests, Write(h) PROVE NameInv'
  <2>1. job[h].draft \in Row /\ job[h].target \in Ids
    BY <1>3 DEF Write, JobInv
  <2>2. \A g \in Requests : pc'[g] = "write" => pc[g] = "write" /\ job'[g] = job[g]
    BY <1>3 DEF Write, Continue
  <2>3. \A v \in Ids : (row'[v] = NoRow) = (row[v] = NoRow)
    BY <1>3, <2>1 DEF Write
  <2>4. \A v \in Ids : row[v] # NoRow => row'[v].name = row[v].name
    BY <1>3, <2>1 DEF Write
  <2>5. QED
    BY <2>2, <2>3, <2>4 DEF JobInv
<1>4. ASSUME NEW h \in Requests, Remove(h) PROVE NameInv'
  BY <1>4 DEF Remove, Finish, JobInv
<1>5. ASSUME UNCHANGED row,
             \A g \in Requests : pc'[g] = "write" => pc[g] = "write" /\ job'[g] = job[g]
      PROVE  NameInv'
  BY <1>5
<1>6. CASE Quiet
  BY <1>5, <1>6 DEF Quiet
<1>7. ASSUME NEW h \in Requests,
             \/ \E u \in Ids : LoginRead(h, u)
             \/ \E t \in Tokens : LoginMint(h, t)
             \/ \E n \in Names, p \in Passwords : Register(h, n, p)
             \/ \E t \in Tokens, op \in AdminOps, u \in Ids : Begin(h, t, op, u)
             \/ Purge(h)
      PROVE  NameInv'
  <2>1. UNCHANGED row
    BY <1>7 DEF LoginRead, LoginMint, Register, Begin, Purge
  <2>2. \A g \in Requests : pc'[g] = "write" => pc[g] = "write" /\ job'[g] = job[g]
    <3>1. CASE \/ \E u \in Ids : LoginRead(h, u)
               \/ \E n \in Names, p \in Passwords : Register(h, n, p)
      BY <3>1 DEF LoginRead, Register, Continue
    <3>2. CASE \E t \in Tokens, op \in AdminOps, u \in Ids : Begin(h, t, op, u)
      BY <3>2 DEF Begin, Continue
    <3>3. CASE \E t \in Tokens : LoginMint(h, t)
      BY <3>3 DEF LoginMint, Finish
    <3>4. CASE Purge(h)
      BY <3>4 DEF Purge, Finish, Continue
    <3>5. QED
      BY <1>7, <3>1, <3>2, <3>3, <3>4
  <2>3. QED
    BY <1>5, <2>1, <2>2, SMTT(30)
<1>8. ASSUME NEW t \in Tokens, Logout(t) PROVE NameInv'
  BY <1>5, <1>8 DEF Logout
<1>9. QED
  BY <1>1, <1>2, <1>3, <1>4, <1>6, <1>7, <1>8, NextCases

(* Only an administrator's request makes an account active. *)
LEMMA ApprovalStep ==
  TypeOK /\ JobInv /\ BornInv /\ ApprovalInv /\ [Next]_vars => ApprovalInv'
<1> SUFFICES ASSUME TypeOK, JobInv, BornInv, ApprovalInv, [Next]_vars PROVE ApprovalInv'
  OBVIOUS
<1> USE ConstAssumption DEF TypeOK, ApprovalInv, table, history
<1>1. ASSUME NEW h \in Requests, NEW u \in Ids, Insert(h, u) PROVE ApprovalInv'
  BY <1>1 DEF Insert, Finish, JobInv
<1>2. ASSUME NEW h \in Requests, NEW n \in Names, NEW p \in Passwords,
             Register(h, n, p)
      PROVE  ApprovalInv'
  BY <1>2 DEF Register, RegisteredRow, Continue, NoJob
<1>3. ASSUME NEW h \in Requests, AdminRead(h) PROVE ApprovalInv'
  <2>1. ASSUME NEW n \in Names, NEW role \in {"admin", "reader"}, NEW p \in Passwords,
               NEW g \in Grants, CreateRead(h, n, role, p, g)
        PROVE  ApprovalInv'
    BY <2>1 DEF CreateRead, Continue
  <2>2. ASSUME NEW new \in Edits, NEW asked, ReadRow(h, asked, new),
               NEW point \in {"write", "purge"}, Continue(h, point)
        PROVE  ApprovalInv'
    <3> DEFINE d == Edit(row[job[h].target], asked, new)
    <3>1. job[h].target \in Ids /\ row[job[h].target] # NoRow
      BY <2>2 DEF ReadRow, JobInv
    <3>2. d.status = (IF "status" \in asked THEN new.status
                      ELSE row[job[h].target].status)
      BY <3>1 DEF Edit, Row
    <3>3. d.status = "active" => job[h].target \in approved'
      BY <2>2, <3>1, <3>2 DEF ReadRow
    <3>4. /\ job'[h].draft = d /\ job'[h].target = job[h].target
          /\ \A g \in Requests \ {h} : job'[g] = job[g] /\ pc'[g] = pc[g]
          /\ pc'[h] = point /\ row' = row /\ approved \subseteq approved'
      BY <2>2 DEF ReadRow, Draft, Continue, Job
    <3> HIDE DEF d
    <3>5. QED
      BY <3>3, <3>4
  <2>3. QED
    BY <1>3, <2>1, <2>2
    DEF AdminRead, UpdateRead, ApproveRead, DisableRead, ResetRead, DeleteRead
<1>4. ASSUME NEW h \in Requests, Write(h) PROVE ApprovalInv'
  <2>1. job[h].draft \in Row /\ job[h].target \in Ids
    BY <1>4 DEF Write, JobInv
  <2>2. \A g \in Requests : pc'[g] \in {"write", "insert"} =>
           pc'[g] = pc[g] /\ job'[g] = job[g]
    BY <1>4 DEF Write, Continue, AfterWrite
  <2>3. \A v \in Ids : row'[v] # NoRow /\ row'[v].status = "active" => v \in approved
    BY <1>4, <2>1 DEF Write
  <2>4. QED
    BY <1>4, <2>2, <2>3 DEF Write
<1>5. ASSUME NEW h \in Requests, Remove(h) PROVE ApprovalInv'
  BY <1>5 DEF Remove, Finish
<1>6. ASSUME UNCHANGED <<row, approved>>,
             \A g \in Requests : pc'[g] \in {"write", "insert"} =>
                pc[g] = pc'[g] /\ job'[g] = job[g]
      PROVE  ApprovalInv'
  BY <1>6
<1>7. CASE Quiet
  BY <1>6, <1>7, SMTT(30) DEF Quiet
<1>8. ASSUME NEW h \in Requests,
             \/ \E u \in Ids : LoginRead(h, u)
             \/ \E t \in Tokens : LoginMint(h, t)
             \/ \E t \in Tokens, op \in AdminOps, u \in Ids : Begin(h, t, op, u)
             \/ Purge(h)
      PROVE  ApprovalInv'
  BY <1>6, <1>8, ZenonT(40) DEF LoginRead, LoginMint, Begin, Purge, Finish, Continue
<1>9. ASSUME NEW t \in Tokens, Logout(t) PROVE ApprovalInv'
  BY <1>6, <1>9 DEF Logout
<1>10. QED
  BY <1>1, <1>2, <1>3, <1>4, <1>5, <1>7, <1>8, <1>9, NextCases

(* Revoked tokens stay out of the session table. *)
LEMMA RevokeStep == TypeOK /\ JobInv /\ RevokeInv /\ [Next]_vars => RevokeInv'
<1> SUFFICES ASSUME TypeOK, JobInv, RevokeInv, [Next]_vars PROVE RevokeInv'
  OBVIOUS
<1> USE ConstAssumption
    DEF TypeOK, JobInv, RevokeInv, RevocationIsFinal, TokensOf, table, history
<1>1. ASSUME NEW h \in Requests, NEW t \in Tokens, LoginMint(h, t) PROVE RevokeInv'
  BY <1>1 DEF LoginMint, Finish
<1>2. ASSUME NEW h \in Requests, Write(h) PROVE RevokeInv'
  <2>1. CASE AfterWrite(job[h].op) = "idle"
    BY <1>2, <2>1 DEF Write
  <2>2. CASE AfterWrite(job[h].op) = "purge"
    BY <1>2, <2>2 DEF Write, Continue
  <2>3. QED
    BY <2>1, <2>2 DEF AfterWrite
<1>3. ASSUME NEW h \in Requests, Purge(h) PROVE RevokeInv'
  <2>1. CASE job[h].op = "delete"
    BY <1>3, <2>1 DEF Purge, Continue
  <2>2. CASE job[h].op # "delete"
    BY <1>3, <2>2 DEF Purge, SessionsToEnd, Finish
  <2>3. QED
    BY <2>1, <2>2
<1>4. ASSUME NEW h \in Requests, Remove(h) PROVE RevokeInv'
  BY <1>4 DEF Remove, Cascade, Finish
<1>5. ASSUME NEW t \in Tokens, Logout(t) PROVE RevokeInv'
  BY <1>5 DEF Logout
<1>6. CASE Quiet
  BY <1>6 DEF Quiet
<1>7. ASSUME NEW h \in Requests, NEW u \in Ids, Insert(h, u) PROVE RevokeInv'
  BY <1>7 DEF Insert, Finish
<1>8. ASSUME NEW h \in Requests, UNCHANGED <<owner, live, revoked, doomed>>,
             doomed[h] = {},
             \A g \in Requests \ {h} : job'[g] = job[g] /\ pc'[g] = pc[g]
      PROVE  RevokeInv'
  BY <1>8
<1>9. ASSUME NEW h \in Requests,
             \/ \E u \in Ids : LoginRead(h, u)
             \/ \E n \in Names, p \in Passwords : Register(h, n, p)
             \/ \E t \in Tokens, op \in AdminOps, u \in Ids : Begin(h, t, op, u)
      PROVE  RevokeInv'
  BY <1>8, <1>9 DEF LoginRead, Register, Begin, Continue
<1>10. ASSUME NEW h \in Requests, AdminRead(h) PROVE RevokeInv'
  <2>1. /\ UNCHANGED <<owner, live, revoked, doomed>> /\ pc[h] = "read"
        /\ \A g \in Requests \ {h} : job'[g] = job[g] /\ pc'[g] = pc[g]
    BY <1>10, ZenonT(40) DEF AdminRead, CreateRead, UpdateRead, ApproveRead, DisableRead, ResetRead,
                 DeleteRead, ReadRow, Continue
  <2>2. QED
    BY <1>8, <2>1
<1>11. QED
  BY <1>1, <1>2, <1>3, <1>4, <1>5, <1>6, <1>7, <1>9, <1>10, NextCases

(* The administrator behind the only removal under way outlives it. *)
LEMMA AdminStep ==
  TypeOK /\ JobInv /\ BornInv /\ SessionsOwned /\ AdminInv /\ [Next]_vars => AdminInv'
<1> SUFFICES ASSUME TypeOK, JobInv, BornInv, SessionsOwned, AdminInv, [Next]_vars,
                    ~unguarded'
             PROVE  AdminInv'
  BY DEF AdminInv
<1> USE ConstAssumption DEF TypeOK, table, history
<1> DEFINE Backed(h) ==
      /\ job[h].actor \in Ids
      /\ job[h].actor # job[h].target
      /\ ActiveAdmin(row[job[h].actor])
      /\ \A g \in Requests : Removing(g) => g = h
(* Steps that keep every active administrator and start no removal. *)
<1>1. ASSUME ~unguarded,
             \A u \in Ids : ActiveAdmin(row[u]) => ActiveAdmin(row'[u]),
             \A g \in Requests : pc'[g] # "idle" /\ job'[g].op \in Removals =>
                /\ Removing(g)
                /\ job'[g].actor = job[g].actor /\ job'[g].target = job[g].target
      PROVE  AdminInv'
  BY <1>1 DEF AdminInv, Removing, ActiveAdmin
<1>2. ASSUME NEW h \in Requests, NEW u \in Ids, Insert(h, u) PROVE AdminInv'
  <2>1. row[u] = NoRow
    BY <1>2 DEF Insert, BornInv
  <2>2. \A v \in Ids : ActiveAdmin(row[v]) => ActiveAdmin(row'[v])
    BY <1>2, <2>1 DEF Insert, ActiveAdmin
  <2>3. QED
    BY <1>1, <1>2, <2>2 DEF Insert, Finish, Removing
<1>3. ASSUME NEW h \in Requests,
             \/ \E u \in Ids : LoginRead(h, u)
             \/ \E n \in Names, p \in Passwords : Register(h, n, p)
      PROVE  AdminInv'
  <2>1. /\ UNCHANGED <<row, unguarded>> /\ job'[h].op \in {"login", "register"}
        /\ \A g \in Requests \ {h} : job'[g] = job[g] /\ pc'[g] = pc[g]
    <3>1. CASE \E u \in Ids : LoginRead(h, u)
      BY <3>1 DEF LoginRead, Continue, NoJob
    <3>2. CASE \E n \in Names, p \in Passwords : Register(h, n, p)
      BY <3>2 DEF Register, RegisteredRow, Continue, NoJob
    <3>3. QED
      BY <1>3, <3>1, <3>2
  <2>2. QED
    BY <1>1, <2>1 DEF Removing, Removals
<1>4. ASSUME NEW h \in Requests, NEW t \in Tokens, LoginMint(h, t) PROVE AdminInv'
  BY <1>1, <1>4 DEF LoginMint, Finish, Removing
<1>5. ASSUME NEW h \in Requests, NEW t \in Tokens, NEW op \in AdminOps, NEW u \in Ids,
             Begin(h, t, op, u)
      PROVE  AdminInv'
  <2>1. owner[t] \in Ids /\ ActiveAdmin(row[owner[t]])
    BY <1>5 DEF Begin, Authenticate, SessionsOwned, ActiveAdmin
  <2>2. CASE op \notin Removals
    <3>1. /\ ~unguarded /\ row' = row /\ job'[h].op = op
          /\ \A g \in Requests \ {h} : job'[g] = job[g] /\ pc'[g] = pc[g]
      BY <1>5, <2>2 DEF Begin, Continue, NoJob
    <3>2. QED
      BY <1>1, <2>2, <3>1 DEF Removing
  <2>3. CASE op \in Removals
    <3>1. ~unguarded /\ \A g \in Requests : ~Removing(g)
      <4>1. unguarded' = (unguarded \/ (op \in Removals /\ \E g \in Requests : Removing(g)))
        BY <1>5 DEF Begin
      <4>2. QED
        BY <2>3, <4>1, Zenon
    <3>2. /\ job'[h].op = op /\ job'[h].actor = owner[t] /\ job'[h].target = u
          /\ owner[t] # u /\ pc'[h] = "read" /\ row' = row
          /\ \A g \in Requests \ {h} : job'[g] = job[g] /\ pc'[g] = pc[g]
      BY <1>5, <2>3 DEF Begin, Continue, NoJob, MayRemove
    <3>3. QED
      BY <2>1, <3>1, <3>2 DEF AdminInv, Removing, ActiveAdmin
  <2>4. QED
    BY <2>2, <2>3
<1>6. ASSUME NEW h \in Requests, AdminRead(h) PROVE AdminInv'
  <2>1. /\ UNCHANGED <<row, unguarded>> /\ pc[h] = "read"
        /\ \A g \in Requests \ {h} : job'[g] = job[g] /\ pc'[g] = pc[g]
    BY <1>6, ZenonT(40) DEF AdminRead, CreateRead, UpdateRead, ApproveRead, DisableRead, ResetRead,
                DeleteRead, ReadRow, Continue
  <2>2. /\ job'[h].op = job[h].op
        /\ job'[h].actor = job[h].actor /\ job'[h].target = job[h].target
    BY <1>6, JobKept
  <2>3. QED
    BY <1>1, <2>1, <2>2 DEF Removing
<1>7. ASSUME NEW h \in Requests, Write(h) PROVE AdminInv'
  <2> DEFINE u == job[h].target
  <2>1. job[h].draft \in Row /\ u \in Ids
    BY <1>7 DEF Write, JobInv
  <2>2. /\ ~unguarded
        /\ \A v \in Ids \ {u} : row'[v] = row[v]
        /\ job[h].op # "disable" => (ActiveAdmin(row[u]) => ActiveAdmin(row'[u]))
    BY <1>7, <2>1 DEF Write
  <2>3. \A g \in Requests : pc'[g] # "idle" => job'[g] = job[g] /\ pc[g] # "idle"
    BY <1>7 DEF Write, Continue
  <2>4. CASE job[h].op # "disable"
    <3>1. \A v \in Ids : ActiveAdmin(row[v]) => ActiveAdmin(row'[v])
      BY <2>2, <2>4
    <3>2. QED
      BY <1>1, <2>2, <2>3, <3>1 DEF Removing
  <2>5. CASE job[h].op = "disable"
    <3>1. Removing(h) /\ Backed(h)
      BY <1>7, <2>2, <2>5 DEF AdminInv, Removing, Removals, Write
    <3>2. row'[job[h].actor] = row[job[h].actor]
      BY <2>2, <3>1
    <3>3. QED
      BY <2>3, <3>1, <3>2 DEF AdminInv, Removing, ActiveAdmin
  <2>6. QED
    BY <2>4, <2>5
<1>8. ASSUME NEW h \in Requests, Purge(h) PROVE AdminInv'
  BY <1>1, <1>8 DEF Purge, Finish, Continue, Removing
<1>9. ASSUME NEW h \in Requests, Remove(h) PROVE AdminInv'
  <2> DEFINE u == job[h].target
  <2>1. /\ ~unguarded
        /\ \A v \in Ids \ {u} : row'[v] = row[v]
    BY <1>9 DEF Remove
  <2>2. \A g \in Requests : pc'[g] # "idle" => job'[g] = job[g] /\ pc[g] # "idle"
    BY <1>9 DEF Remove, Finish
  <2>3. Removing(h) /\ Backed(h)
    BY <1>9, <2>1 DEF AdminInv, Removing, Removals, Remove, JobInv
  <2>4. row'[job[h].actor] = row[job[h].actor]
    BY <2>1, <2>3
  <2>5. QED
    BY <2>2, <2>3, <2>4 DEF AdminInv, Removing, ActiveAdmin
<1>10. ASSUME NEW t \in Tokens, Logout(t) PROVE AdminInv'
  BY <1>1, <1>10 DEF Logout, Removing
<1>11. CASE Quiet
  BY <1>1, <1>11 DEF Quiet, Removing
<1>12. QED
  BY <1>2, <1>3, <1>4, <1>5, <1>6, <1>7, <1>8, <1>9, <1>10, <1>11, NextCases

(* A copy that nobody overtook is its row, edited as asked. *)
LEMMA EditAgain ==
  ASSUME NEW r \in Row, NEW asked, NEW new \in Edits
  PROVE  Edit(r, asked, new) = Edit(r, asked, Edit(r, asked, new))
BY DEF Edit, Row, Edits

(* A copy read from the table stays its row, edited, until a write overtakes it. *)
LEMMA CopyStep ==
  TypeOK /\ JobInv /\ BornInv /\ CopyInv /\ [Next]_vars => CopyInv'
<1> SUFFICES ASSUME TypeOK, JobInv, BornInv, CopyInv, [Next]_vars PROVE CopyInv'
  OBVIOUS
<1> USE ConstAssumption DEF TypeOK, table, history
(* Steps that bring no request to its write, and change no row under one. *)
<1>1. ASSUME \A g \in Requests : (pc'[g] = "write" /\ g \notin overtaken') =>
                /\ pc[g] = "write" /\ g \notin overtaken /\ job'[g] = job[g]
                /\ row'[job[g].target] \in {row[job[g].target], NoRow}
      PROVE  CopyInv'
  BY <1>1 DEF CopyInv
<1>2. ASSUME NEW h \in Requests, NEW u \in Ids, Insert(h, u) PROVE CopyInv'
  <2>1. \A g \in Requests : pc[g] = "write" => job[g].target # u
    BY <1>2 DEF Insert, BornInv
  <2>2. QED
    BY <1>1, <1>2, <2>1 DEF Insert, Finish
<1>3. ASSUME NEW h \in Requests,
             \/ \E u \in Ids : LoginRead(h, u)
             \/ \E t \in Tokens : LoginMint(h, t)
             \/ \E n \in Names, p \in Passwords : Register(h, n, p)
             \/ \E t \in Tokens, op \in AdminOps, u \in Ids : Begin(h, t, op, u)
             \/ Purge(h)
      PROVE  CopyInv'
  <2>1. CASE \/ \E u \in Ids : LoginRead(h, u)
             \/ \E n \in Names, p \in Passwords : Register(h, n, p)
    BY <1>1, <2>1 DEF LoginRead, Register, Continue
  <2>2. CASE \E t \in Tokens, op \in AdminOps, u \in Ids : Begin(h, t, op, u)
    BY <1>1, <2>2 DEF Begin, Continue
  <2>3. CASE \E t \in Tokens : LoginMint(h, t)
    BY <1>1, <2>3 DEF LoginMint, Finish
  <2>4. CASE Purge(h)
    BY <1>1, <2>4 DEF Purge, Finish, Continue
  <2>5. QED
    BY <1>3, <2>1, <2>2, <2>3, <2>4
<1>4. ASSUME NEW h \in Requests, AdminRead(h) PROVE CopyInv'
  <2>1. ASSUME NEW n \in Names, NEW role \in {"admin", "reader"}, NEW p \in Passwords,
               NEW g \in Grants, CreateRead(h, n, role, p, g)
        PROVE  CopyInv'
    BY <1>1, <2>1 DEF CreateRead, Continue
  <2>2. ASSUME NEW new \in Edits, NEW asked, ReadRow(h, asked, new),
               NEW point \in {"write", "purge"}, Continue(h, point)
        PROVE  CopyInv'
    <3> DEFINE r == row[job[h].target]
    <3>1. r \in Row /\ job[h].target \in Ids
      BY <2>2 DEF ReadRow, JobInv
    <3>2. /\ job'[h].draft = Edit(r, asked, new) /\ job'[h].asked = asked
          /\ job'[h].target = job[h].target
      <4>1. \A j \in Job : \A d, a :
              /\ [j EXCEPT !.draft = d, !.asked = a].draft = d
              /\ [j EXCEPT !.draft = d, !.asked = a].asked = a
              /\ [j EXCEPT !.draft = d, !.asked = a].target = j.target
        BY DEF Job
      <4>2. job'[h] = [job[h] EXCEPT !.draft = Edit(r, asked, new), !.asked = asked]
        BY <2>2 DEF ReadRow, Draft
      <4>3. QED
        BY <4>1, <4>2
    <3>3. Edit(r, asked, new) = Edit(r, asked, Edit(r, asked, new))
      BY <3>1, EditAgain
    <3>4. /\ row' = row /\ overtaken' = overtaken
          /\ \A g \in Requests \ {h} : job'[g] = job[g] /\ pc'[g] = pc[g]
      BY <2>2 DEF ReadRow, Continue
    <3> HIDE DEF r
    <3>5. job'[h].draft = Edit(r, job'[h].asked, job'[h].draft)
      BY <3>2, <3>3
    <3>6. QED
      BY <3>2, <3>4, <3>5 DEF CopyInv, r
  <2>3. QED
    BY <1>4, <2>1, <2>2
    DEF AdminRead, UpdateRead, ApproveRead, DisableRead, ResetRead, DeleteRead
<1>5. ASSUME NEW h \in Requests, Write(h) PROVE CopyInv'
  <2>1. ASSUME NEW g \in Requests, pc'[g] = "write", g \notin overtaken'
        PROVE  /\ pc[g] = "write" /\ g \notin overtaken /\ job'[g] = job[g]
               /\ row'[job[g].target] = row[job[g].target]
    <3>1. pc[g] = "write" /\ g # h /\ job'[g] = job[g]
      BY <1>5, <2>1 DEF Write, Continue, AfterWrite
    <3>2. g \notin Overtaken(h, job[h].target)
      BY <1>5, <2>1, <3>1 DEF Write
    <3>3. QED
      BY <1>5, <3>1, <3>2 DEF Overtaken, Write
  <2>2. QED
    BY <1>1, <2>1
<1>6. ASSUME NEW h \in Requests, Remove(h) PROVE CopyInv'
  BY <1>1, <1>6 DEF Remove, Finish, JobInv
<1>7. ASSUME NEW t \in Tokens, Logout(t) PROVE CopyInv'
  BY <1>1, <1>7 DEF Logout
<1>8. CASE Quiet
  BY <1>1, <1>8 DEF Quiet
<1>9. QED
  BY <1>2, <1>3, <1>4, <1>5, <1>6, <1>7, <1>8, NextCases

-----------------------------------------------------------------------------
(* The inductive invariant: TypeOK and JobInv hold each other up, the other
   parts need only them, BornInv and SessionsOwned. *)
IInv ==
  /\ TypeOK /\ JobInv /\ BornInv /\ SessionsOwned
  /\ NameInv /\ ApprovalInv /\ RevokeInv /\ AdminInv /\ CopyInv

(* The inductive invariant holds when the server starts. *)
LEMMA InitIInv == Init => IInv
<1> SUFFICES ASSUME Init PROVE IInv
  OBVIOUS
<1> USE ConstAssumption DEF Init
<1>1. TypeOK
  <2>1. job \in [Requests -> Job]
    BY DEF NoJob, Job, Ops
  <2>2. row \in [Ids -> Row \cup {NoRow}]
    OBVIOUS
  <2>3. owner \in [Tokens -> Ids \cup {Nobody}] /\ pc \in [Requests -> Points]
    BY DEF Points
  <2>4. doomed \in [Requests -> SUBSET Tokens] /\ unguarded \in BOOLEAN
    OBVIOUS
  <2>5. started \in 0..MaxRequests /\ born \subseteq Ids /\ approved \subseteq Ids
    OBVIOUS
  <2>6. live = {} /\ lapsed = {} /\ overtaken = {} /\ revoked = {}
    OBVIOUS
  <2>7. QED
    BY <2>1, <2>2, <2>3, <2>4, <2>5, <2>6, Zenon DEF TypeOK
<1>2. JobInv /\ BornInv /\ SessionsOwned /\ RevokeInv /\ CopyInv
  BY DEF JobInv, BornInv, SessionsOwned, RevokeInv, RevocationIsFinal, CopyInv
<1>3. NameInv /\ ApprovalInv
  BY DEF NameInv, UniqueNames, ApprovalInv
<1>4. AdminInv
  BY DEF AdminInv, ActiveAdmin, Removing
<1>5. QED
  BY <1>1, <1>2, <1>3, <1>4 DEF IInv

(* Every step keeps the inductive invariant. *)
LEMMA NextIInv == IInv /\ [Next]_vars => IInv'
BY TypeStep, JobStep, BornStep, OwnedStep, NameStep, ApprovalStep, RevokeStep, AdminStep,
   CopyStep DEF IInv

(* The inductive invariant holds throughout. *)
THEOREM Invariance == Spec => []IInv
BY InitIInv, NextIInv, PTL DEF Spec

(* Variables keep their types, whatever requests run together. *)
THEOREM TypeCorrect == Spec => []TypeOK
<1>1. IInv => TypeOK
  BY DEF IInv
<1>2. QED
  BY <1>1, Invariance, PTL

(* No session outlives its account. *)
THEOREM SessionsAreOwned == Spec => []SessionsOwned
<1>1. IInv => SessionsOwned
  BY DEF IInv
<1>2. QED
  BY <1>1, Invariance, PTL

(* No two accounts share a username. *)
THEOREM NamesAreUnique == Spec => []UniqueNames
<1>1. IInv => UniqueNames
  BY DEF IInv, NameInv
<1>2. QED
  BY <1>1, Invariance, PTL

(* A registered account opens nothing until an administrator activates it. *)
THEOREM ApprovalComesFirst == Spec => []NoAccessBeforeApproval
<1>1. IInv => NoAccessBeforeApproval
  BY DEF IInv, TypeOK, SessionsOwned, ApprovalInv, NoAccessBeforeApproval, Authenticate
<1>2. QED
  BY <1>1, Invariance, PTL

(* A revoked token never comes back. *)
THEOREM RevocationHolds == Spec => []RevocationIsFinal
<1>1. IInv => RevocationIsFinal
  BY DEF IInv, RevokeInv
<1>2. QED
  BY <1>1, Invariance, PTL

(* The guards on oneself keep an administrator, overlapping removals aside. *)
THEOREM AnAdminRemains == Spec => []AdminRemains
<1>1. IInv => AdminRemains
  BY DEF IInv, AdminInv, AdminRemains
<1>2. QED
  BY <1>1, Invariance, PTL

(* A write that nobody overtook changes only what was asked. *)
THEOREM WritesKeepOtherFields == Spec => OwnFieldsOnly
<1>1. ASSUME IInv, [Next]_vars, NEW h \in Requests, pc[h] = "write", pc'[h] # "write",
             h \notin overtaken, row'[job[h].target] # row[job[h].target]
      PROVE  row'[job[h].target] =
               Edit(row[job[h].target], job[h].asked, row'[job[h].target])
  <2> USE ConstAssumption DEF IInv, TypeOK, table, history
  <2>1. CASE Write(h)
    <3>1. job[h].target \in Ids
      BY <1>1 DEF JobInv
    <3>2. row' = [row EXCEPT ![job[h].target] =
                    IF row[job[h].target] = NoRow THEN NoRow ELSE job[h].draft]
      BY <2>1, Zenon DEF Write
    <3>3. row[job[h].target] # NoRow /\ row'[job[h].target] = job[h].draft
      BY <1>1, <3>1, <3>2
    <3>4. QED
      BY <1>1, <3>3 DEF CopyInv
  <2>2. CASE Quiet
    BY <1>1, <2>2 DEF Quiet
  <2>3. ASSUME NEW g \in Requests, g # h, Write(g) PROVE pc'[h] = "write"
    BY <1>1, <2>3 DEF Write, Continue
  <2>4. ASSUME NEW g \in Requests,
               \/ \E v \in Ids : Insert(g, v) \/ LoginRead(g, v)
               \/ \E t \in Tokens : LoginMint(g, t)
               \/ \E n \in Names, p \in Passwords : Register(g, n, p)
               \/ \E t \in Tokens, op \in AdminOps, v \in Ids : Begin(g, t, op, v)
               \/ Purge(g) \/ Remove(g)
        PROVE  pc'[h] = "write"
    <3>1. CASE \/ \E v \in Ids : LoginRead(g, v)
               \/ \E n \in Names, p \in Passwords : Register(g, n, p)
      BY <1>1, <3>1 DEF LoginRead, Register, Continue
    <3>2. CASE \E t \in Tokens, op \in AdminOps, v \in Ids : Begin(g, t, op, v)
      BY <1>1, <3>2 DEF Begin, Continue
    <3>3. CASE \/ \E v \in Ids : Insert(g, v)
               \/ \E t \in Tokens : LoginMint(g, t)
               \/ Remove(g)
      BY <1>1, <3>3 DEF Insert, LoginMint, Remove, Finish
    <3>4. CASE Purge(g)
      BY <1>1, <3>4, SMTT(30) DEF Purge, Finish, Continue
    <3>5. QED
      BY <2>4, <3>1, <3>2, <3>3, <3>4
  <2>5. ASSUME NEW g \in Requests, AdminRead(g) PROVE pc'[h] = "write"
    BY <1>1, <2>5
    DEF AdminRead, CreateRead, UpdateRead, ApproveRead, DisableRead, ResetRead,
        DeleteRead, ReadRow, Continue
  <2>6. ASSUME NEW t \in Tokens, Logout(t) PROVE pc'[h] = "write"
    BY <1>1, <2>6 DEF Logout
  <2>7. QED
    BY <1>1, <2>1, <2>2, <2>3, <2>4, <2>5, <2>6, NextCases
<1>2. IInv /\ [Next]_vars =>
        \A h \in Requests :
          (pc[h] = "write" /\ pc'[h] # "write" /\ h \notin overtaken) =>
            LET u == job[h].target IN
            row'[u] # row[u] => row'[u] = Edit(row[u], job[h].asked, row'[u])
  BY <1>1
<1>3. QED
  BY <1>2, Invariance, PTL DEF OwnFieldsOnly, Spec
=============================================================================
