-------------------------- MODULE CredentialsPanel --------------------------
(***************************************************************************)
(* The credentials tab of the administration page (web/src, AdminPage.tsx): *)
(* the table of profiles, their connection tests, and how a profile is     *)
(* edited and deleted.  Of a profile only the host it is tied to matters   *)
(* here; CredentialForm models the form and what a save does to the rest.  *)
(***************************************************************************)
EXTENDS Integers, FiniteSets

CONSTANTS
  Names,          \* profiles
  Hosts,          \* hosts a profile may be tied to, or tested against
  Reachable,      \* the hosts a test connects to
  AnyHost,        \* the profile is not tied to a server
  NoProfile,      \* there is no profile of that name
  None, Pending,
  MaxTests,       \* bound on the tests under way at once
  MaxSteps        \* bound on tests, forms, deletions and others' changes

VARIABLES
  profiles,       \* the server's: name -> host, AnyHost or NoProfile
  used,           \* profiles that something refers to
  creds,          \* the rows: name -> what was read of the profile
  list,           \* the list request under way: None, Pending or its answer
  thenTest,       \* handleSaved waits for the list to test this profile
  testResults,    \* name -> None or [status, host, stale]; stale is history:
                  \* the row named another host than the one that was tested
  tests,          \* tests under way: [name, host, asked, state]
  hostPrompt, editing, showCreate, inUse, confirming,  \* dialogs: a profile or None
  busy,           \* what the panel waits for: [op, name, state] or None
  steps

credVars == <<profiles, used, creds, list, thenTest, testResults, tests, hostPrompt,
              editing, showCreate, inUse, confirming, busy, steps>>
dialogs  == <<hostPrompt, editing, showCreate, inUse, confirming>>
server   == <<profiles, used>>

CredInit ==
  /\ profiles \in [Names -> Hosts \cup {AnyHost, NoProfile}]
  /\ used \in SUBSET {n \in Names : profiles[n] # NoProfile}
  /\ creds = [n \in Names |-> NoProfile]
  /\ list = Pending /\ thenTest = None
  /\ testResults = [n \in Names |-> None] /\ tests = {}
  /\ hostPrompt = None /\ editing = None /\ showCreate = FALSE
  /\ inUse = None /\ confirming = None /\ busy = None
  /\ steps = 0

Covered   == hostPrompt # None \/ editing # None \/ showCreate \/ inUse # None \/ confirming # None
Clickable == ~Covered /\ steps < MaxSteps

-----------------------------------------------------------------------------
(* Tests.  host is what the page shows beside the result; without an       *)
(* override the server takes the host that is stored.                      *)
StartsTest(n, shown, override) ==
  /\ Cardinality(tests) < MaxTests
  /\ testResults' = [testResults EXCEPT ![n] = [status |-> "testing", host |-> shown, stale |-> FALSE]]
  /\ tests' = tests \cup {[name |-> n, host |-> shown, asked |-> override,
                           stale |-> override = None /\ shown # profiles[n], state |-> "sent"]}

TestClick(n) ==
  IF creds[n] = AnyHost
  THEN hostPrompt' = n /\ UNCHANGED <<testResults, tests>>
  ELSE StartsTest(n, creds[n], None) /\ UNCHANGED hostPrompt

(* The button of a row is off while a test of it is shown as running; its  *)
(* menu is not.                                                            *)
IsTesting(n) == testResults[n] # None /\ testResults[n].status = "testing"
handleTestClick(n) ==
  /\ Clickable /\ creds[n] # NoProfile /\ ~IsTesting(n)
  /\ TestClick(n)
  /\ steps' = steps + 1
  /\ UNCHANGED <<server, creds, list, thenTest, editing, showCreate, inUse, confirming, busy>>

TestAnotherHost(n) ==
  /\ Clickable /\ creds[n] \in Hosts
  /\ hostPrompt' = n
  /\ steps' = steps + 1
  /\ UNCHANGED <<server, creds, list, thenTest, testResults, tests, editing, showCreate,
                 inUse, confirming, busy>>

HostPromptModal ==
  /\ hostPrompt # None /\ hostPrompt' = None
  /\ \/ \E h \in Hosts : StartsTest(hostPrompt, h, h)
     \/ UNCHANGED <<testResults, tests>>
  /\ UNCHANGED <<server, creds, list, thenTest, editing, showCreate, inUse, confirming, busy, steps>>

Reaches(h) == IF h \in Reachable THEN "ok" ELSE "error"
ServeTest(t) ==
  /\ t.state = "sent"
  /\ \E answer \in {"error", Reaches(IF t.asked = None THEN profiles[t.name] ELSE t.asked)} :
       tests' = (tests \ {t}) \cup {[t EXCEPT !.state = answer,
                   !.stale = @ \/ (t.asked = None /\ t.host # profiles[t.name])]}
  /\ UNCHANGED <<server, creds, list, thenTest, testResults, dialogs, busy, steps>>

ResultKeepsHost(t) == [testResults[t.name] EXCEPT !.status = t.state]   \* mutant
Result(t) == [status |-> t.state, host |-> t.host, stale |-> t.stale]
runTest(t) ==
  /\ t.state # "sent"
  /\ tests' = tests \ {t}
  /\ testResults' = [testResults EXCEPT ![t.name] = Result(t)]
  /\ UNCHANGED <<server, creds, list, thenTest, dialogs, busy, steps>>

-----------------------------------------------------------------------------
(* The list, and handleSaved, which tests what it finds in it. *)
ServeList ==
  /\ list = Pending
  /\ list' = profiles
  /\ UNCHANGED <<server, creds, thenTest, testResults, tests, dialogs, busy, steps>>

Listed(n) == thenTest # None /\ list[n] # NoProfile /\ n = thenTest
load ==
  /\ list \notin {None, Pending}
  /\ creds' = list /\ list' = None /\ thenTest' = None
  /\ IF \E n \in Names : Listed(n)
     THEN IF list[thenTest] = AnyHost
          THEN hostPrompt' = thenTest /\ UNCHANGED <<testResults, tests>>
          ELSE StartsTest(thenTest, list[thenTest], None) /\ UNCHANGED hostPrompt
     ELSE UNCHANGED <<hostPrompt, testResults, tests>>
  /\ UNCHANGED <<server, editing, showCreate, inUse, confirming, busy, steps>>

(* An alert takes the place of the rows: nothing of them can be clicked. *)
LoadFails ==
  /\ list # None
  /\ list' = None /\ thenTest' = None
  /\ creds' = [n \in Names |-> NoProfile]
  /\ UNCHANGED <<server, testResults, tests, dialogs, busy, steps>>

Retry ==
  /\ Clickable /\ list = None /\ creds = [n \in Names |-> NoProfile]
  /\ list' = Pending
  /\ UNCHANGED <<server, creds, thenTest, testResults, tests, dialogs, busy, steps>>

(* The form fetches the profile first; a form that is open then gives way. *)
handleEdit(n) ==
  /\ Clickable /\ busy = None /\ creds[n] # NoProfile
  /\ busy' = [op |-> "edit", name |-> n, state |-> "get"]
  /\ steps' = steps + 1
  /\ UNCHANGED <<server, creds, list, thenTest, testResults, tests, dialogs>>

Fetched ==
  /\ busy # None /\ busy.state = "get" /\ list = None
  /\ busy' = None
  /\ IF profiles[busy.name] # NoProfile
     THEN showCreate' = FALSE /\ editing' = busy.name /\ UNCHANGED list
     ELSE list' = Pending /\ UNCHANGED <<showCreate, editing>>
  /\ UNCHANGED <<server, creds, thenTest, testResults, tests, hostPrompt, inUse, confirming, steps>>

AddCredential ==
  /\ Clickable
  /\ editing' = None /\ showCreate' = TRUE
  /\ steps' = steps + 1
  /\ UNCHANGED <<server, creds, list, thenTest, testResults, tests, hostPrompt, inUse, confirming, busy>>

(* submit, onSaved: "Save" or "Save & test"; a failure keeps the form. *)
Save(n, h, test) ==
  /\ \/ editing = n /\ profiles[n] # NoProfile
     \/ editing = None /\ showCreate /\ profiles[n] = NoProfile
  /\ list = None
  /\ profiles' = [profiles EXCEPT ![n] = h]
  /\ editing' = None /\ showCreate' = FALSE
  /\ list' = Pending /\ thenTest' = IF test THEN n ELSE None
  /\ UNCHANGED <<used, creds, testResults, tests, hostPrompt, inUse, confirming, busy, steps>>

Cancel ==
  /\ editing # None \/ showCreate \/ inUse # None
  /\ editing' = None /\ showCreate' = FALSE /\ inUse' = None
  /\ UNCHANGED <<server, creds, list, thenTest, testResults, tests, hostPrompt, confirming, busy, steps>>

-----------------------------------------------------------------------------
(* Deleting: look where it is used, ask, delete, and if that fails look    *)
(* again.                                                                  *)
handleDelete(n) ==
  /\ Clickable /\ busy = None /\ creds[n] # NoProfile
  /\ busy' = [op |-> "delete", name |-> n, state |-> "check"]
  /\ steps' = steps + 1
  /\ UNCHANGED <<server, creds, list, thenTest, testResults, tests, dialogs>>

AskDeletion(n) == [busy EXCEPT !.state = "confirm"]
blockIfInUse ==
  /\ busy # None /\ busy.state \in {"check", "recheck"}
  /\ IF busy.name \in used
     THEN inUse' = busy.name /\ busy' = None /\ UNCHANGED confirming
     ELSE IF busy.state = "check"
     THEN confirming' = busy.name /\ busy' = AskDeletion(busy.name) /\ UNCHANGED inUse
     ELSE busy' = None /\ UNCHANGED <<inUse, confirming>>
  /\ UNCHANGED <<server, creds, list, thenTest, testResults, tests, hostPrompt, editing, showCreate, steps>>

SettleDeletion(yes) ==
  /\ confirming # None /\ confirming' = None
  /\ busy' = IF yes THEN [busy EXCEPT !.state = "delete"] ELSE None
  /\ UNCHANGED <<server, creds, list, thenTest, testResults, tests, hostPrompt, editing,
                 showCreate, inUse, steps>>

(* The server refuses with 409 while something refers to the profile. *)
ServeDeletion ==
  /\ busy # None /\ busy.state = "delete" /\ list = None
  /\ IF busy.name \in used \/ profiles[busy.name] = NoProfile
     THEN busy' = [busy EXCEPT !.state = "recheck"] /\ UNCHANGED <<profiles, list>>
     ELSE /\ profiles' = [profiles EXCEPT ![busy.name] = NoProfile]
          /\ busy' = None /\ list' = Pending
  /\ UNCHANGED <<used, creds, thenTest, testResults, tests, dialogs, steps>>

(* Other administrators refer to a profile, or move it to another host. *)
Others(n) ==
  /\ steps < MaxSteps /\ steps' = steps + 1
  /\ profiles[n] # NoProfile
  /\ \/ used' = used \cup {n} /\ n \notin used /\ UNCHANGED profiles
     \/ \E h \in Hosts \ {profiles[n]} : profiles' = [profiles EXCEPT ![n] = h] /\ UNCHANGED used
  /\ UNCHANGED <<creds, list, thenTest, testResults, tests, dialogs, busy>>

CredNext ==
  \/ \E n \in Names : \/ handleTestClick(n) \/ TestAnotherHost(n) \/ handleEdit(n)
                      \/ handleDelete(n) \/ Others(n)
                      \/ \E h \in Hosts \cup {AnyHost}, test \in BOOLEAN : Save(n, h, test)
  \/ HostPromptModal \/ ServeList \/ load \/ LoadFails \/ Retry \/ Fetched \/ AddCredential \/ Cancel
  \/ blockIfInUse \/ ServeDeletion
  \/ \E yes \in BOOLEAN : SettleDeletion(yes)
  \/ \E t \in tests : ServeTest(t) \/ runTest(t)

-----------------------------------------------------------------------------
(* runTest: tests of one profile overlap (the menu starts one while the    *)
(* button shows another) and end in any order.  What the table says is     *)
(* true of the host it names: "Connected" of a host that can be reached,   *)
(* and "Testing" only while a test of that host is under way; unless the   *)
(* row named another host than the profile is stored with by then.         *)
TestsAreToldApart ==
  \A n \in Names : testResults[n] # None =>
    LET r == testResults[n]
    IN  /\ r.status = "testing" => \E t \in tests : t.name = n /\ t.host = r.host
        /\ r.status = "ok" => r.host \in Reachable \/ r.stale
=============================================================================
