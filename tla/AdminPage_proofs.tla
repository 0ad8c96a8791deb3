-------------------------- MODULE AdminPage_proofs --------------------------
(***************************************************************************)
(* Proofs about the administration page, for any number of users, profiles *)
(* and hosts, any tree of a scope, and any numbers that are typed.         *)
(***************************************************************************)
EXTENDS AdminPage, SequenceTheorems, TLAPS

-----------------------------------------------------------------------------
(* SettingsPanel. *)
Settings == SettingsTab!Settings
Numeric  == SettingsTab!Numeric
Buffer   == SettingsTab!Buffer

SettingsTyped ==
  /\ stored \in [Settings -> Setting] /\ settings \in [Settings -> Setting]
  /\ typing \in Numeric \cup {NoRequest}
  /\ saving # NoRequest =>
       /\ typing = NoRequest
       /\ \E keys \in SUBSET Settings :
            saving \in [change : [keys -> Setting], forward : BOOLEAN,
                        answer : {NoRequest} \cup [Settings -> Setting]]

(* The change under way touches the buffer only if the app is told of it,  *)
(* and with a positive number; an answer is what is stored.                *)
ChangeInv ==
  saving # NoRequest =>
    /\ Buffer \in DOMAIN saving.change => saving.forward /\ saving.change[Buffer] > 0
    /\ saving.answer # NoRequest /\ ~unsure => saving.answer = stored

AgreeInv ==
  ~unsure =>
    /\ stored[Buffer] > 0
    /\ saving = NoRequest =>
         \A k \in Settings : k # typing =>
           settings[k] = stored[k] \/ (k \in Numeric /\ SettingsTab!Refused(k, settings[k]))
    /\ \/ logBufferLines = stored[Buffer]
       \/ saving # NoRequest /\ saving.forward

SettingsInv == SettingsTyped /\ ChangeInv /\ AgreeInv

LEMMA SettingsNamed ==
  /\ Settings = {"enable_workspaces", "stream_tail_lines", "log_buffer_lines", "ws_max_message_kb"}
  /\ Numeric = {"stream_tail_lines", "log_buffer_lines", "ws_max_message_kb"}
  /\ Buffer = "log_buffer_lines"
  /\ NoRequest \notin Settings
BY SettingsAssumption DEF Settings, Numeric, Buffer, SettingsTab!Settings, SettingsTab!Numeric,
   SettingsTab!Buffer, SettingsTab!Switch, SettingsTab!Tail, SettingsTab!Message

LEMMA SettingsInitially == Init => SettingsInv
<1> SUFFICES ASSUME Init PROVE SettingsInv
  OBVIOUS
<1>1. /\ stored = [k \in Settings |-> IF k = "enable_workspaces" THEN TRUE ELSE 4]
      /\ settings = stored /\ logBufferLines = stored[Buffer]
      /\ typing = NoRequest /\ saving = NoRequest
  <2>1. SettingsTab!SettingsInit
    BY DEF Init
  <2> QED
    BY <2>1 DEF SettingsTab!SettingsInit, SettingsTab!Default, Settings, Buffer, SettingsTab!Switch
<1>2. stored \in [Settings -> Setting] /\ stored[Buffer] = 4
  BY <1>1, SettingsNamed DEF Setting
<1>3. SettingsTyped /\ ChangeInv
  BY <1>1, <1>2 DEF SettingsTyped, ChangeInv
<1>4. AgreeInv
  <2>1. stored[Buffer] > 0
    BY <1>2
  <2> QED BY <1>1, <2>1 DEF AgreeInv
<1> QED BY <1>3, <1>4 DEF SettingsInv

(* A save that begins is a save, whatever it changes. *)
LEMMA SaveBegins ==
  ASSUME NEW keys \in SUBSET Settings, NEW change \in [keys -> Setting],
         NEW forward \in BOOLEAN, SettingsTab!Save(change, forward)
  PROVE  /\ saving' # NoRequest
         /\ saving' = [change |-> change, forward |-> forward, answer |-> NoRequest]
<1>1. saving' = [change |-> change, forward |-> forward, answer |-> NoRequest]
  BY DEF SettingsTab!Save
<1>2. saving' \in [change : [keys -> Setting], forward : BOOLEAN,
                   answer : {NoRequest} \cup [Settings -> Setting]]
  BY <1>1
<1> QED BY <1>1, <1>2, SettingsAssumption DEF Settings

LEMMA ToggleKeeps == SettingsInv /\ SettingsTab!toggle => SettingsInv'
<1> SUFFICES ASSUME SettingsInv, SettingsTab!toggle PROVE SettingsInv'
  OBVIOUS
<1> DEFINE change == [k \in {"enable_workspaces"} |-> ~settings["enable_workspaces"]]
<1>1. /\ saving = NoRequest /\ typing = NoRequest /\ SettingsTab!Save(change, FALSE)
      /\ UNCHANGED <<stored, settings, typing, logBufferLines, unsure>>
  BY DEF SettingsTab!toggle, SettingsTab!Enabled, SettingsTab!Switch
<1>2. change \in [{"enable_workspaces"} -> Setting]
  BY DEF Setting
<1>3. {"enable_workspaces"} \in SUBSET Settings /\ Buffer \notin DOMAIN change
  BY SettingsNamed
<1> HIDE DEF change
<1>4. /\ saving' # NoRequest
      /\ saving' = [change |-> change, forward |-> FALSE, answer |-> NoRequest]
  BY <1>1, <1>2, <1>3, SaveBegins
<1>5. SettingsTyped'
  BY <1>1, <1>2, <1>3, <1>4 DEF SettingsInv, SettingsTyped
<1>6. ChangeInv' /\ AgreeInv'
  BY <1>1, <1>3, <1>4 DEF SettingsInv, ChangeInv, AgreeInv
<1> QED BY <1>5, <1>6 DEF SettingsInv

LEMMA ResetKeeps == SettingsInv /\ SettingsTab!ResetToDefaults => SettingsInv'
<1> SUFFICES ASSUME SettingsInv, SettingsTab!ResetToDefaults PROVE SettingsInv'
  OBVIOUS
<1> DEFINE change == [k \in {"ws_max_message_kb"} |-> 4]
<1>1. /\ saving = NoRequest /\ typing = NoRequest /\ SettingsTab!Save(change, FALSE)
      /\ UNCHANGED <<stored, settings, typing, logBufferLines, unsure>>
  BY DEF SettingsTab!ResetToDefaults, SettingsTab!Enabled, SettingsTab!Default,
         SettingsTab!Message, SettingsTab!Switch
<1>2. change \in [{"ws_max_message_kb"} -> Setting]
  BY DEF Setting
<1>3. {"ws_max_message_kb"} \in SUBSET Settings /\ Buffer \notin DOMAIN change
  BY SettingsNamed
<1> HIDE DEF change
<1>4. /\ saving' # NoRequest
      /\ saving' = [change |-> change, forward |-> FALSE, answer |-> NoRequest]
  BY <1>1, <1>2, <1>3, SaveBegins
<1>5. SettingsTyped'
  BY <1>1, <1>2, <1>3, <1>4 DEF SettingsInv, SettingsTyped
<1>6. ChangeInv' /\ AgreeInv'
  BY <1>1, <1>3, <1>4 DEF SettingsInv, ChangeInv, AgreeInv
<1> QED BY <1>5, <1>6 DEF SettingsInv

(* What a field refuses is what the property calls refused. *)
LEMMA NotAccepted ==
  ASSUME NEW k \in Numeric, NEW v, ~SettingsTab!Accepts(k, v)
  PROVE  SettingsTab!Refused(k, v)
BY DEF SettingsTab!Accepts, SettingsTab!Refused, SettingsTab!MaxMessage

LEMMA SaveNumericKeeps == SettingsInv /\ SettingsTab!saveNumeric => SettingsInv'
<1> SUFFICES ASSUME SettingsInv, SettingsTab!saveNumeric PROVE SettingsInv'
  OBVIOUS
<1> DEFINE change == [k \in {typing} |-> settings[typing]]
<1>1. /\ typing # NoRequest /\ typing' = NoRequest /\ typing \in Numeric /\ saving = NoRequest
      /\ UNCHANGED <<stored, settings, logBufferLines, unsure>>
  BY DEF SettingsTab!saveNumeric, SettingsInv, SettingsTyped
<1>2. CASE SettingsTab!Accepts(typing, settings[typing])
  <2>1. SettingsTab!Save(change, TRUE) /\ settings[typing] > 0
    BY <1>2 DEF SettingsTab!saveNumeric, SettingsTab!Accepts
  <2>2. {typing} \in SUBSET Settings /\ typing \in Settings
    BY <1>1, SettingsNamed
  <2>3. change \in [{typing} -> Setting] /\ change[typing] = settings[typing]
    BY <2>2 DEF SettingsInv, SettingsTyped
  <2>4. Buffer \in DOMAIN change => change[Buffer] > 0
    BY <2>1
  <2> HIDE DEF change
  <2>5. /\ saving' # NoRequest
        /\ saving' = [change |-> change, forward |-> TRUE, answer |-> NoRequest]
    BY <2>1, <2>2, <2>3, SaveBegins
  <2>6. SettingsTyped'
    BY <1>1, <2>2, <2>3, <2>5 DEF SettingsInv, SettingsTyped
  <2>7. ChangeInv' /\ AgreeInv'
    BY <1>1, <2>4, <2>5 DEF SettingsInv, ChangeInv, AgreeInv
  <2> QED BY <2>6, <2>7 DEF SettingsInv
<1>3. CASE ~SettingsTab!Accepts(typing, settings[typing])
  <2>1. UNCHANGED saving
    BY <1>3 DEF SettingsTab!saveNumeric
  <2>2. SettingsTab!Refused(typing, settings[typing])
    BY <1>1, <1>3, NotAccepted
  <2>3. SettingsTyped' /\ ChangeInv'
    BY <1>1, <2>1 DEF SettingsInv, SettingsTyped, ChangeInv
  <2>4. \A k \in Settings : ~unsure =>
          settings[k] = stored[k] \/ (k \in Numeric /\ SettingsTab!Refused(k, settings[k]))
    BY <1>1, <2>2 DEF SettingsInv, AgreeInv
  <2>5. AgreeInv'
    BY <1>1, <2>1, <2>4 DEF SettingsInv, AgreeInv, SettingsTab!Refused
  <2> QED BY <2>3, <2>5 DEF SettingsInv
<1> QED BY <1>2, <1>3

LEMMA TypeKeeps ==
  ASSUME SettingsInv, NEW k \in Numeric, NEW v \in Numbers \cup {NaN}, SettingsTab!Type(k, v)
  PROVE  SettingsInv'
<1>1. /\ saving = NoRequest /\ typing \in {NoRequest, k} /\ typing' = k
      /\ settings' = [settings EXCEPT ![k] = v]
      /\ UNCHANGED <<stored, saving, logBufferLines, unsure>>
  BY DEF SettingsTab!Type, SettingsTab!Enabled
<1>2. v \in Setting /\ k \in Settings /\ k # NoRequest
  BY AdminAssumption, SettingsNamed DEF Setting
<1>3. SettingsTyped' /\ ChangeInv'
  BY <1>1, <1>2 DEF SettingsInv, SettingsTyped, ChangeInv
<1>4. \A j \in Settings : j # k => (settings'[j] = settings[j] /\ j # typing) \/ j = typing
  BY <1>1, <1>2 DEF SettingsInv, SettingsTyped
<1>5. typing # NoRequest => typing = k
  BY <1>1
<1>6. \A j \in Settings : j # NoRequest
  BY SettingsNamed
<1>7. AgreeInv'
  BY <1>1, <1>4, <1>5, <1>6 DEF SettingsInv, AgreeInv, SettingsTab!Refused
<1> QED BY <1>3, <1>7 DEF SettingsInv

LEMMA ServeSaveKeeps == SettingsInv /\ SettingsTab!ServeSave => SettingsInv'
<1> SUFFICES ASSUME SettingsInv, SettingsTab!ServeSave PROVE SettingsInv'
  OBVIOUS
<1>1. /\ saving # NoRequest /\ saving.answer = NoRequest
      /\ stored' = [k \in Settings |-> IF k \in DOMAIN saving.change THEN saving.change[k] ELSE stored[k]]
      /\ saving' = [saving EXCEPT !.answer = stored']
      /\ UNCHANGED <<settings, typing, logBufferLines, unsure>>
  BY DEF SettingsTab!ServeSave, Settings
<1>2. PICK keys \in SUBSET Settings :
        saving \in [change : [keys -> Setting], forward : BOOLEAN,
                   answer : {NoRequest} \cup [Settings -> Setting]]
  BY <1>1 DEF SettingsInv, SettingsTyped
<1>3. stored' \in [Settings -> Setting]
  BY <1>1, <1>2 DEF SettingsInv, SettingsTyped
<1>4. /\ saving'.change = saving.change /\ saving'.forward = saving.forward
      /\ saving'.answer = stored'
  BY <1>1, <1>2
<1>5. saving' \in [change : [keys -> Setting], forward : BOOLEAN,
                   answer : {NoRequest} \cup [Settings -> Setting]]
  BY <1>1, <1>2, <1>3
<1>6. saving' # NoRequest
  BY <1>5, SettingsAssumption DEF Settings
<1>7. Buffer \in Settings
  BY SettingsNamed
<1>8. SettingsTyped'
  BY <1>1, <1>3, <1>5 DEF SettingsInv, SettingsTyped
<1>9. ChangeInv'
  BY <1>1, <1>4 DEF SettingsInv, ChangeInv
<1>10. ~unsure => stored'[Buffer] > 0
  BY <1>1, <1>7 DEF SettingsInv, ChangeInv, AgreeInv
<1>11. ~unsure => logBufferLines = stored'[Buffer] \/ saving.forward
  BY <1>1, <1>7 DEF SettingsInv, ChangeInv, AgreeInv
<1>12. AgreeInv'
  BY <1>1, <1>4, <1>6, <1>10, <1>11 DEF AgreeInv
<1> QED BY <1>8, <1>9, <1>12 DEF SettingsInv

LEMMA TakeAnswerKeeps == SettingsInv /\ SettingsTab!TakeAnswer => SettingsInv'
<1> SUFFICES ASSUME SettingsInv, SettingsTab!TakeAnswer PROVE SettingsInv'
  OBVIOUS
<1>1. /\ saving # NoRequest /\ saving.answer # NoRequest /\ saving' = NoRequest
      /\ settings' = saving.answer
      /\ logBufferLines' = IF saving.forward /\ saving.answer[Buffer] > 0
                           THEN saving.answer[Buffer] ELSE logBufferLines
      /\ unsure' = (unsure /\ ~(saving.forward /\ saving.answer = stored /\ stored[Buffer] > 0))
      /\ UNCHANGED <<stored, typing>>
  BY DEF SettingsTab!TakeAnswer, SettingsTab!onSettingsChange, Buffer
<1>2. SettingsTyped' /\ ChangeInv'
  BY <1>1 DEF SettingsInv, SettingsTyped, ChangeInv
<1>3. ~unsure' => /\ saving.answer = stored /\ stored[Buffer] > 0
                  /\ logBufferLines' = stored[Buffer]
  BY <1>1 DEF SettingsInv, ChangeInv, AgreeInv
<1>4. AgreeInv'
  BY <1>1, <1>3 DEF AgreeInv
<1> QED BY <1>2, <1>4 DEF SettingsInv

LEMMA SettingsStepKeeps == SettingsInv /\ SettingsStep => SettingsInv'
<1> SUFFICES ASSUME SettingsInv, SettingsTab!SettingsNext PROVE SettingsInv'
  BY DEF SettingsStep
<1>1. CASE SettingsTab!SaveFails
  <2>1. saving' = NoRequest /\ unsure' /\ UNCHANGED <<stored, settings, typing>>
    BY <1>1 DEF SettingsTab!SaveFails
  <2> QED BY <2>1 DEF SettingsInv, SettingsTyped, ChangeInv, AgreeInv
<1>2. ASSUME NEW k \in Numeric, NEW v \in Numbers, SettingsTab!OtherAdministrator(k, v)
      PROVE  SettingsInv'
  <2>1. stored' = [stored EXCEPT ![k] = v] /\ unsure' /\ UNCHANGED <<settings, typing, saving>>
    BY <1>2 DEF SettingsTab!OtherAdministrator
  <2>2. v \in Setting
    BY AdminAssumption DEF Setting
  <2> QED BY <2>1, <2>2 DEF SettingsInv, SettingsTyped, ChangeInv, AgreeInv
<1> QED
  BY <1>1, <1>2, ToggleKeeps, SaveNumericKeeps, ResetKeeps, ServeSaveKeeps, TakeAnswerKeeps, TypeKeeps
  DEF SettingsTab!SettingsNext, Numeric

LEMMA SettingsKeep == SettingsInv /\ [Next]_vars => SettingsInv'
<1> SUFFICES ASSUME SettingsInv, [Next]_vars, UNCHANGED settingsVars PROVE SettingsInv'
  BY SettingsStepKeeps DEF Next, UsersStep, AccessStep, CredentialsStep, ProfileStep, vars
<1> QED
  BY DEF settingsVars, SettingsInv, SettingsTyped, ChangeInv, AgreeInv

(* Between saves the settings tab shows what is stored, but for what it    *)
(* refused, and the app's buffer is the stored one (AdminPage.tsx:1584-    *)
(* 1613, App.tsx).                                                         *)
THEOREM SettingsAgree == Spec => []SettledSettingsAgree
<1>1. SettingsInv => SettledSettingsAgree
  <2> SUFFICES ASSUME SettingsInv, saving = NoRequest, typing = NoRequest, ~unsure
               PROVE  /\ \A k \in Settings : settings[k] = stored[k]
                                              \/ (k \in Numeric /\ SettingsTab!Refused(k, settings[k]))
                      /\ logBufferLines = stored[Buffer]
    BY DEF SettledSettingsAgree, SettingsTab!SettledSettingsAgree, Settings, Numeric, Buffer
  <2> QED BY SettingsNamed DEF SettingsInv, AgreeInv
<1> QED BY <1>1, SettingsInitially, SettingsKeep, PTL DEF Spec

-----------------------------------------------------------------------------
(* CredentialsPanel. *)
Prof   == Hosts \cup {AnyHost, NoProfile}
Result == [status : {"testing", "ok", "error"}, host : Prof, stale : BOOLEAN]
Test   == [name : Names, host : Prof, asked : Hosts \cup {None}, stale : BOOLEAN,
           state : {"sent", "ok", "error"}]

CredTyped ==
  /\ profiles \in [Names -> Prof] /\ creds \in [Names -> Prof]
  /\ list \in {None, Pending} \cup [Names -> Prof]
  /\ testResults \in [Names -> Result \cup {None}]
  /\ tests \subseteq Test
  /\ hostPrompt \in Names \cup {None}

(* A test that was answered tells of the host it names, unless the server  *)
(* tested another one by then.                                             *)
Told(t) ==
  /\ t.asked # None => t.asked = t.host
  /\ t.state = "ok" => t.host \in Reachable \/ t.stale

TestsInv == CredTyped /\ (\A t \in tests : Told(t)) /\ TestsAreToldApart

LEMMA TestsInitially == Init => TestsInv
<1> SUFFICES ASSUME CredentialsTab!CredInit PROVE TestsInv
  BY DEF Init
<1>1. CredTyped
  BY DEF CredentialsTab!CredInit, CredTyped, Prof
<1>2. tests = {} /\ TestsAreToldApart
  BY DEF CredentialsTab!CredInit, TestsAreToldApart, CredentialsTab!TestsAreToldApart
<1> QED BY <1>1, <1>2 DEF TestsInv

(* A test that starts, of the host that is stored or of another. *)
LEMMA StartKeeps ==
  ASSUME TestsInv, NEW n \in Names, NEW shown_ \in Prof, NEW override \in {None, shown_},
         override \in Hosts \cup {None}, CredentialsTab!StartsTest(n, shown_, override)
  PROVE  /\ testResults' \in [Names -> Result \cup {None}] /\ tests' \subseteq Test
         /\ \A t \in tests' : Told(t)
         /\ TestsAreToldApart'
<1> DEFINE r == [status |-> "testing", host |-> shown_, stale |-> FALSE]
           new == [name |-> n, host |-> shown_, asked |-> override,
                   stale |-> override = None /\ shown_ # profiles[n], state |-> "sent"]
<1>1. testResults' = [testResults EXCEPT ![n] = r] /\ tests' = tests \cup {new}
  BY DEF CredentialsTab!StartsTest
<1>2. r \in Result /\ r.status = "testing" /\ r.host = shown_
  BY DEF Result
<1>3. new \in Test /\ Told(new) /\ new.name = n /\ new.host = shown_
  BY DEF Test, Told
<1> HIDE DEF r, new
<1>4. testResults' \in [Names -> Result \cup {None}] /\ tests' \subseteq Test
  BY <1>1, <1>2, <1>3 DEF TestsInv, CredTyped
<1>5. \A t \in tests' : Told(t)
  BY <1>1, <1>3 DEF TestsInv
<1>6. TestsAreToldApart'
  BY <1>1, <1>2, <1>3 DEF TestsInv, CredTyped, TestsAreToldApart, CredentialsTab!TestsAreToldApart
<1> QED BY <1>4, <1>5, <1>6

LEMMA ServeTestKeeps ==
  ASSUME TestsInv, NEW t \in tests, CredentialsTab!ServeTest(t)
  PROVE  TestsInv'
<1>1. PICK answer \in {"error", CredentialsTab!Reaches(IF t.asked = None THEN profiles[t.name] ELSE t.asked)} :
        tests' = (tests \ {t}) \cup {[t EXCEPT !.state = answer,
                    !.stale = @ \/ (t.asked = None /\ t.host # profiles[t.name])]}
  BY DEF CredentialsTab!ServeTest
<1> DEFINE u == [t EXCEPT !.state = answer,
                    !.stale = @ \/ (t.asked = None /\ t.host # profiles[t.name])]
<1>2. UNCHANGED <<profiles, creds, list, testResults, hostPrompt, editing, confirming, busy>>
  BY DEF CredentialsTab!ServeTest, CredentialsTab!server, CredentialsTab!dialogs
<1>3. t \in Test /\ Told(t)
  BY DEF TestsInv, CredTyped
<1>4. answer \in {"ok", "error"}
  BY DEF CredentialsTab!Reaches
<1>5. u \in Test /\ u.name = t.name /\ u.host = t.host /\ u.asked = t.asked /\ u.state = answer
      /\ u.stale = (t.stale \/ (t.asked = None /\ t.host # profiles[t.name]))
  BY <1>3, <1>4 DEF Test
<1>6. Told(u)
  BY <1>3, <1>4, <1>5 DEF Told, CredentialsTab!Reaches
<1>7. tests' = (tests \ {t}) \cup {u}
  BY <1>1
<1> HIDE DEF u
<1>8. CredTyped'
  BY <1>2, <1>5, <1>7 DEF TestsInv, CredTyped
<1>9. TestsAreToldApart'
  BY <1>2, <1>5, <1>7 DEF TestsInv, CredTyped, TestsAreToldApart, CredentialsTab!TestsAreToldApart
<1> QED BY <1>6, <1>7, <1>8, <1>9 DEF TestsInv

LEMMA RunTestKeeps ==
  ASSUME TestsInv, NEW t \in tests, CredentialsTab!runTest(t)
  PROVE  TestsInv'
<1> DEFINE r == [status |-> t.state, host |-> t.host, stale |-> t.stale]
<1>1. /\ t.state # "sent" /\ tests' = tests \ {t}
      /\ testResults' = [testResults EXCEPT ![t.name] = r]
      /\ UNCHANGED <<profiles, creds, list, hostPrompt, editing, confirming, busy>>
  BY DEF CredentialsTab!runTest, CredentialsTab!Result, CredentialsTab!server, CredentialsTab!dialogs
<1>2. t \in Test /\ Told(t)
  BY DEF TestsInv, CredTyped
<1>3. r \in Result /\ r.status # "testing" /\ (r.status = "ok" => r.host \in Reachable \/ r.stale)
  BY <1>1, <1>2 DEF Test, Result, Told
<1>4. t.name \in Names
  BY <1>2 DEF Test
<1> HIDE DEF r
<1>5. CredTyped'
  BY <1>1, <1>3, <1>4 DEF TestsInv, CredTyped
<1>6. TestsAreToldApart'
  BY <1>1, <1>3, <1>4 DEF TestsInv, CredTyped, TestsAreToldApart, CredentialsTab!TestsAreToldApart
<1> QED BY <1>1, <1>5, <1>6 DEF TestsInv

(* Clicks and dialogs that start a test. *)
LEMMA TestClickKeeps ==
  ASSUME TestsInv, NEW n \in Names, CredentialsTab!handleTestClick(n)
  PROVE  TestsInv'
<1>1. CredentialsTab!TestClick(n) /\ UNCHANGED <<profiles, creds, list, editing, confirming, busy>>
  BY DEF CredentialsTab!handleTestClick, CredentialsTab!server
<1>2. CASE creds[n] = AnyHost
  BY <1>1, <1>2 DEF CredentialsTab!TestClick, TestsInv, CredTyped, TestsAreToldApart,
     CredentialsTab!TestsAreToldApart
<1>3. CASE creds[n] # AnyHost
  <2>1. CredentialsTab!StartsTest(n, creds[n], None) /\ UNCHANGED hostPrompt /\ creds[n] \in Prof
    BY <1>1, <1>3 DEF CredentialsTab!TestClick, TestsInv, CredTyped
  <2> QED BY <1>1, <2>1, StartKeeps DEF TestsInv, CredTyped
<1> QED BY <1>2, <1>3

LEMMA HostPromptKeeps == TestsInv /\ CredentialsTab!HostPromptModal => TestsInv'
<1> SUFFICES ASSUME TestsInv, CredentialsTab!HostPromptModal PROVE TestsInv'
  OBVIOUS
<1>1. /\ hostPrompt \in Names /\ hostPrompt' = None
      /\ UNCHANGED <<profiles, creds, list, editing, confirming, busy>>
  BY DEF CredentialsTab!HostPromptModal, CredentialsTab!server, TestsInv, CredTyped
<1>2. ASSUME NEW h \in Hosts, CredentialsTab!StartsTest(hostPrompt, h, h) PROVE TestsInv'
  BY <1>1, <1>2, StartKeeps DEF TestsInv, CredTyped, Prof
<1>3. CASE UNCHANGED <<testResults, tests>>
  BY <1>1, <1>3 DEF TestsInv, CredTyped, TestsAreToldApart, CredentialsTab!TestsAreToldApart
<1> QED BY <1>2, <1>3 DEF CredentialsTab!HostPromptModal

LEMMA LoadKeeps == TestsInv /\ CredentialsTab!load => TestsInv'
<1> SUFFICES ASSUME TestsInv, CredentialsTab!load PROVE TestsInv'
  OBVIOUS
<1>1. /\ list \in [Names -> Prof] /\ creds' = list /\ list' = None
      /\ UNCHANGED <<profiles, editing, confirming, busy>>
  BY DEF CredentialsTab!load, CredentialsTab!server, TestsInv, CredTyped
<1>2. CASE thenTest \in Names /\ hostPrompt' = thenTest /\ UNCHANGED <<testResults, tests>>
  BY <1>1, <1>2 DEF TestsInv, CredTyped, TestsAreToldApart, CredentialsTab!TestsAreToldApart
<1>3. CASE /\ thenTest \in Names /\ UNCHANGED hostPrompt
           /\ CredentialsTab!StartsTest(thenTest, list[thenTest], None)
  <2>1. list[thenTest] \in Prof
    BY <1>1, <1>3
  <2> QED BY <1>1, <1>3, <2>1, StartKeeps DEF TestsInv, CredTyped
<1>4. CASE UNCHANGED <<hostPrompt, testResults, tests>>
  BY <1>1, <1>4 DEF TestsInv, CredTyped, TestsAreToldApart, CredentialsTab!TestsAreToldApart
<1> QED BY <1>2, <1>3, <1>4 DEF CredentialsTab!load, CredentialsTab!Listed

(* Everything else leaves the tests and their results alone. *)
LEMMA OthersKeepTests ==
  TestsInv /\ UNCHANGED <<testResults, tests>> /\ CredTyped' => TestsInv'
BY DEF TestsInv, TestsAreToldApart, CredentialsTab!TestsAreToldApart

LEMMA FormsKeep ==
  ASSUME TestsInv,
         \/ \E n \in Names : \/ CredentialsTab!TestAnotherHost(n) \/ CredentialsTab!handleEdit(n)
                             \/ CredentialsTab!handleDelete(n) \/ CredentialsTab!Others(n)
                             \/ \E h \in Hosts \cup {AnyHost}, test \in BOOLEAN : CredentialsTab!Save(n, h, test)
         \/ CredentialsTab!ServeList \/ CredentialsTab!LoadFails \/ CredentialsTab!Retry
         \/ CredentialsTab!Fetched \/ CredentialsTab!AddCredential \/ CredentialsTab!Cancel
  PROVE  TestsInv'
<1> USE DEF TestsInv, CredTyped, Prof, CredentialsTab!server, CredentialsTab!dialogs
<1>1. ASSUME NEW n \in Names, CredentialsTab!TestAnotherHost(n) PROVE TestsInv'
  BY <1>1, OthersKeepTests DEF CredentialsTab!TestAnotherHost
<1>2. ASSUME NEW n \in Names, CredentialsTab!handleEdit(n) PROVE TestsInv'
  BY <1>2, OthersKeepTests DEF CredentialsTab!handleEdit
<1>3. ASSUME NEW n \in Names, CredentialsTab!handleDelete(n) PROVE TestsInv'
  BY <1>3, OthersKeepTests DEF CredentialsTab!handleDelete
<1>4. ASSUME NEW n \in Names, CredentialsTab!Others(n) PROVE TestsInv'
  BY <1>4, OthersKeepTests DEF CredentialsTab!Others
<1>5. ASSUME NEW n \in Names, NEW h \in Hosts \cup {AnyHost}, NEW test \in BOOLEAN,
             CredentialsTab!Save(n, h, test)
      PROVE  TestsInv'
  BY <1>5, OthersKeepTests DEF CredentialsTab!Save
<1>6. CASE CredentialsTab!ServeList
  BY <1>6, OthersKeepTests DEF CredentialsTab!ServeList
<1>7. CASE CredentialsTab!LoadFails
  BY <1>7, OthersKeepTests DEF CredentialsTab!LoadFails
<1>8. CASE CredentialsTab!Retry
  BY <1>8, OthersKeepTests DEF CredentialsTab!Retry
<1>9. CASE CredentialsTab!Fetched
  BY <1>9, OthersKeepTests DEF CredentialsTab!Fetched
<1>10. CASE CredentialsTab!AddCredential \/ CredentialsTab!Cancel
  BY <1>10, OthersKeepTests DEF CredentialsTab!AddCredential, CredentialsTab!Cancel
<1> QED BY <1>1, <1>2, <1>3, <1>4, <1>5, <1>6, <1>7, <1>8, <1>9, <1>10

LEMMA DeletionKeeps ==
  ASSUME TestsInv,
         \/ CredentialsTab!blockIfInUse \/ CredentialsTab!ServeDeletion
         \/ \E yes \in BOOLEAN : CredentialsTab!SettleDeletion(yes)
  PROVE  TestsInv'
<1> USE DEF TestsInv, CredTyped, Prof, CredentialsTab!server, CredentialsTab!dialogs
<1>1. CASE CredentialsTab!blockIfInUse
  BY <1>1, OthersKeepTests DEF CredentialsTab!blockIfInUse, CredentialsTab!AskDeletion
<1>2. CASE CredentialsTab!ServeDeletion
  BY <1>2, OthersKeepTests DEF CredentialsTab!ServeDeletion
<1>3. ASSUME NEW yes \in BOOLEAN, CredentialsTab!SettleDeletion(yes) PROVE TestsInv'
  BY <1>3, OthersKeepTests DEF CredentialsTab!SettleDeletion
<1> QED BY <1>1, <1>2, <1>3

LEMMA TestsKeep == TestsInv /\ [Next]_vars => TestsInv'
<1> SUFFICES ASSUME TestsInv, [Next]_vars PROVE TestsInv'
  OBVIOUS
<1>1. CASE CredentialsTab!CredNext
  BY <1>1, TestClickKeeps, HostPromptKeeps, LoadKeeps, FormsKeep, DeletionKeeps, ServeTestKeeps,
     RunTestKeeps DEF CredentialsTab!CredNext
<1>2. CASE UNCHANGED credVars
  BY <1>2 DEF credVars, TestsInv, CredTyped, TestsAreToldApart, CredentialsTab!TestsAreToldApart
<1> QED
  BY <1>1, <1>2 DEF Next, UsersStep, AccessStep, CredentialsStep, ProfileStep, SettingsStep, vars

(* The results of connection tests are told apart by the host they are of  *)
(* (AdminPage.tsx, CredentialsPanel's runTest).                            *)
THEOREM TestsAlwaysToldApart == Spec => []TestsAreToldApart
<1>1. TestsInv => TestsAreToldApart
  BY DEF TestsInv
<1> QED BY <1>1, TestsInitially, TestsKeep, PTL DEF Spec
-----------------------------------------------------------------------------
(* UsersPanel.  Requests are numbered as they are sent. *)
RequestsTyped ==
  /\ sent \in Nat /\ latest \in Nat /\ since \in Nat /\ latest < sent
  /\ \A l \in loads : DOMAIN l = {"n", "rows"} /\ l.n \in Nat /\ l.n < sent
  /\ \A c \in calls : "state" \in DOMAIN c

WriteDone == \E c \in calls : c.state = "ok"

(* The rows of an answer that is still to be taken, and those that are     *)
(* shown, are the accounts, or another list is coming: one is under way,   *)
(* or will be asked for when the answer to a write is taken.               *)
AnswersInv ==
  \A l \in loads : l.rows # Pending /\ l.n >= since /\ l.n >= latest =>
    \/ l.rows = accounts
    \/ WriteDone
    \/ \E m \in loads : m.n > l.n
RowsInv ==
  ~failed /\ latest >= since =>
    \/ users = accounts
    \/ WriteDone
    \/ \E m \in loads : m.n >= latest

ListsInv == RequestsTyped /\ AnswersInv /\ RowsInv

LEMMA ListsInitially == Init => ListsInv
<1> SUFFICES ASSUME UsersTab!UsersInit PROVE ListsInv
  BY DEF Init
<1> DEFINE l0 == [n |-> 0, rows |-> Pending]
<1>1. loads = {l0} /\ calls = {} /\ sent = 1 /\ latest = 0 /\ since = 0
  BY DEF UsersTab!UsersInit
<1>2. DOMAIN l0 = {"n", "rows"} /\ l0.n = 0 /\ l0.rows = Pending
  OBVIOUS
<1> HIDE DEF l0
<1> QED BY <1>1, <1>2 DEF ListsInv, RequestsTyped, AnswersInv, RowsInv

(* A list that is asked for comes after all others. *)
LEMMA NewLoadKeeps ==
  ASSUME ListsInv, loads' = UsersTab!NewLoad, sent' = sent + 1,
         calls' \subseteq calls,
         UNCHANGED <<accounts, users, failed, latest, since>>
  PROVE  ListsInv'
<1> DEFINE new == [n |-> sent, rows |-> Pending]
<1>1. loads' = loads \cup {new}
  BY DEF UsersTab!NewLoad
<1>2. DOMAIN new = {"n", "rows"} /\ new.n = sent /\ new.rows = Pending
  OBVIOUS
<1> HIDE DEF new
<1>3. RequestsTyped'
  BY <1>1, <1>2 DEF ListsInv, RequestsTyped
<1>4. \A l \in loads : new.n > l.n
  BY <1>2 DEF ListsInv, RequestsTyped
<1>5. AnswersInv'
  BY <1>1, <1>2, <1>4 DEF AnswersInv
<1>6. RowsInv'
  BY <1>1, <1>2 DEF ListsInv, RequestsTyped, RowsInv
<1> QED BY <1>3, <1>5, <1>6 DEF ListsInv

(* Requests that come and go while no answer "ok" is taken. *)
LEMMA CallsKeep ==
  ASSUME ListsInv, UNCHANGED <<accounts, users, failed, loads, latest, since>>,
         sent' \in {sent, sent + 1},
         \A c \in calls' : "state" \in DOMAIN c,
         \A c \in calls : c.state = "ok" => c \in calls'
  PROVE  ListsInv'
<1>1. RequestsTyped' /\ (WriteDone => WriteDone')
  BY DEF ListsInv, RequestsTyped, WriteDone
<1> QED BY <1>1 DEF ListsInv, AnswersInv, RowsInv

LEMMA SendKeeps ==
  ASSUME NEW op, NEW u, NEW access, NEW id, UsersTab!Send(op, u, access, id), RequestsTyped
  PROVE  /\ \A c \in calls' : "state" \in DOMAIN c
         /\ \A c \in calls : c.state = "ok" => c \in calls'
<1> DEFINE new == [op |-> op, user |-> u, access |-> access, from |-> id, state |-> "sent"]
<1>1. calls' = calls \cup {new}
  BY DEF UsersTab!Send
<1>2. "state" \in DOMAIN new
  OBVIOUS
<1> HIDE DEF new
<1> QED BY <1>1, <1>2 DEF RequestsTyped

LEMMA DialogsKeep ==
  ASSUME ListsInv,
         \/ \E u \in Users : UsersTab!OpenDialog(u)
         \/ \E u \in Users, op \in {"disable", "delete"} : UsersTab!Ask(u, op)
         \/ UsersTab!Submit \/ UsersTab!Cancel
         \/ \E access \in Accesses : UsersTab!Choose(access)
         \/ \E yes \in BOOLEAN : UsersTab!Settle(yes)
  PROVE  ListsInv'
<1>1. ASSUME UNCHANGED <<accounts, users, failed, loads, latest, since, calls>>,
             sent' \in {sent, sent + 1}
      PROVE  ListsInv'
  BY <1>1, CallsKeep DEF ListsInv, RequestsTyped
<1>2. CASE UsersTab!Submit
  BY <1>2, SendKeeps, CallsKeep DEF UsersTab!Submit, ListsInv
<1>3. ASSUME NEW yes \in BOOLEAN, UsersTab!Settle(yes) PROVE ListsInv'
  <2>1. CASE yes
    BY <2>1, <1>3, SendKeeps, CallsKeep DEF UsersTab!Settle, ListsInv
  <2>2. CASE ~yes
    BY <2>2, <1>1, <1>3 DEF UsersTab!Settle
  <2> QED BY <2>1, <2>2
<1>4. CASE \E u \in Users : UsersTab!OpenDialog(u)
  BY <1>1, <1>4 DEF UsersTab!OpenDialog
<1>5. CASE \E u \in Users, op \in {"disable", "delete"} : UsersTab!Ask(u, op)
  BY <1>1, <1>5 DEF UsersTab!Ask
<1>6. CASE UsersTab!Cancel \/ \E access \in Accesses : UsersTab!Choose(access)
  BY <1>1, <1>6 DEF UsersTab!Cancel, UsersTab!Choose, UsersTab!Fill
<1> QED BY <1>2, <1>3, <1>4, <1>5, <1>6

(* A write, whether its answer arrives or not. *)
LEMMA ServeWriteKeeps ==
  ASSUME ListsInv, NEW c \in calls, UsersTab!ServeWrite(c)
  PROVE  ListsInv'
<1>1. /\ c.state = "sent" /\ "state" \in DOMAIN c
      /\ UNCHANGED <<users, failed, loads, sent, latest>>
  BY DEF UsersTab!ServeWrite, ListsInv, RequestsTyped
<1>2. \E answer \in {"ok", "error"} :
        /\ calls' = (calls \ {c}) \cup {[c EXCEPT !.state = answer]}
        /\ \/ answer = "error" /\ UNCHANGED <<accounts, since>>
           \/ since' = IF answer = "error" THEN sent ELSE since
  BY DEF UsersTab!ServeWrite
<1>3. PICK answer \in {"ok", "error"} :
        /\ calls' = (calls \ {c}) \cup {[c EXCEPT !.state = answer]}
        /\ \/ answer = "error" /\ UNCHANGED <<accounts, since>>
           \/ since' = IF answer = "error" THEN sent ELSE since
  BY <1>2
<1> DEFINE d == [c EXCEPT !.state = answer]
<1>4. "state" \in DOMAIN d /\ d.state = answer
  BY <1>1
<1>5. calls' = (calls \ {c}) \cup {d}
  BY <1>3
<1> HIDE DEF d
<1>6. RequestsTyped'
  BY <1>1, <1>3, <1>4, <1>5 DEF ListsInv, RequestsTyped
<1>7. CASE answer = "ok"
  BY <1>1, <1>3, <1>4, <1>5, <1>6, <1>7 DEF ListsInv, AnswersInv, RowsInv, WriteDone
<1>8. CASE answer = "error" /\ UNCHANGED <<accounts, since>>
  BY <1>1, <1>4, <1>5, <1>8, CallsKeep DEF ListsInv, RequestsTyped
<1>9. CASE answer = "error" /\ since' = sent
  BY <1>1, <1>6, <1>9 DEF ListsInv, RequestsTyped, AnswersInv, RowsInv
<1> QED BY <1>3, <1>7, <1>8, <1>9

LEMMA OthersKeepLists ==
  ASSUME ListsInv, NEW u \in Users, UsersTab!OtherAdministrator(u)
  PROVE  ListsInv'
BY DEF UsersTab!OtherAdministrator, ListsInv, RequestsTyped, AnswersInv, RowsInv

LEMMA ServeListKeeps ==
  ASSUME ListsInv, NEW l \in loads, UsersTab!ServeList(l)
  PROVE  ListsInv'
<1> DEFINE k == [l EXCEPT !.rows = accounts]
<1>1. DOMAIN l = {"n", "rows"}
  BY DEF ListsInv, RequestsTyped
<1>2. DOMAIN k = {"n", "rows"} /\ k.n = l.n /\ k.rows = accounts
  BY <1>1
<1>3. /\ loads' = (loads \ {l}) \cup {k}
      /\ UNCHANGED <<accounts, users, failed, calls, sent, latest, since>>
  BY DEF UsersTab!ServeList
<1> HIDE DEF k
<1>4. RequestsTyped'
  BY <1>2, <1>3 DEF ListsInv, RequestsTyped
<1>5. \A m \in loads : \E m2 \in loads' : m2.n = m.n
  BY <1>2, <1>3
<1>6. AnswersInv'
  BY <1>2, <1>3, <1>5 DEF ListsInv, AnswersInv, WriteDone
<1>7. RowsInv'
  BY <1>3, <1>5 DEF ListsInv, RowsInv, WriteDone
<1> QED BY <1>4, <1>6, <1>7 DEF ListsInv

LEMMA AnswerWriteKeeps ==
  ASSUME ListsInv, NEW c \in calls, UsersTab!AnswerWrite(c)
  PROVE  ListsInv'
<1>1. CASE c.state = "ok"
  BY <1>1, NewLoadKeeps DEF UsersTab!AnswerWrite, UsersTab!Reload
<1>2. CASE c.state # "ok"
  BY <1>2, CallsKeep DEF UsersTab!AnswerWrite, ListsInv, RequestsTyped
<1> QED BY <1>1, <1>2

(* An answer that is taken, or a request that failed; an answer older than *)
(* one before it makes the rows wait for a list that is still to be sent.  *)
LEMMA AnsweredKeeps ==
  ASSUME ListsInv, NEW l \in loads, UsersTab!TakeList(l) \/ UsersTab!FailList(l)
  PROVE  ListsInv'
<1>1. /\ loads' = loads \ {l} /\ latest' = l.n
      /\ since' = IF l.n < latest THEN sent ELSE since
      /\ UNCHANGED <<accounts, calls, sent>>
      /\ failed' \/ (users' = l.rows /\ l.rows # Pending)
  BY DEF UsersTab!TakeList, UsersTab!FailList, UsersTab!Answered
<1>2. RequestsTyped'
  BY <1>1 DEF ListsInv, RequestsTyped
<1>3. CASE l.n < latest
  BY <1>1, <1>2, <1>3 DEF ListsInv, RequestsTyped, AnswersInv, RowsInv
<1>4. CASE ~(l.n < latest)
  <2>1. since' = since /\ l.n >= latest
    BY <1>1, <1>4 DEF ListsInv, RequestsTyped
  <2>2. AnswersInv'
    <3> SUFFICES ASSUME NEW m \in loads', m.rows # Pending, m.n >= since, m.n >= l.n,
                        m.rows # accounts, ~WriteDone
                 PROVE  \E k \in loads' : k.n > m.n
      BY <1>1, <2>1 DEF AnswersInv, WriteDone
    <3>1. m \in loads /\ m.n \in Nat /\ l.n \in Nat /\ latest \in Nat
      BY <1>1 DEF ListsInv, RequestsTyped
    <3>2. PICK k \in loads : k.n > m.n
      BY <3>1, <2>1 DEF ListsInv, AnswersInv
    <3>3. k # l
      BY <3>1, <3>2 DEF ListsInv, RequestsTyped
    <3> QED BY <1>1, <3>2, <3>3
  <2>3. RowsInv'
    <3> SUFFICES ASSUME ~failed', l.n >= since, users' # accounts, ~WriteDone
                 PROVE  \E k \in loads' : k.n >= l.n
      BY <1>1, <2>1 DEF RowsInv, WriteDone
    <3>1. PICK k \in loads : k.n > l.n
      BY <1>1, <2>1 DEF ListsInv, AnswersInv
    <3>2. l.n \in Nat /\ k.n \in Nat
      BY DEF ListsInv, RequestsTyped
    <3>3. k # l /\ k.n >= l.n
      BY <3>1, <3>2
    <3> QED BY <1>1, <3>3
  <2> QED BY <1>2, <2>2, <2>3 DEF ListsInv
<1> QED BY <1>3, <1>4

LEMMA ListsKeep == ListsInv /\ [Next]_vars => ListsInv'
<1> SUFFICES ASSUME ListsInv, [Next]_vars PROVE ListsInv'
  OBVIOUS
<1>1. CASE UsersTab!UsersNext
  <2>1. CASE UsersTab!Retry
    BY <2>1, NewLoadKeeps DEF UsersTab!Retry
  <2> QED
    BY <1>1, <2>1, DialogsKeep, ServeWriteKeeps, OthersKeepLists, ServeListKeeps,
       AnswerWriteKeeps, AnsweredKeeps DEF UsersTab!UsersNext
<1>2. CASE UNCHANGED usersVars
  BY <1>2 DEF usersVars, ListsInv, RequestsTyped, AnswersInv, RowsInv, WriteDone
<1> QED
  BY <1>1, <1>2 DEF Next, UsersStep, AccessStep, CredentialsStep, ProfileStep, SettingsStep, vars

(* Once every answer has come, the rows are the accounts of the server,    *)
(* unless an answer was lost, others wrote since, or answers were taken    *)
(* out of order (AdminPage.tsx, UsersPanel's load).                        *)
THEOREM RowsSettle == Spec => []SettledRowsAreCurrent
<1>1. ListsInv => SettledRowsAreCurrent
  BY DEF ListsInv, RowsInv, WriteDone, SettledRowsAreCurrent, UsersTab!SettledRowsAreCurrent
<1> QED BY <1>1, ListsInitially, ListsKeep, PTL DEF Spec
-----------------------------------------------------------------------------
(* AccessScope. *)
Above(p)   == Picker!Above(p)
Subtree(p) == Picker!Subtree(p)
Access(s)  == Picker!Access(s)

(* Of what lies above a path, the shorter lies above the longer. *)
LEMMA AboveIsOrdered ==
  ASSUME NEW r \in Seq(STRING), NEW i \in 1..Len(r), NEW j \in 1..Len(r), i < j
  PROVE  SubSeq(r, 1, i) \in Above(SubSeq(r, 1, j))
<1>1. SubSeq(SubSeq(r, 1, j), 1, i) = SubSeq(r, 1, i)
  <2>1. 1 \in 1..Len(r) /\ 1 \in 1..(j - 1 + 1) /\ i \in 1..(j - 1 + 1)
    OBVIOUS
  <2>2. SubSeq(SubSeq(r, 1, j), 1, i) = SubSeq(r, 1 + 1 - 1, 1 + i - 1)
    BY <2>1, SubSeqOfSubSeq
  <2> QED BY <2>2
<1>2. Len(SubSeq(r, 1, j)) = j
  OBVIOUS
<1> QED BY <1>1, <1>2 DEF Above, Picker!Above

LEMMA AboveIsTransitive ==
  ASSUME NEW p, NEW q, NEW r \in Paths, p \in Above(q), q \in Above(r)
  PROVE  p \in Above(r)
<1>1. r \in Seq(STRING)
  BY PathsAssumption
<1>2. PICK j \in 1..(Len(r) - 1) : q = SubSeq(r, 1, j)
  BY DEF Above, Picker!Above
<1>3. Len(q) = j
  BY <1>1, <1>2
<1>4. PICK i \in 1..(j - 1) : p = SubSeq(q, 1, i)
  BY <1>3 DEF Above, Picker!Above
<1>5. p = SubSeq(r, 1, i)
  <2>1. 1 \in 1..Len(r) /\ j \in 1..Len(r) /\ 1 \in 1..(j - 1 + 1) /\ i \in 1..(j - 1 + 1)
    BY <1>1
  <2>2. SubSeq(SubSeq(r, 1, j), 1, i) = SubSeq(r, 1 + 1 - 1, 1 + i - 1)
    BY <1>1, <2>1, SubSeqOfSubSeq
  <2> QED BY <1>2, <1>4, <2>2
<1>6. i \in 1..(Len(r) - 1)
  BY <1>1
<1> QED BY <1>5, <1>6 DEF Above, Picker!Above

(* Two entries that both grant a path: one is above the other. *)
LEMMA GrantsMeetInLine ==
  ASSUME NEW p \in Paths, NEW q \in Paths, NEW r \in Subtree(p) \cap Subtree(q)
  PROVE  p = q \/ p \in Above(q) \/ q \in Above(p)
<1>1. r \in Paths /\ r \in Seq(STRING) /\ (r = p \/ p \in Above(r)) /\ (r = q \/ q \in Above(r))
  BY PathsAssumption DEF Subtree, Picker!Subtree, Above
<1>2. CASE r = p \/ r = q
  BY <1>1, <1>2
<1>3. CASE p \in Above(r) /\ q \in Above(r)
  <2>1. PICK i \in 1..(Len(r) - 1) : p = SubSeq(r, 1, i)
    BY <1>3 DEF Above, Picker!Above
  <2>2. PICK j \in 1..(Len(r) - 1) : q = SubSeq(r, 1, j)
    BY <1>3 DEF Above, Picker!Above
  <2>3. i \in 1..Len(r) /\ j \in 1..Len(r)
    BY <1>1
  <2>4. i < j \/ i = j \/ j < i
    OBVIOUS
  <2> QED BY <1>1, <2>1, <2>2, <2>3, <2>4, AboveIsOrdered
<1> QED BY <1>1, <1>2, <1>3

(* No entry that is selected lies above another one; what is remembered is *)
(* what is selected, unless that is everything.                            *)
Apart(s) == \A p, q \in s : p \notin Above(q)
ScopeInv ==
  /\ tree \subseteq Paths
  /\ limited \subseteq Paths /\ Apart(limited)
  /\ scope = limited \/ scope = {Full}

LEMMA NotAboveItself ==
  ASSUME NEW p \in Paths
  PROVE  p \notin Above(p)
<1>1. p \in Seq(STRING)
  BY PathsAssumption
<1> SUFFICES ASSUME NEW i \in 1..(Len(p) - 1), p = SubSeq(p, 1, i) PROVE FALSE
  BY DEF Above, Picker!Above
<1>2. Len(SubSeq(p, 1, i)) = i /\ i # Len(p)
  BY <1>1
<1> QED BY <1>2

LEMMA ScopeInitially == Init => ScopeInv
<1> SUFFICES ASSUME Picker!ScopeInit PROVE ScopeInv
  BY DEF Init
<1>1. tree = {} /\ limited = scope \ {Full} /\ scope \in {{Full}, {}} \cup {{p} : p \in Paths}
  BY DEF Picker!ScopeInit
<1>2. CASE scope \in {{Full}, {}}
  BY <1>1, <1>2 DEF ScopeInv, Apart
<1>3. CASE \E p \in Paths : scope = {p}
  BY <1>1, <1>3, PathsAssumption, NotAboveItself DEF ScopeInv, Apart
<1> QED BY <1>1, <1>2, <1>3

(* A click on a row that is not selected. *)
LEMMA PickedRow ==
  ASSUME ScopeInv, NEW p \in Paths, Picker!PickRow(p), p \notin scope
  PROVE  /\ Full \notin scope /\ scope = limited /\ p \in scope'
         /\ scope' \subseteq scope \cup {p}
         /\ \A q \in scope \ scope' : p \in Above(q)
         /\ Apart(scope') /\ scope' = limited'
<1>1. Full \notin scope /\ scope = limited /\ Full # p
  BY PathsAssumption DEF Picker!PickRow, Picker!Picking, ScopeInv
<1>2. Above(p) \cap scope = {}
  BY DEF Picker!PickRow, Picker!RowShown, Above
<1>3. scope' = (scope \ ({q \in scope \ {Full} : p \in Above(q)} \cup Above(p) \cup {Full})) \cup {p}
      /\ limited' = scope'
  BY DEF Picker!PickRow, Picker!Select, Picker!Toggled, Picker!Below, Above
<1>4. \A q \in scope \ scope' : p \in Above(q)
  BY <1>1, <1>2, <1>3
<1>5. \A q \in scope' : q = p \/ (q \in scope /\ p \notin Above(q) /\ q \notin Above(p))
  BY <1>1, <1>3
<1>6. Apart(scope')
  BY <1>1, <1>5, NotAboveItself DEF ScopeInv, Apart
<1> QED BY <1>1, <1>3, <1>4, <1>6

(* Entries that are taken out, by a click or a chip. *)
LEMMA RemovedEntries ==
  ASSUME ScopeInv,
         \/ \E p \in Paths : Picker!PickRow(p) /\ p \in scope
         \/ \E gone \in SUBSET scope : Picker!ScopeChips(gone)
  PROVE  Full \notin scope /\ scope = limited /\ scope' \subseteq scope /\ limited' = scope'
BY DEF ScopeInv, Picker!PickRow, Picker!ScopeChips, Picker!Picking, Picker!Select, Picker!Toggled

LEMMA ScopeKeeps == ScopeInv /\ [Next]_vars => ScopeInv'
<1> SUFFICES ASSUME ScopeInv, [Next]_vars PROVE ScopeInv'
  OBVIOUS
<1>1. CASE Picker!LoadScopeTree
  BY <1>1 DEF Picker!LoadScopeTree, ScopeInv, Apart
<1>2. CASE Picker!AccessScopeField \/ Picker!PickRole
  BY <1>2 DEF Picker!AccessScopeField, Picker!PickRole, ScopeInv, Apart
<1>3. ASSUME NEW p \in Paths, Picker!PickRow(p), p \notin scope PROVE ScopeInv'
  <2>1. scope' \subseteq Paths
    BY <1>3, PickedRow DEF ScopeInv
  <2> QED BY <1>3, <2>1, PickedRow DEF ScopeInv, Picker!PickRow, Picker!Select, Apart
<1>4. ASSUME \/ \E p \in Paths : Picker!PickRow(p) /\ p \in scope
             \/ \E gone \in SUBSET scope : Picker!ScopeChips(gone)
      PROVE  ScopeInv'
  <2>1. UNCHANGED tree
    BY <1>4 DEF Picker!PickRow, Picker!ScopeChips, Picker!Select
  <2> QED BY <1>4, <2>1, RemovedEntries DEF ScopeInv, Apart
<1>5. CASE UNCHANGED scopeVars
  BY <1>5 DEF scopeVars, ScopeInv, Apart
<1> QED
  BY <1>1, <1>2, <1>3, <1>4, <1>5 DEF Next, UsersStep, AccessStep, CredentialsStep, ProfileStep,
     SettingsStep, vars, Picker!ScopeNext

(* What a click that selects an entry grants, and one that removes some. *)
LEMMA SelectedGrants ==
  ASSUME ScopeInv, NEW p \in Paths, Picker!PickRow(p), p \notin scope
  PROVE  Access(scope') = Access(scope) \cup Access(scope' \ scope)
<1>1. /\ scope \subseteq Paths /\ Full \notin scope /\ p \in scope' /\ Full # p
      /\ scope' \subseteq scope \cup {p} /\ \A q \in scope \ scope' : p \in Above(q)
  BY PickedRow, PathsAssumption DEF ScopeInv
<1>2. \A q \in scope \ scope' : Subtree(q) \subseteq Subtree(p)
  <2> SUFFICES ASSUME NEW q \in scope \ scope', NEW r \in Subtree(q) PROVE r \in Subtree(p)
    OBVIOUS
  <2>1. p \in Above(q) /\ r \in Paths /\ (r = q \/ q \in Above(r))
    BY <1>1 DEF Subtree, Picker!Subtree, Above
  <2>2. p \in Above(r)
    BY <2>1, AboveIsTransitive
  <2> QED BY <2>1, <2>2 DEF Subtree, Picker!Subtree, Above
<1>3. \A s : Access(s) = UNION {Subtree(q) : q \in s \ {Full}}
  BY DEF Access, Picker!Access, Subtree
<1>4. p \in (scope' \ scope) \ {Full} /\ p \in scope' \ {Full}
  BY <1>1
<1> HIDE DEF Subtree
<1>5. ASSUME NEW r \in Access(scope') PROVE r \in Access(scope) \cup Access(scope' \ scope)
  BY <1>1, <1>3, <1>5
<1>6. ASSUME NEW r \in Access(scope) PROVE r \in Access(scope')
  <2>1. PICK q \in scope \ {Full} : r \in Subtree(q)
    BY <1>3, <1>6
  <2>2. \/ q \in scope' \ {Full}
        \/ r \in Subtree(p)
    BY <1>2, <2>1
  <2> QED BY <1>3, <1>4, <2>1, <2>2
<1>7. ASSUME NEW r \in Access(scope' \ scope) PROVE r \in Access(scope')
  BY <1>3, <1>7
<1> QED BY <1>5, <1>6, <1>7

LEMMA RemovedTakesAway ==
  ASSUME scope \subseteq Paths, Apart(scope), Full \notin scope, scope' \subseteq scope
  PROVE  Access(scope') = Access(scope) \ Access(scope \ scope')
<1>1. \A s : Access(s) = UNION {Subtree(q) : q \in s \ {Full}}
  BY DEF Access, Picker!Access, Subtree
<1>2. \A p, q \in scope : p # q => Subtree(p) \cap Subtree(q) = {}
  BY GrantsMeetInLine DEF Apart
<1>3. ASSUME NEW r \in Access(scope') PROVE r \in Access(scope) \ Access(scope \ scope')
  <2>1. PICK q \in scope' \ {Full} : r \in Subtree(q)
    BY <1>1, <1>3
  <2>2. r \in Access(scope)
    BY <1>1, <2>1
  <2>3. ASSUME r \in Access(scope \ scope') PROVE FALSE
    <3>1. PICK p \in (scope \ scope') \ {Full} : r \in Subtree(p)
      BY <1>1, <2>3
    <3>2. p \in scope /\ q \in scope /\ p # q
      BY <2>1, <3>1
    <3> QED BY <1>2, <2>1, <3>1, <3>2
  <2> QED BY <2>2, <2>3
<1>4. ASSUME NEW r \in Access(scope) \ Access(scope \ scope') PROVE r \in Access(scope')
  BY <1>1, <1>4
<1> QED BY <1>3, <1>4

LEMMA ClicksKept == ScopeInv /\ [Next]_vars => [Picker!ClickKept]_scopeVars
<1> SUFFICES ASSUME ScopeInv, [Next]_vars PROVE [Picker!ClickKept]_scopeVars
  OBVIOUS
<1>1. (scope \subseteq Paths /\ Apart(scope) /\ scope = limited) \/ scope = {Full}
  BY DEF ScopeInv
<1>2. CASE Picker!LoadScopeTree \/ Picker!PickRole
  <2>1. scope' = scope
    BY <1>2 DEF Picker!LoadScopeTree, Picker!PickRole
  <2>2. \A s : Access({}) = {} /\ Access(s) = Access(s) \ Access({})
    BY DEF Access, Picker!Access
  <2> QED BY <2>1, <2>2 DEF Picker!ClickKept, Access
<1>3. CASE Picker!AccessScopeField
  <2>1. /\ scope' = IF Full \in scope THEN limited ELSE {Full}
        /\ limited' = limited
    BY <1>3 DEF Picker!AccessScopeField
  <2>2. CASE Full \in scope
    BY <2>1, <2>2 DEF Picker!ClickKept, Access
  <2>3. CASE Full \notin scope
    BY <1>1, <2>1, <2>3 DEF Picker!ClickKept, Access
  <2> QED BY <2>2, <2>3
<1>4. ASSUME NEW p \in Paths, Picker!PickRow(p), p \notin scope PROVE Picker!ClickKept
  <2>1. Full \notin scope /\ Full \notin scope' /\ scope' \ scope # {}
    BY <1>4, PickedRow, PathsAssumption
  <2>2. Access(scope') = Access(scope) \cup Access(scope' \ scope)
    BY <1>4, SelectedGrants
  <2> QED BY <2>1, <2>2 DEF Picker!ClickKept, Access
<1>5. ASSUME \/ \E p \in Paths : Picker!PickRow(p) /\ p \in scope
             \/ \E gone \in SUBSET scope : Picker!ScopeChips(gone)
      PROVE  Picker!ClickKept
  <2>1. Full \notin scope /\ Full \notin scope' /\ scope' \subseteq scope /\ scope' \ scope = {}
    BY <1>5, RemovedEntries
  <2>2. Access(scope') = Access(scope) \ Access(scope \ scope')
    BY <1>1, <2>1, RemovedTakesAway
  <2> QED BY <2>1, <2>2 DEF Picker!ClickKept, Access
<1>6. CASE UNCHANGED scopeVars
  BY <1>6
<1> QED
  BY <1>2, <1>3, <1>4, <1>5, <1>6 DEF Next, UsersStep, AccessStep, CredentialsStep, ProfileStep,
     SettingsStep, vars, Picker!ScopeNext

(* A selection grants what its clicks say (AdminPage.tsx, ScopePicker and  *)
(* ScopeChips), for trees of any depth.                                    *)
THEOREM AccessAlwaysFollows == Spec => AccessFollowsClicks
<1>1. ScopeInv /\ [Next]_vars => [Picker!ClickKept]_(Picker!scopeVars)
  BY ClicksKept DEF scopeVars, Picker!scopeVars
<1> QED
  BY <1>1, ScopeInitially, ScopeKeeps, PTL
     DEF Spec, AccessFollowsClicks, Picker!AccessFollowsClicks
-----------------------------------------------------------------------------
(* CredentialForm. *)
Ssh       == Profile!SshKeys
Azure     == Profile!AzureKeys
AllMethods == Profile!Methods
AllKeys   == Profile!Keys
Secret    == Profile!Sensitive
Field     == Values \cup {Empty}

LEMMA KeysNamed ==
  /\ Ssh = {"host", "port", "password"}
  /\ Secret = {"password", "account_key", "connection_string", "sas_token"}
  /\ AllMethods = {"account-key", "connection-string", "sas-token", "managed-identity"}
  /\ Azure["account-key"] = {"account_name", "account_key"}
  /\ Azure["connection-string"] = {"connection_string"}
  /\ Azure["sas-token"] = {"account_name", "sas_token"}
  /\ Azure["managed-identity"] = {"account_name"}
  /\ AllKeys = Ssh \cup {"account_name", "account_key", "connection_string", "sas_token"}
<1>1. /\ Ssh = {"host", "port", "password"}
      /\ Secret = {"password", "account_key", "connection_string", "sas_token"}
  BY DEF Ssh, Profile!SshKeys, Secret, Profile!Sensitive
<1>2. AllMethods = {"account-key", "connection-string", "sas-token", "managed-identity"}
  BY DEF AllMethods, Profile!Methods, Profile!AzureKeys
<1>3. /\ Azure["account-key"] = {"account_name", "account_key"}
      /\ Azure["connection-string"] = {"connection_string"}
      /\ Azure["sas-token"] = {"account_name", "sas_token"}
      /\ Azure["managed-identity"] = {"account_name"}
  BY DEF Azure, Profile!AzureKeys
<1>4. AllKeys = Ssh \cup UNION {Azure[m] : m \in AllMethods}
  BY DEF AllKeys, Profile!Keys, Ssh, Azure, AllMethods
<1>5. UNION {Azure[m] : m \in AllMethods}
        = {"account_name", "account_key", "connection_string", "sas_token"}
  <2>1. UNION {Azure[m] : m \in AllMethods}
          = Azure["account-key"] \cup Azure["connection-string"] \cup Azure["sas-token"]
            \cup Azure["managed-identity"]
    BY <1>2
  <2> QED BY <1>3, <2>1
<1> QED BY <1>1, <1>2, <1>3, <1>4, <1>5

(* The form as it is filled in.  Until the server has saved, and unless    *)
(* another administrator did or an answer was lost, what it was given is   *)
(* what the profile still shows, and the row that is read is the profile.  *)
Filled == <<targetType, original, fields, removed, method, hostScope>>
Server == <<config, row, lost, others>>
Before == {"open", "asked", "read"}
Azures == targetType = "azure-storage"

FormTyped ==
  /\ targetType \in {"ssh", "azure-storage"} /\ method \in AllMethods
  /\ hostScope \in {"server", "any"} /\ form \in Before \cup {"saved", "closed"}
  /\ config \in [AllKeys -> Field] /\ fields \in [AllKeys -> Field]
  /\ row \in [AllKeys -> Field]
  /\ removed \subseteq Ssh \cap Secret
  /\ others \subseteq Ssh /\ (others # {} => ~Azures)
  /\ original \in [AllKeys -> Field \cup {Redacted}]

FilledInv ==
  /\ Azures => removed = {}
  /\ \A k \in removed : fields[k] = Empty
  /\ hostScope = "any" => fields["host"] = Empty
  /\ original["host"] # Redacted
  /\ form # "open" =>
       \A k \in AllKeys : Profile!Required(k) => fields[k] # Empty \/ Profile!isStored(k)

GivenInv ==
  /\ Azures => \A k \in Ssh : config[k] = Empty /\ row[k] = Empty
  /\ form \in Before /\ others = {} /\ ~lost => original = Profile!Shown(config)
  /\ form = "read" /\ others = {} => row = config

ProfileInv == FormTyped /\ FilledInv /\ GivenInv /\ ReopensAsSaved

LEMMA FormInitially == Init => ProfileInv
<1> SUFFICES ASSUME Profile!FormInit PROVE ProfileInv
  BY DEF Init
<1>1. /\ targetType \in {"ssh", "azure-storage"} /\ config \in Profile!Profiles(targetType)
      /\ original = Profile!Shown(config) /\ fields = Profile!initialFields(config)
      /\ method = (IF targetType = "ssh" THEN "account-key" ELSE Profile!detectAzureAuth(config))
      /\ hostScope = Profile!FirstScope(config)
      /\ removed = {} /\ form = "open" /\ others = {} /\ row = Profile!Unread
  BY DEF Profile!FormInit
<1>2. \A keys : Profile!Only(keys) \subseteq
        {c \in [AllKeys -> Field] : \A k \in AllKeys \ keys : c[k] = Empty}
  BY DEF Profile!Only, AllKeys, Field
<1>3. \E keys : /\ config \in Profile!Only(keys)
                /\ targetType = "azure-storage" => keys \cap Ssh = {}
  <2>1. CASE targetType = "ssh"
    BY <1>1, <2>1 DEF Profile!Profiles
  <2>2. CASE targetType = "azure-storage"
    <3>1. PICK m \in AllMethods : config \in Profile!Only(Azure[m])
      BY <1>1, <2>2 DEF Profile!Profiles, AllMethods, Azure
    <3>2. Azure[m] \cap Ssh = {}
      BY KeysNamed
    <3> QED BY <3>1, <3>2
  <2> QED BY <1>1, <2>1, <2>2
<1>4. config \in [AllKeys -> Field]
      /\ (targetType = "azure-storage" => \A k \in Ssh : config[k] = Empty)
  BY <1>2, <1>3, KeysNamed
<1>5. original \in [AllKeys -> Field \cup {Redacted}] /\ original["host"] = config["host"]
  BY <1>1, <1>4, KeysNamed DEF Profile!Shown, AllKeys, Secret
<1>6. fields \in [AllKeys -> Field] /\ fields["host"] = config["host"]
  BY <1>1, <1>4, KeysNamed DEF Profile!initialFields, AllKeys, Secret, Field
<1>7. method \in AllMethods
  BY <1>1, KeysNamed DEF Profile!detectAzureAuth
<1>8. hostScope \in {"server", "any"} /\ (hostScope = "any" => config["host"] = Empty)
  BY <1>1 DEF Profile!FirstScope
<1>9. config["host"] # Redacted
  BY <1>4, KeysNamed, ProfileAssumption DEF Field
<1>10. row \in [AllKeys -> Field] /\ \A k \in Ssh : row[k] = Empty
  BY <1>1, KeysNamed DEF Profile!Unread, AllKeys, Field
<1>11. FormTyped
  BY <1>1, <1>4, <1>5, <1>6, <1>7, <1>8, <1>10 DEF FormTyped, Before, Azures
<1>12. FilledInv /\ GivenInv
  BY <1>1, <1>4, <1>5, <1>6, <1>8, <1>9, <1>10 DEF FilledInv, GivenInv, Before, Azures
<1>13. ReopensAsSaved
  BY <1>1 DEF ReopensAsSaved, Profile!ReopensAsSaved
<1> QED BY <1>11, <1>12, <1>13 DEF ProfileInv

Active == Profile!activeKeys
LEMMA KeysActive ==
  ASSUME FormTyped
  PROVE  /\ Active \subseteq AllKeys
         /\ ~Azures => Active = Ssh
         /\ Azures => Active = Azure[method]
  BY DEF Active, Profile!activeKeys, AllKeys, Profile!Keys, AllMethods, Ssh, Azure, FormTyped, Azures

(* While the form is filled in. *)
LEMMA FillingKeeps ==
  ASSUME ProfileInv,
         \/ \E k \in AllKeys, v \in Field : Profile!setField(k, v)
         \/ \E k \in AllKeys : Profile!toggleRemoved(k)
         \/ Profile!changeHostScope
         \/ \E m \in AllMethods : Profile!changeMethod(m)
  PROVE  ProfileInv'
<1>1. form = "open" /\ form' = "open" /\ UNCHANGED <<targetType, original, Server>>
  BY DEF Profile!setField, Profile!toggleRemoved, Profile!changeHostScope, Profile!changeMethod,
         Server, Profile!serverVars
<1>2. ReopensAsSaved'
  BY <1>1 DEF ReopensAsSaved, Profile!ReopensAsSaved
<1>3. GivenInv'
  BY <1>1 DEF ProfileInv, GivenInv, Profile!Shown, Server, Azures
<1>4. "host" \in AllKeys /\ "host" \notin Secret
  BY KeysNamed
<1>5. ASSUME NEW k \in AllKeys, NEW v \in Field, Profile!setField(k, v) PROVE FormTyped' /\ FilledInv'
  <2>1. /\ fields' = [fields EXCEPT ![k] = v] /\ k \notin removed
        /\ UNCHANGED <<removed, method, hostScope>> /\ (k = "host" => hostScope = "server")
    BY <1>5 DEF Profile!setField
  <2>2. FormTyped'
    BY <1>1, <2>1 DEF ProfileInv, FormTyped, Server, Azures
  <2> QED BY <1>1, <1>4, <2>1, <2>2 DEF ProfileInv, FormTyped, FilledInv, Azures
<1>6. ASSUME NEW k \in AllKeys, Profile!toggleRemoved(k) PROVE FormTyped' /\ FilledInv'
  <2>1. /\ ~Azures /\ k \in Ssh \cap Secret /\ fields' = [fields EXCEPT ![k] = Empty]
        /\ removed' = IF k \in removed THEN removed \ {k} ELSE removed \cup {k}
        /\ UNCHANGED <<method, hostScope>>
    BY <1>6 DEF Profile!toggleRemoved, Profile!activeKeys, Ssh, Secret, Azures
  <2>2. FormTyped'
    BY <1>1, <2>1 DEF ProfileInv, FormTyped, Server, Azures, Field
  <2> QED BY <1>1, <1>4, <2>1, <2>2 DEF ProfileInv, FormTyped, FilledInv, Azures
<1>7. ASSUME Profile!changeHostScope PROVE FormTyped' /\ FilledInv'
  <2>1. /\ UNCHANGED <<removed, method>> /\ hostScope' \in {"server", "any"}
        /\ fields' = IF hostScope' = "any" THEN [fields EXCEPT !["host"] = Empty] ELSE fields
    BY <1>7 DEF Profile!changeHostScope
  <2>2. FormTyped'
    BY <1>1, <1>4, <2>1 DEF ProfileInv, FormTyped, Field, Server, Azures
  <2>3. /\ \A k \in removed : fields'[k] = Empty
        /\ hostScope' = "any" => fields'["host"] = Empty
    BY <1>1, <1>4, <2>1 DEF ProfileInv, FormTyped, FilledInv
  <2>4. FilledInv'
    BY <1>1, <2>1, <2>3 DEF ProfileInv, FilledInv, Azures
  <2> QED BY <2>2, <2>4
<1>8. ASSUME NEW m \in AllMethods, Profile!changeMethod(m) PROVE FormTyped' /\ FilledInv'
  <2>1. method' \in AllMethods /\ UNCHANGED <<fields, removed, hostScope>>
    BY <1>8 DEF Profile!changeMethod
  <2> QED BY <1>1, <2>1 DEF ProfileInv, FormTyped, FilledInv, Server, Azures
<1> QED BY <1>2, <1>3, <1>5, <1>6, <1>7, <1>8 DEF ProfileInv

LEMMA OtherSaveKeeps ==
  ASSUME ProfileInv, NEW k \in AllKeys, NEW v \in Field, Profile!OtherAdministrator(k, v)
  PROVE  ProfileInv'
<1>1. /\ ~Azures /\ k \in Ssh /\ config' = [config EXCEPT ![k] = v] /\ others' = {k}
      /\ UNCHANGED <<Filled, form, row, lost>>
  BY DEF Profile!OtherAdministrator, Profile!filledIn, Ssh, Azures, Filled
<1>2. FormTyped'
  BY <1>1 DEF ProfileInv, FormTyped, Filled, Azures
<1>3. FilledInv'
  BY <1>1 DEF ProfileInv, FilledInv, Filled, Azures, Profile!Required, Profile!isStored,
     Profile!activeKeys
<1>4. GivenInv'
  BY <1>1 DEF GivenInv, Filled, Azures
<1>5. ReopensAsSaved'
  BY <1>1 DEF ReopensAsSaved, Profile!ReopensAsSaved
<1> QED BY <1>2, <1>3, <1>4, <1>5 DEF ProfileInv

(* The form is sent, the row read, the save refused, and the answer comes  *)
(* or is lost: the profile stays as it is.                                 *)
LEMMA WaitingKeeps ==
  ASSUME ProfileInv,
         \/ Profile!submit \/ Profile!GetCredential \/ Profile!Refuse
         \/ Profile!onSaved \/ Profile!AnswerLost
  PROVE  ProfileInv'
<1>1. UNCHANGED <<Filled, config, others>> /\ form' \in Before \cup {"closed"}
  BY DEF Profile!submit, Profile!GetCredential, Profile!Refuse, Profile!onSaved, Profile!AnswerLost,
     Profile!filledIn, Profile!serverVars, Filled, Before
<1>2. row' \in {row, config, Profile!Unread}
  BY DEF Profile!submit, Profile!GetCredential, Profile!Refuse, Profile!onSaved, Profile!AnswerLost,
     Profile!serverVars
<1>3. /\ Profile!Unread \in [AllKeys -> Field] /\ \A k \in Ssh : Profile!Unread[k] = Empty
  BY KeysNamed DEF Profile!Unread, AllKeys, Field
<1>4. FormTyped'
  BY <1>1, <1>2, <1>3 DEF ProfileInv, FormTyped, Filled, Azures
<1>5. FilledInv'
  <2>1. form # "open" \/ form' = "open" \/
          \A k \in AllKeys : Profile!Required(k) => fields[k] # Empty \/ Profile!isStored(k)
    BY DEF Profile!submit, Profile!GetCredential, Profile!Refuse, Profile!onSaved,
       Profile!AnswerLost, AllKeys
  <2>2. \A k : (Profile!Required(k)' <=> Profile!Required(k))
               /\ (Profile!isStored(k)' <=> Profile!isStored(k))
    BY <1>1 DEF Filled, Profile!Required, Profile!isStored, Profile!activeKeys
  <2> QED BY <1>1, <2>1, <2>2 DEF ProfileInv, FilledInv, Filled, Azures
<1>6. GivenInv'
  <2>1. Azures' => \A k \in Ssh : config'[k] = Empty /\ row'[k] = Empty
    BY <1>1, <1>2, <1>3 DEF ProfileInv, GivenInv, Filled, Azures
  <2>2. form' \in Before /\ ~lost' => form \in Before /\ ~lost
    BY DEF Profile!submit, Profile!GetCredential, Profile!Refuse, Profile!onSaved,
       Profile!AnswerLost, Before, Profile!serverVars
  <2>3. Profile!Shown(config)' = Profile!Shown(config)
    BY <1>1 DEF Profile!Shown
  <2>4. form' = "read" => row' = config
    BY DEF Profile!submit, Profile!GetCredential, Profile!Refuse, Profile!onSaved,
       Profile!AnswerLost
  <2> QED BY <1>1, <2>1, <2>2, <2>3, <2>4 DEF ProfileInv, GivenInv, Filled
<1>7. ReopensAsSaved'
  <2>1. form' \in {"saved", "closed"} => form = "saved" /\ UNCHANGED lost
    BY DEF Profile!submit, Profile!GetCredential, Profile!Refuse, Profile!onSaved,
       Profile!AnswerLost, Profile!serverVars
  <2> QED
    BY <1>1, <2>1 DEF ProfileInv, ReopensAsSaved, Profile!ReopensAsSaved, Filled, Profile!activeKeys,
       Profile!isStored, Profile!detectAzureAuth, Profile!FirstScope
<1> QED BY <1>4, <1>5, <1>6, <1>7 DEF ProfileInv

(* What a save leaves of each key: of a secret that is neither typed nor   *)
(* removed what the row had, and of anything else what the form says.        *)
LEMMA SavedKeys ==
  ASSUME ProfileInv, Profile!SaveCredential
  PROVE  /\ config' \in [AllKeys -> Field]
         /\ \A k \in Active \cap removed : config'[k] = Empty
         /\ \A k \in (Active \cap Secret) \ removed :
              config'[k] = IF fields[k] = Empty THEN row[k] ELSE fields[k]
         /\ \A k \in Active \ Secret :
              config'[k] = IF fields[k] = original[k] THEN row[k] ELSE fields[k]
         /\ \A k \in AllKeys \ Active :
              config'[k] = IF targetType = "azure-storage" /\ k \notin Ssh /\ original[k] # Empty
                           THEN Empty ELSE row[k]
<1>1. /\ config' = [k \in AllKeys |-> IF Profile!Patched(k) = "leave" THEN row[k]
                                      ELSE IF Profile!Patched(k) = "null" THEN Empty
                                      ELSE Profile!Patched(k)]
  BY DEF Profile!SaveCredential, Profile!Merged, Profile!buildEditPatch, Profile!Leave, Profile!Null, AllKeys
<1>2. /\ row \in [AllKeys -> Field] /\ fields \in [AllKeys -> Field]
      /\ removed \subseteq Secret /\ targetType \in {"ssh", "azure-storage"}
  BY DEF ProfileInv, FormTyped
<1>3. Active \subseteq AllKeys
  BY KeysActive DEF ProfileInv
<1>4. \A x \in Field : x # "leave" /\ x # "null"
  BY ProfileAssumption DEF Field, Profile!Leave, Profile!Null
<1>0. Active \cap Profile!OfOtherMethods = {}
  BY DEF Active, Profile!OfOtherMethods
<1>5. ASSUME NEW k \in Active \cap removed PROVE Profile!Patched(k) = "null"
  BY <1>0 DEF Profile!Patched, Active, Profile!Null
<1>6. ASSUME NEW k \in (Active \cap Secret) \ removed
      PROVE  Profile!Patched(k) = IF fields[k] = Empty THEN "leave" ELSE fields[k]
  BY <1>0 DEF Profile!Patched, Active, Secret, Profile!Leave
<1>7. ASSUME NEW k \in Active \ Secret
      PROVE  Profile!Patched(k) = IF fields[k] = original[k] THEN "leave"
                                  ELSE IF fields[k] = Empty THEN "null" ELSE fields[k]
  BY <1>0, <1>2 DEF Profile!Patched, Active, Secret, Profile!Leave, Profile!Null
<1>8. ASSUME NEW k \in AllKeys \ Active
      PROVE  Profile!Patched(k) = IF targetType = "azure-storage" /\ k \notin Ssh /\ original[k] # Empty
                                  THEN "null" ELSE "leave"
  <2>1. k \in Profile!OfOtherMethods <=> targetType # "ssh" /\ k \notin Ssh
    BY <1>8 DEF Profile!OfOtherMethods, AllKeys, Active, Ssh
  <2>2. Profile!Patched(k) = IF k \in Profile!OfOtherMethods /\ original[k] # Empty
                             THEN "null" ELSE "leave"
    BY <1>8 DEF Profile!Patched, Active, Profile!Leave, Profile!Null
  <2> QED BY <1>2, <2>1, <2>2
<1>9. \A k \in Active \cap removed : config'[k] = Empty
  BY <1>1, <1>3, <1>5
<1>10. \A k \in (Active \cap Secret) \ removed :
         config'[k] = IF fields[k] = Empty THEN row[k] ELSE fields[k]
  BY <1>1, <1>2, <1>3, <1>4, <1>6
<1>11. \A k \in Active \ Secret :
         config'[k] = IF fields[k] = original[k] THEN row[k] ELSE fields[k]
  BY <1>1, <1>2, <1>3, <1>4, <1>7
<1>12. \A k \in AllKeys \ Active :
         config'[k] = IF targetType = "azure-storage" /\ k \notin Ssh /\ original[k] # Empty
                      THEN Empty ELSE row[k]
  BY <1>1, <1>8
<1>13. \A k \in AllKeys : config'[k] \in Field
  BY <1>2, <1>9, <1>10, <1>11, <1>12 DEF Field
<1> QED BY <1>1, <1>9, <1>10, <1>11, <1>12, <1>13

LEMMA SaveKeeps ==
  ASSUME ProfileInv, Profile!SaveCredential
  PROVE  ProfileInv'
<1>1. /\ form = "read" /\ form' = "saved" /\ row' = Profile!Unread
      /\ UNCHANGED <<Filled, lost, others>>
      /\ \A k \in AllKeys : Profile!Required(k) => fields[k] # Empty \/ Profile!isStored(k)
  BY DEF Profile!SaveCredential, Profile!filledIn, Filled, ProfileInv, FilledInv
<1>0. UNCHANGED <<targetType, original, fields, removed, method, hostScope, lost, others>>
  BY <1>1 DEF Filled
<1>2. FormTyped' /\ FilledInv' /\ GivenInv'
  <2>1. row' \in [AllKeys -> Field] /\ \A k \in Ssh : row'[k] = Empty
    BY <1>1, KeysNamed DEF Profile!Unread, AllKeys, Field
  <2>2. FormTyped'
    BY <1>0, <1>1, <2>1, SavedKeys DEF ProfileInv, FormTyped, Azures
  <2>3. FilledInv'
    BY <1>0, <1>1 DEF ProfileInv, FilledInv, Azures, Profile!Required, Profile!isStored,
       Profile!activeKeys
  <2>4. Azures => \A k \in Ssh : config'[k] = Empty
    <3> SUFFICES ASSUME Azures, NEW k \in Ssh PROVE config'[k] = Empty
      OBVIOUS
    <3>1. k \in AllKeys /\ k \notin Active /\ row[k] = Empty
      BY KeysNamed, KeysActive DEF ProfileInv, FormTyped, GivenInv
    <3> QED BY <3>1, SavedKeys
  <2>5. GivenInv'
    BY <1>0, <1>1, <2>1, <2>4 DEF GivenInv, Before, Azures
  <2> QED BY <2>2, <2>3, <2>5
<1>3. ReopensAsSaved'
  <2> SUFFICES ASSUME others = {}, ~lost
               PROVE  (/\ targetType = "azure-storage" =>
                            /\ Profile!detectAzureAuth(config) = method
                            /\ \A k \in AllKeys \ Azure[method] : config[k] = Empty
                       /\ targetType = "ssh" => Profile!FirstScope(config) = hostScope
                       /\ \A k \in Active \ Secret : config[k] = fields[k]
                       /\ \A k \in Active \cap Secret :
                            (config[k] # Empty) <=> (fields[k] # Empty \/ Profile!isStored(k)))'
    BY <1>0 DEF ReopensAsSaved, Profile!ReopensAsSaved, AllKeys, Azure, Active, Secret
  <2>0. row = config
    BY <1>1 DEF ProfileInv, GivenInv
  <2>1. /\ method \in AllMethods /\ targetType \in {"ssh", "azure-storage"}
        /\ hostScope \in {"server", "any"}
        /\ config \in [AllKeys -> Field] /\ fields \in [AllKeys -> Field]
        /\ targetType = "azure-storage" => removed = {} /\ \A k \in Ssh : config[k] = Empty
        /\ \A k \in removed : fields[k] = Empty
        /\ hostScope = "any" => fields["host"] = Empty
        /\ original["host"] # Redacted
    BY DEF ProfileInv, FormTyped, FilledInv, GivenInv, Azures
  <2>2. /\ Active \subseteq AllKeys
        /\ targetType = "ssh" => Active = Ssh
        /\ targetType = "azure-storage" => Active = Azure[method]
    BY KeysActive DEF ProfileInv, Azures
  <2>3. Active' = Active
    BY <1>0 DEF Active, Profile!activeKeys
  <2>4. \A k \in AllKeys : original[k] = IF k \in Secret /\ config[k] # Empty THEN Redacted ELSE config[k]
    BY <1>1 DEF ProfileInv, GivenInv, Before, Profile!Shown, AllKeys, Secret
  <2>5. \A k \in AllKeys : config[k] # Redacted
    BY <2>1, ProfileAssumption DEF Field
  <2>6. \A k \in Active \ Secret : config'[k] = fields[k]
    BY <2>0, <2>2, <2>4, SavedKeys
  <2>7. ASSUME NEW k \in Active \cap Secret
        PROVE  (config'[k] # Empty) <=> (fields[k] # Empty \/ (original[k] = Redacted /\ k \notin removed))
    <3>1. CASE k \in removed
      BY <2>0, <2>1, <3>1, SavedKeys
    <3>2. CASE k \notin removed
      BY <2>0, <2>2, <2>4, <2>5, <3>2, SavedKeys
    <3> QED BY <3>1, <3>2
  <2>8. \A k \in AllKeys : Profile!isStored(k)' <=> (original[k] = Redacted /\ k \notin removed)
    BY <1>0 DEF Profile!isStored
  <2>9. targetType = "ssh" => Profile!FirstScope(config') = hostScope
    <3> SUFFICES ASSUME targetType = "ssh" PROVE Profile!FirstScope(config') = hostScope
      OBVIOUS
    <3>1. config'["host"] = fields["host"]
      BY <2>2, <2>6, KeysNamed
    <3>2. hostScope = "server" => fields["host"] # Empty
      <4>1. "host" \in AllKeys
        BY KeysNamed
      <4>2. hostScope = "server" => Profile!Required("host")
        BY DEF Profile!Required
      <4> QED BY <1>1, <2>1, <4>1, <4>2 DEF Profile!isStored
    <3> QED BY <2>1, <3>1, <3>2 DEF Profile!FirstScope
  <2>10. targetType = "azure-storage" =>
           /\ Profile!detectAzureAuth(config') = method
           /\ \A k \in AllKeys \ Azure[method] : config'[k] = Empty
    <3> SUFFICES ASSUME targetType = "azure-storage"
                 PROVE  /\ Profile!detectAzureAuth(config') = method
                        /\ \A k \in AllKeys \ Azure[method] : config'[k] = Empty
      OBVIOUS
    <3>1. \A k \in AllKeys \ Azure[method] : config'[k] = Empty
      BY <2>0, <2>1, <2>2, <2>4, SavedKeys, ProfileAssumption
    <3>2. \A k \in Azure[method] : fields[k] # Empty \/ (original[k] = Redacted /\ k \notin removed)
      BY <1>1, <2>2 DEF Profile!Required, Profile!isStored, Active
    <3>3. \A k \in Azure[method] : config'[k] # Empty
      <4>1. \A k \in Azure[method] : k \notin Secret => original[k] # Redacted
        BY <2>2, <2>4, <2>5
      <4> QED BY <2>2, <2>6, <2>7, <3>2, <4>1
    <3>4. Profile!detectAzureAuth(config') = method
      <4>1. /\ {"account_name", "account_key", "connection_string", "sas_token"} \subseteq AllKeys
            /\ method \in {"account-key", "connection-string", "sas-token", "managed-identity"}
        BY <2>1, KeysNamed
      <4>2. CASE method = "account-key"
        BY <3>1, <3>3, <4>1, <4>2, KeysNamed DEF Profile!detectAzureAuth
      <4>3. CASE method = "connection-string"
        BY <3>1, <3>3, <4>1, <4>3, KeysNamed DEF Profile!detectAzureAuth
      <4>4. CASE method = "sas-token"
        BY <3>1, <3>3, <4>1, <4>4, KeysNamed DEF Profile!detectAzureAuth
      <4>5. CASE method = "managed-identity"
        BY <3>1, <3>3, <4>1, <4>5, KeysNamed DEF Profile!detectAzureAuth
      <4> QED BY <4>1, <4>2, <4>3, <4>4, <4>5
    <3> QED BY <3>1, <3>4
  <2> QED
    BY <1>0, <2>2, <2>3, <2>6, <2>7, <2>8, <2>9, <2>10
       DEF Profile!detectAzureAuth, Profile!FirstScope
<1> QED BY <1>2, <1>3 DEF ProfileInv

LEMMA ProfileKeeps == ProfileInv /\ [Next]_vars => ProfileInv'
<1> SUFFICES ASSUME ProfileInv, [Next]_vars PROVE ProfileInv'
  OBVIOUS
<1>1. CASE Profile!FormNext
  BY <1>1, FillingKeeps, OtherSaveKeeps, WaitingKeeps, SaveKeeps
     DEF Profile!FormNext, AllKeys, Field, AllMethods
<1>2. CASE UNCHANGED formVars
  <2>1. FormTyped' /\ FilledInv' /\ GivenInv'
    BY <1>2 DEF formVars, ProfileInv, FormTyped, FilledInv, GivenInv, Azures, Profile!Shown,
       Profile!Required, Profile!activeKeys, Profile!isStored
  <2>2. ReopensAsSaved'
    BY <1>2 DEF formVars, ProfileInv, ReopensAsSaved, Profile!ReopensAsSaved, Profile!activeKeys,
       Profile!isStored, Profile!detectAzureAuth, Profile!FirstScope
  <2> QED BY <2>1, <2>2 DEF ProfileInv
<1> QED
  BY <1>1, <1>2 DEF Next, UsersStep, AccessStep, CredentialsStep, ProfileStep, SettingsStep, vars

(* A profile that is saved and opened again shows what was saved, unless   *)
(* another administrator saved meanwhile or an earlier answer was lost     *)
(* (AdminPage.tsx, buildEditPatch; handleUpdateCredential).                *)
THEOREM AlwaysReopensAsSaved == Spec => []ReopensAsSaved
<1>1. ProfileInv => ReopensAsSaved
  BY DEF ProfileInv
<1> QED BY <1>1, FormInitially, ProfileKeeps, PTL DEF Spec

(* A save leaves alone each key that another administrator wrote before    *)
(* the handler read the row, unless the form changed it (AdminPage.tsx,    *)
(* buildEditPatch; handleUpdateCredential).                                *)
THEOREM OthersEditsAlwaysSurvive == Spec => OthersEditsSurvive
<1>1. ProfileInv /\ [Next]_vars => [Profile!OthersKept]_(Profile!formVars)
  <2> SUFFICES ASSUME ProfileInv, Profile!SaveCredential PROVE Profile!OthersKept
    <3>1. form = "read" /\ form' = "saved" => Profile!SaveCredential \/ ~[Next]_vars
      BY DEF Next, UsersStep, AccessStep, CredentialsStep, ProfileStep, SettingsStep, vars, formVars,
         Profile!FormNext, Profile!setField, Profile!OtherAdministrator, Profile!toggleRemoved,
         Profile!changeHostScope, Profile!changeMethod, Profile!submit, Profile!GetCredential,
         Profile!Refuse, Profile!onSaved, Profile!AnswerLost
    <3> QED BY <3>1 DEF Profile!OthersKept
  <2> SUFFICES ASSUME NEW k \in others, config[k] = row[k], config'[k] # config[k]
               PROVE  k \in removed \/ fields[k] # Profile!initialFields(original)[k]
    BY DEF Profile!OthersKept
  <2>1. k \in Ssh /\ k \in AllKeys /\ targetType = "ssh" /\ Active = Ssh
    BY KeysNamed, KeysActive DEF ProfileInv, FormTyped, Azures
  <2>2. Profile!initialFields(original)[k] = IF k \in Secret THEN Empty ELSE original[k]
    BY <2>1 DEF Profile!initialFields, AllKeys, Secret
  <2> QED BY <2>1, <2>2, SavedKeys
<1> QED
  BY <1>1, FormInitially, ProfileKeeps, PTL
     DEF Spec, OthersEditsSurvive, Profile!OthersEditsSurvive
=============================================================================
