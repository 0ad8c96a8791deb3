----------------------------- MODULE AdminPage ------------------------------
(***************************************************************************)
(* The administration page (web/src, AdminPage.tsx): one tab is shown at a *)
(* time, and of the credentials tab and the dialogs of the users tab the   *)
(* forms are looked at on their own.  The parts share no state, so those   *)
(* that are not shown stay as they begin.                                  *)
(***************************************************************************)
EXTENDS Integers, Sequences

CONSTANTS
  Users, Accesses, Everything, Nothing, Gone, NoDialog, NoQuestion, MaxRequests, MaxUnderWay,
  Paths, Full,
  Names, Hosts, Reachable, AnyHost, NoProfile, None, Pending, MaxTests, MaxSteps,
  Values, Ports, Empty, Redacted,
  Numbers, NaN, NoRequest, MaxSaves

ASSUME AdminAssumption ==
  /\ Everything \in Accesses /\ Nothing \in Accesses
  /\ Reachable \subseteq Hosts /\ AnyHost \notin Hosts
  /\ Numbers \subseteq Int

VARIABLES
  shown,          \* the part that is shown
  accounts, users, failed, loads, dialog, asked, calls, sent, latest, since,
  role, scope, limited, tree,
  profiles, used, creds, list, thenTest, testResults, tests, hostPrompt, editing,
  showCreate, inUse, confirming, busy, steps,
  targetType, config, original, fields, removed, method, hostScope, form, row, lost, others,
  stored, settings, typing, saving, error, logBufferLines, saves, unsure

UsersTab       == INSTANCE UsersPanel
Picker         == INSTANCE AccessScope
CredentialsTab == INSTANCE CredentialsPanel
Profile        == INSTANCE CredentialForm
SettingsTab    == INSTANCE SettingsPanel

(* NoRequest is told apart from a field and from a save. *)
Setting == Int \cup BOOLEAN \cup {NaN}
ASSUME SettingsAssumption ==
  /\ NoRequest \notin SettingsTab!Settings
  /\ \A keys \in SUBSET SettingsTab!Settings :
       NoRequest \notin [change : [keys -> Setting], forward : BOOLEAN,
                         answer : {NoRequest} \cup [SettingsTab!Settings -> Setting]]

(* What is typed into a field is neither what the server shows of a secret *)
(* nor what stands for a key that is left out or removed; an entry of a    *)
(* scope is a path or "*".                                                 *)
ASSUME ProfileAssumption ==
  /\ Redacted # Empty
  /\ {Empty, Redacted, Profile!Leave, Profile!Null} \cap Values = {}
  /\ Empty \notin {Profile!Leave, Profile!Null}
ASSUME PathsAssumption == Paths \subseteq Seq(STRING) /\ Full \notin Paths

usersVars    == <<accounts, users, failed, loads, dialog, asked, calls, sent, latest, since>>
scopeVars    == <<role, scope, limited, tree>>
credVars     == <<profiles, used, creds, list, thenTest, testResults, tests, hostPrompt,
                  editing, showCreate, inUse, confirming, busy, steps>>
formVars     == <<targetType, config, original, fields, removed, method, hostScope, form, row, lost,
                  others>>
settingsVars == <<stored, settings, typing, saving, error, logBufferLines, saves, unsure>>
vars == <<shown, usersVars, scopeVars, credVars, formVars, settingsVars>>

Init ==
  /\ shown \in {"users", "access", "credentials", "profile", "settings"}
  /\ Picker!ScopeInit
  /\ shown # "access" => scope = {}
  /\ UsersTab!UsersInit
  /\ shown # "users" => \A u \in Users : accounts[u] = Gone
  /\ CredentialsTab!CredInit
  /\ shown # "credentials" => \A n \in Names : profiles[n] = NoProfile
  /\ SettingsTab!SettingsInit
  /\ Profile!FormInit
  /\ shown # "profile" => targetType = "ssh" /\ \A k \in DOMAIN config : config[k] = Empty

UsersStep ==
  /\ shown = "users" /\ UsersTab!UsersNext
  /\ UNCHANGED <<shown, scopeVars, credVars, formVars, settingsVars>>
AccessStep ==
  /\ shown = "access" /\ Picker!ScopeNext
  /\ UNCHANGED <<shown, usersVars, credVars, formVars, settingsVars>>
CredentialsStep ==
  /\ shown = "credentials" /\ CredentialsTab!CredNext
  /\ UNCHANGED <<shown, usersVars, scopeVars, formVars, settingsVars>>
ProfileStep ==
  /\ shown = "profile" /\ Profile!FormNext
  /\ UNCHANGED <<shown, usersVars, scopeVars, credVars, settingsVars>>
SettingsStep ==
  /\ shown = "settings" /\ SettingsTab!SettingsNext
  /\ UNCHANGED <<shown, usersVars, scopeVars, credVars, formVars>>

Next == UsersStep \/ AccessStep \/ CredentialsStep \/ ProfileStep \/ SettingsStep

Spec == Init /\ [][Next]_vars

-----------------------------------------------------------------------------
(* The properties of the parts; each is stated and explained in its module. *)
SettledRowsAreCurrent == UsersTab!SettledRowsAreCurrent
AccessFollowsClicks   == Picker!AccessFollowsClicks
TestsAreToldApart     == CredentialsTab!TestsAreToldApart
ReopensAsSaved        == Profile!ReopensAsSaved
OthersEditsSurvive    == Profile!OthersEditsSurvive
SettledSettingsAgree  == SettingsTab!SettledSettingsAgree
ZeroTailIsSaved       == SettingsTab!ZeroTailIsSaved
=============================================================================
