--------------------------- MODULE SettingsPanel ----------------------------
(***************************************************************************)
(* The settings tab of the administration page (web/src, AdminPage.tsx):   *)
(* switches and numbers that are saved one at a time, each when it is      *)
(* flipped or its field is left, and the copy of one of them, the size of  *)
(* the log buffer, that the whole app works with (web/src, App.tsx).       *)
(***************************************************************************)
EXTENDS Integers

CONSTANTS
  Numbers,        \* what may stand in a numeric field
  NaN,            \* a field that holds no number
  NoRequest,
  MaxSaves        \* bound on saves and on others' changes

Switch   == "enable_workspaces"
Tail     == "stream_tail_lines"
Buffer   == "log_buffer_lines"
Message  == "ws_max_message_kb"
Numeric  == {Tail, Buffer, Message}
Settings == Numeric \cup {Switch}
Default(k) == IF k = Switch THEN TRUE ELSE 4
MaxMessage == 64

VARIABLES
  stored,         \* the server's settings
  settings,       \* the settings as the panel shows them
  typing,         \* the field that has the focus, or NoRequest
  saving,         \* the save under way: [change, answer] or NoRequest
  error,          \* an alert says that the last save failed
  logBufferLines, \* the app's copy
  saves,
  unsure          \* history: others wrote, or an answer was lost, and no answer that
                  \* the app was handed has made up for it

settingsVars == <<stored, settings, typing, saving, error, logBufferLines, saves, unsure>>

SettingsInit ==
  /\ stored = [k \in Settings |-> Default(k)]
  /\ settings = stored /\ logBufferLines = stored[Buffer]     \* adminGetSettings, fetchConfig
  /\ typing = NoRequest /\ saving = NoRequest
  /\ error = FALSE /\ saves = 0 /\ unsure = FALSE

Save(change, forward) ==
  /\ saving' = [change |-> change, forward |-> forward, answer |-> NoRequest]
  /\ error' = FALSE
  /\ saves' = saves + 1

(* Everything is disabled while a save is under way. *)
Enabled == saving = NoRequest /\ saves < MaxSaves

toggle ==
  /\ Enabled /\ typing = NoRequest
  /\ Save([k \in {Switch} |-> ~settings[Switch]], FALSE)
  /\ UNCHANGED <<stored, settings, typing, logBufferLines, unsure>>

Type(k, v) ==
  /\ Enabled /\ typing \in {NoRequest, k}
  /\ typing' = k
  /\ settings' = [settings EXCEPT ![k] = v]
  /\ UNCHANGED <<stored, saving, error, logBufferLines, saves, unsure>>

(* What is not a positive number, or too large a message, is not saved; *)
(* the field keeps showing it.                                          *)
Accepts(k, v) == v # NaN /\ v > 0 /\ (k = Message => v <= MaxMessage)
saveNumeric ==
  /\ typing # NoRequest
  /\ typing' = NoRequest
  /\ IF Accepts(typing, settings[typing])
     THEN Save([k \in {typing} |-> settings[typing]], TRUE)
     ELSE UNCHANGED <<saving, error, saves>>
  /\ UNCHANGED <<stored, settings, logBufferLines, unsure>>

ResetToDefaults ==
  /\ Enabled /\ typing = NoRequest
  /\ Save([k \in {Message} |-> Default(k)], FALSE)
  /\ UNCHANGED <<stored, settings, typing, logBufferLines, unsure>>

ServeSave ==
  /\ saving # NoRequest /\ saving.answer = NoRequest
  /\ stored' = [k \in Settings |-> IF k \in DOMAIN saving.change THEN saving.change[k] ELSE stored[k]]
  /\ saving' = [saving EXCEPT !.answer = stored']
  /\ UNCHANGED <<settings, typing, error, logBufferLines, saves, unsure>>

(* Only the answer to a number is handed to the app. *)
NotForwarded(save) == logBufferLines          \* mutant
onSettingsChange(save) ==
  IF save.forward /\ save.answer[Buffer] > 0 THEN save.answer[Buffer] ELSE logBufferLines

TakeAnswer ==
  /\ saving # NoRequest /\ saving.answer # NoRequest
  /\ settings' = saving.answer
  /\ logBufferLines' = onSettingsChange(saving)
  /\ saving' = NoRequest
  /\ unsure' = (unsure /\ ~(saving.forward /\ saving.answer = stored /\ stored[Buffer] > 0))
  /\ UNCHANGED <<stored, typing, error, saves>>

SaveFails ==                       \* before the server saved, or after
  /\ saving # NoRequest
  /\ error' = TRUE /\ saving' = NoRequest /\ unsure' = TRUE
  /\ UNCHANGED <<stored, settings, typing, logBufferLines, saves>>

OtherAdministrator(k, v) ==
  /\ saves < MaxSaves /\ saves' = saves + 1
  /\ stored' = [stored EXCEPT ![k] = v]
  /\ unsure' = TRUE
  /\ UNCHANGED <<settings, typing, saving, error, logBufferLines>>

SettingsNext ==
  \/ toggle \/ saveNumeric \/ ResetToDefaults \/ ServeSave \/ TakeAnswer \/ SaveFails
  \/ \E k \in Numeric : \/ \E v \in Numbers \cup {NaN} : Type(k, v)
                        \/ \E v \in Numbers : OtherAdministrator(k, v)

-----------------------------------------------------------------------------
(* Settings are saved one by one and each answer replaces all that is      *)
(* shown.  Between saves the panel shows what is stored, but for a value   *)
(* it refused, and the app's buffer is the stored one, unless others wrote *)
(* or an answer was lost, until the next number that is saved.             *)
Refused(k, v) == v = NaN \/ v \notin (IF k = Message THEN 1..MaxMessage ELSE Nat \ {0})
SettledSettingsAgree ==
  saving = NoRequest /\ typing = NoRequest /\ ~unsure =>
    /\ \A k \in Settings :
         settings[k] = stored[k] \/ (k \in Numeric /\ Refused(k, settings[k]))
    /\ logBufferLines = stored[Buffer]

(* The row "Initial log tail lines" (AdminPage.tsx, line 1665) promises    *)
(* "0 = all logs from the beginning": leaving the field with 0 saves that. *)
ZeroTailIsSaved ==
  saving = NoRequest /\ typing = NoRequest /\ ~unsure /\ settings[Tail] = 0 => stored[Tail] = 0
=============================================================================
