--------------------------- MODULE CredentialForm ---------------------------
(***************************************************************************)
(* The form that edits a credential profile (web/src, AdminPage.tsx,       *)
(* CredentialForm), and the patch it sends: the server never shows a       *)
(* secret, so an empty secret field means "keep it", and a key is removed  *)
(* by sending null for it.  The server reads the profile's row, merges the *)
(* patch into it and writes the whole row; its answer may be lost, and the *)
(* form then stays open with the profile as it was given it.  Meanwhile    *)
(* another administrator may save the same profile.                        *)
(*                                                                         *)
(* Of the fields of ssh, "port" stands for the plain ones (user, port), as *)
(* the only one that is checked, and "password" for the three secrets.     *)
(***************************************************************************)
EXTENDS Integers, FiniteSets

CONSTANTS
  Values,         \* what a field can hold
  Ports,          \* those of them that are port numbers
  Empty,          \* an empty field; a key the stored profile has not
  Redacted        \* what the server shows of a secret

SshKeys   == {"host", "port", "password"}
AzureKeys == [m \in {"account-key", "connection-string", "sas-token", "managed-identity"} |->
  CASE m = "account-key"       -> {"account_name", "account_key"}
    [] m = "connection-string" -> {"connection_string"}
    [] m = "sas-token"         -> {"account_name", "sas_token"}
    [] m = "managed-identity"  -> {"account_name"}]
Methods   == DOMAIN AzureKeys
Keys      == SshKeys \cup UNION {AzureKeys[m] : m \in Methods}
Sensitive == {"password", "account_key", "connection_string", "sas_token"}

VARIABLES
  targetType,     \* "ssh" or "azure-storage"
  config,         \* the stored profile: key -> value or Empty
  original,       \* the profile as the form was given it
  fields,         \* key -> what stands in its field
  removed,        \* secrets marked "Remove"
  method,         \* azureAuthMethod
  hostScope,      \* "server" or "any"
  form,           \* "open"; "asked", "read" and "saved" while a save is under way; "closed"
  row,            \* the row the server has read for it, or Unread
  lost,           \* history: a save was done and its answer was lost
  others          \* history: keys another administrator wrote while the form was open

formVars == <<targetType, config, original, fields, removed, method, hostScope, form, row, lost,
              others>>
serverVars == <<config, row, lost, others>>

-----------------------------------------------------------------------------
detectAzureAuth(c) ==
  CASE c["connection_string"] # Empty -> "connection-string"
    [] c["connection_string"] = Empty /\ c["sas_token"] # Empty -> "sas-token"
    [] c["connection_string"] = Empty /\ c["sas_token"] = Empty /\ c["account_key"] = Empty
         /\ c["account_name"] # Empty -> "managed-identity"
    [] OTHER -> "account-key"

Shown(c)         == [k \in Keys |-> IF k \in Sensitive /\ c[k] # Empty THEN Redacted ELSE c[k]]
initialFields(c) == [k \in Keys |-> IF k \in Sensitive THEN Empty ELSE c[k]]
FirstScope(c)    == IF c["host"] = Empty THEN "any" ELSE "server"
Unread           == [k \in Keys |-> Empty]

Only(keys) == {[k \in Keys |-> IF k \in keys THEN c[k] ELSE Empty] :
                 c \in [keys -> Values \cup {Empty}]}
(* A profile that is created is not checked for its port.                  *)
Profiles(t) ==
  IF t = "ssh" THEN Only(SshKeys)
  ELSE UNION {{c \in Only(AzureKeys[m]) : \A k \in AzureKeys[m] : c[k] # Empty} : m \in Methods}

FormInit ==
  /\ targetType \in {"ssh", "azure-storage"}
  /\ config \in Profiles(targetType)
  /\ original = Shown(config) /\ fields = initialFields(config)
  /\ method = (IF targetType = "ssh" THEN "account-key" ELSE detectAzureAuth(config))
  /\ hostScope = FirstScope(config)
  /\ removed = {} /\ form = "open" /\ others = {}
  /\ row = Unread /\ lost = FALSE

activeKeys  == IF targetType = "ssh" THEN SshKeys ELSE AzureKeys[method]
isStored(k) == original[k] = Redacted /\ k \notin removed
Required(k) == IF targetType = "ssh" THEN k = "host" /\ hostScope = "server" ELSE k \in activeKeys

(* validate, validPort *)
PortIsValid(c) == c["port"] \in Ports \cup {Empty}

(* The fields can be typed into while a save is under way, which neither   *)
(* the request nor the server sees: that is told as typing after its       *)
(* answer was lost.                                                        *)
setField(k, v) ==
  /\ form = "open" /\ k \in activeKeys \ removed
  /\ k = "host" => hostScope = "server"
  /\ fields' = [fields EXCEPT ![k] = v]
  /\ UNCHANGED <<targetType, original, removed, method, hostScope, form, serverVars>>

(* Fields that are required have no such button. *)
toggleRemoved(k) ==
  /\ form = "open" /\ targetType = "ssh"
  /\ k \in activeKeys \cap Sensitive /\ original[k] = Redacted
  /\ removed' = IF k \in removed THEN removed \ {k} ELSE removed \cup {k}
  /\ fields' = [fields EXCEPT ![k] = Empty]
  /\ UNCHANGED <<targetType, original, method, hostScope, form, serverVars>>

changeHostScope ==
  /\ form = "open" /\ targetType = "ssh"
  /\ hostScope' = IF hostScope = "any" THEN "server" ELSE "any"
  /\ fields' = IF hostScope' = "any" THEN [fields EXCEPT !["host"] = Empty] ELSE fields
  /\ UNCHANGED <<targetType, original, removed, method, form, serverVars>>

changeMethod(m) ==
  /\ form = "open" /\ targetType = "azure-storage" /\ m # method
  /\ method' = m
  /\ UNCHANGED <<targetType, original, fields, removed, hostScope, form, serverVars>>

(* buildEditPatch: a key that is left out stays, null removes it. *)
Leave == "leave"
Null  == "null"
OfOtherMethods == IF targetType = "ssh" THEN {} ELSE Keys \ (activeKeys \cup SshKeys)
Patched(k) ==
  CASE k \in removed /\ k \in activeKeys -> Null
    [] k \in (activeKeys \cap Sensitive) \ removed -> IF fields[k] = Empty THEN Leave ELSE fields[k]
    [] k \in activeKeys \ (Sensitive \cup removed) ->
         IF fields[k] = original[k] THEN Leave ELSE IF fields[k] = Empty THEN Null ELSE fields[k]
    [] k \in OfOtherMethods -> IF original[k] = Empty THEN Leave ELSE Null
    [] OTHER -> Leave
PatchedOwnOnly(k) ==         \* mutant: the keys of the former method stay
  IF k \in activeKeys
  THEN CASE k \in removed -> Null
         [] k \notin removed /\ k \in Sensitive -> IF fields[k] = Empty THEN Leave ELSE fields[k]
         [] OTHER -> IF fields[k] = original[k] THEN Leave
                     ELSE IF fields[k] = Empty THEN Null ELSE fields[k]
  ELSE Leave
PatchedPlain(k) ==           \* mutant: what was not touched is sent, too
  IF k \in activeKeys \ (Sensitive \cup removed) /\ targetType = "ssh"
  THEN IF fields[k] = Empty THEN Null ELSE fields[k]
  ELSE Patched(k)
buildEditPatch(k) == Patched(k)

(* The patch, and the form it was built from, stay as they are until the   *)
(* answer comes.  One save at a time: after a lost answer the next one is  *)
(* sent when the handler of the first has ended.                           *)
filledIn == <<targetType, original, fields, removed, method, hostScope>>

submit ==
  /\ form = "open"
  /\ \A k \in Keys : Required(k) => fields[k] # Empty \/ isStored(k)
  /\ "port" \in activeKeys => PortIsValid(fields)
  /\ form' = "asked"
  /\ UNCHANGED <<filledIn, serverVars>>

(* handleUpdateCredential: GetCredential, the merge and SaveCredential.    *)
GetCredential ==
  /\ form = "asked"
  /\ form' = "read" /\ row' = config
  /\ UNCHANGED <<filledIn, config, lost, others>>

Merged == [k \in Keys |-> LET v == buildEditPatch(k)
                          IN  IF v = Leave THEN row[k] ELSE IF v = Null THEN Empty ELSE v]

SaveCredential ==
  /\ form = "read" /\ PortIsValid(Merged)
  /\ config' = Merged
  /\ form' = "saved" /\ row' = Unread
  /\ UNCHANGED <<filledIn, lost, others>>

(* A store call fails, or the merged profile has no valid port.            *)
Refuse ==
  /\ form \in {"asked", "read"}
  /\ form' = "open" /\ row' = Unread
  /\ UNCHANGED <<filledIn, config, lost, others>>

onSaved ==
  /\ form = "saved"
  /\ form' = "closed"
  /\ UNCHANGED <<filledIn, serverVars>>

AnswerLost ==
  /\ form = "saved"
  /\ form' = "open" /\ lost' = TRUE
  /\ UNCHANGED <<filledIn, config, row, others>>

OtherAdministrator(k, v) ==
  /\ form # "closed" /\ others = {}
  /\ targetType = "ssh" /\ k \in SshKeys /\ config[k] # v
  /\ config' = [config EXCEPT ![k] = v] /\ PortIsValid(config')
  /\ others' = {k}
  /\ UNCHANGED <<filledIn, form, row, lost>>

FormNext ==
  \/ \E k \in Keys, v \in Values \cup {Empty} : setField(k, v) \/ OtherAdministrator(k, v)
  \/ \E k \in Keys : toggleRemoved(k)
  \/ changeHostScope \/ submit
  \/ \E m \in Methods : changeMethod(m)
  \/ GetCredential \/ SaveCredential \/ Refuse \/ onSaved \/ AnswerLost

-----------------------------------------------------------------------------
(* buildEditPatch, handleUpdateCredential: the form shows only part of the *)
(* profile, yet once the server has saved, the profile, opened again,      *)
(* shows the method, the host scope and the plain fields that were saved,  *)
(* secrets are there exactly where the form said so, and no key of another *)
(* method is left.  Not so when another administrator saved meanwhile, nor *)
(* on a further save after a lost answer: the form then leaves out what it *)
(* takes for unchanged.                                                    *)
ReopensAsSaved ==
  form \in {"saved", "closed"} /\ others = {} /\ ~lost =>
    /\ targetType = "azure-storage" =>
         /\ detectAzureAuth(config) = method
         /\ \A k \in Keys \ AzureKeys[method] : config[k] = Empty
    /\ targetType = "ssh" => FirstScope(config) = hostScope
    /\ \A k \in activeKeys \ Sensitive : config[k] = fields[k]
    /\ \A k \in activeKeys \cap Sensitive :
         (config[k] # Empty) <=> (fields[k] # Empty \/ isStored(k))

OthersKept ==
  form' = "saved" /\ form = "read" =>
    \A k \in others : config[k] = row[k] /\ config'[k] # config[k] =>
      k \in removed \/ fields[k] # initialFields(original)[k]

(* A save of one administrator's form leaves alone what another one has    *)
(* saved since it was opened, except for keys the form itself changes, and *)
(* except for what is saved between the handler's read of the row and its  *)
(* write of the whole row (row then differs from config), which is undone. *)
OthersEditsSurvive == [][OthersKept]_formVars
=============================================================================
