--------------------------- MODULE ConfigBuilder ----------------------------
(***************************************************************************)
(* The configuration builder (web/src, ConfigBuilder.tsx): a form for a    *)
(* workspace, an environment or a service, saved as YAML or as the body of *)
(* a request (App.tsx) and read back when it is edited again.  A service   *)
(* is known by its id; targets refer to it by name.                        *)
(***************************************************************************)
EXTENDS ResourceImporter

CONSTANTS
  Names, NoName, Unnamed,
  Profiles, FirstProfile, Hosted, NoProfile,   \* saved ssh logins; those with an address
  Resource, NoResource,                        \* storage a service can take its connection from
  NoForm,
  MaxEdits,       \* bound: edits of the form; none is made while it is being saved
  MaxServices     \* bound: services and targets of an environment

VARIABLES
  mode,
  editing,        \* the name of what is edited, NoName when it is made
  config, phase,
  openTarget,     \* the card that is unfolded
  credentials,    \* the profiles have been loaded
  filling,        \* adminGetResource is under way, for each the service as it was
  sent,           \* the form as Save took it
  stored,         \* what the server keeps; but for a workspace, until it is read back
  kept,           \* history: the form that was saved last, until it is edited
  fresh,          \* history: nothing has changed since it was read back
  edits

formVars == <<mode, editing, config, phase, openTarget, credentials, filling, sent, stored, kept, fresh, edits>>
builderVars == <<formVars, importerVars>>

-----------------------------------------------------------------------------
Copied(name) == IF name = NoName THEN NoName ELSE <<name, "-copy">>
Fresh(ids)   == CHOOSE n \in 1..(Cardinality(ids) + 1) : n \notin ids
At(seq, id)  == CHOOSE i \in DOMAIN seq : seq[i].id = id
Has(seq, id) == \E i \in DOMAIN seq : seq[i].id = id
TargetsOf(c) == UNION {ToSet(e.targets) : e \in ToSet(c.environments)}
MapTargets(envs, F(_)) ==
  [i \in DOMAIN envs |-> [envs[i] EXCEPT !.targets = [j \in DOMAIN @ |-> F(@[j])]]]

(* An id is given once: those that something under way still holds count too.*)
ServiceIds == {s.id : s \in ToSet(config.services)} \cup {s.id : s \in ToSet(filling)}
Held == ({openTarget} \cup {q.at : q \in ToSet(questions)}) \ {Nowhere}

(* History: a target's `ticked' and an override's `of' are the services    *)
(* they were given, as long as a name tells those from every other.        *)
Told(services) ==
  {s.id : s \in {x \in ToSet(services) : /\ x.name # NoName
                                         /\ \A y \in ToSet(services) : y.name = x.name => y = x}}
IdsNamed(services, names) == {s.id : s \in {x \in ToSet(services) : x.name \in names}} \cap Told(services)
Recall(c) ==
  LET Kept(t) == [t EXCEPT !.ticked = @ \cap Told(c.services),
                           !.overrides = {[o EXCEPT !.of = @ \cap Told(c.services)] : o \in @}]
  IN  [c EXCEPT !.environments = MapTargets(@, Kept)]

NewService(id) == [id |-> id, name |-> NoName, provider |-> "file", resource |-> NoResource,
                   own |-> FALSE, conn |-> ""]
(* A target's connection: the address of a machine, and of its login what  *)
(* is no secret, the secrets and the certificate of a cluster.             *)
NewTarget(id)  == [id |-> id, name |-> NoName, type |-> "kubernetes", profile |-> NoProfile,
                   address |-> FALSE, login |-> {}, names |-> <<>>, overrides |-> {}, ticked |-> {}]
NewEnvironment(id, targets) == [id |-> id, name |-> NoName, targets |-> targets]

emptyConfig == [name |-> NoName, hierarchy |-> "default", services |-> <<>>, environments |-> <<>>]
initialConfig(m) ==
  CASE m = "workspace"   -> emptyConfig
    [] m = "environment" -> [emptyConfig EXCEPT !.environments = <<NewEnvironment(1, <<>>)>>]
    [] OTHER -> [emptyConfig EXCEPT !.services = <<NewService(1)>>,
                                    !.environments = <<NewEnvironment(1, <<NewTarget(<<1, 1>>)>>)>>]

-----------------------------------------------------------------------------
(* CredentialSelector.tsx.  A profile takes the place of the login; one    *)
(* that has an address also takes that of the address.                     *)
WithProfile(t, p) == [t EXCEPT !.profile = p, !.login = {}, !.address = @ /\ p \notin Hosted]
Untouched(t) == t.type = "ssh" /\ t.profile = NoProfile /\ ~t.address /\ t.login = {}
AutoSelected(t) ==                       \* the effect, when it is shown or the type changes
  IF credentials /\ Untouched(t)
  THEN WithProfile(t, FirstProfile) ELSE t
Retyped(t, type) == AutoSelected([t EXCEPT !.type = type, !.address = FALSE, !.login = {},
                                           !.profile = NoProfile])
Selected(t) == IF credentials /\ t.type = "ssh" THEN t.profile ELSE NoProfile

(* What the fields of a card make of its target: a cluster's have neither  *)
(* an address nor a secret.                                                *)
FieldsOf(t) ==
  {[t EXCEPT !.name = n] : n \in (Names \cup {NoName}) \ {t.name}}
  \cup {Retyped(t, type) : type \in {"kubernetes", "ssh"} \ {t.type}}
  \cup {[t EXCEPT !.address = ~@] : x \in {"ssh"} \cap {t.type}}
  \cup {[t EXCEPT !.login = IF part \in @ THEN @ \ {part} ELSE @ \cup {part}] :
          part \in IF Selected(t) # NoProfile THEN {} ELSE IF t.type = "ssh" THEN {"user", "secret"} ELSE {"user"}}
  \cup (IF credentials /\ t.type = "ssh"
        THEN {WithProfile(t, p) : p \in Profiles} \cup {[t EXCEPT !.profile = NoProfile]} ELSE {})

(* A service is ticked and unticked by its name; those of a storage that   *)
(* is read by itself are not offered.                                      *)
Offered == {s \in ToSet(config.services) : s.provider # "s3" /\ s.name # NoName}
Ticked(t, s) ==
  IF s.name \in ToSet(t.names)
  THEN [t EXCEPT !.names = LeaveOut(@, {s.name}),
                 !.ticked = @ \ IdsNamed(config.services, {s.name})]
  ELSE [t EXCEPT !.names = Append(@, s.name), !.ticked = @ \cup IdsNamed(config.services, {s.name})]

(* An emptied field takes the override away with what its other fields say.*)
Overridden(t, name, field, filled) ==
  LET had  == UNION {o.fields : o \in {x \in t.overrides : x.name = name}}
      rest == {o \in t.overrides : o.name # name}
  IN  [t EXCEPT !.overrides =
        IF ~filled THEN rest
        ELSE rest \cup {[name |-> name, fields |-> had \cup {field},
                         of |-> IdsNamed(config.services, {name})]}]
WithOverride(t) ==
  {Overridden(t, name, field, filled) : name \in ToSet(t.names) \cap {s.name : s \in Offered},
                                        field \in {"one", "other"}, filled \in BOOLEAN}

-----------------------------------------------------------------------------
Put(c)   == config' = Recall(c) /\ fresh' = FALSE /\ kept' = NoForm
Counted  == edits < MaxEdits /\ edits' = edits + 1
Edit(c)  == phase = "editing" /\ importing = Nowhere /\ Counted /\ Put(c)
others   == <<mode, editing, phase, credentials, sent, stored, importerVars>>
Only(c) == Edit(c) /\ UNCHANGED <<openTarget, filling, others>>

ServiceNotRenamed(c, id, svc) ==         \* mutant: the targets keep the old name
  [c EXCEPT !.services[At(c.services, id)] = svc]
ServiceUpdated(c, id, svc) ==
  LET old        == c.services[At(c.services, id)].name
      New(n)     == IF n = old THEN svc.name ELSE n
      Renamed(t) == [t EXCEPT !.names = [i \in DOMAIN @ |-> New(@[i])],
                              !.overrides = {[o EXCEPT !.name = New(@)] : o \in @}]
  IN  [c EXCEPT !.services[At(c.services, id)] = svc,
                !.environments = IF old # NoName /\ old # svc.name THEN MapTargets(@, Renamed) ELSE @]
updateService(id, svc) == Only(ServiceUpdated(config, id, svc))

addService ==
  /\ mode # "service" /\ Len(config.services) < MaxServices
  /\ Only([config EXCEPT !.services = Append(@, NewService(Fresh(ServiceIds)))])
removeService(s) ==
  /\ mode # "service" /\ Only([config EXCEPT !.services = LeaveOut(@, {s})])
cloneService(s) ==
  /\ mode # "service" /\ Len(config.services) < MaxServices /\ s.name \in Names \cup {NoName}
  /\ Only([config EXCEPT !.services =
             InsertAt(@, At(@, s.id) + 1, [s EXCEPT !.id = Fresh(ServiceIds), !.name = Copied(@)])])

(* ServiceDetailForm.  With a resource, only the fields of the service     *)
(* itself are shown.                                                       *)
SetService(s) ==
  /\ mode # "service"
  /\ \/ \E n \in (Names \cup {NoName}) \ {s.name} : updateService(s.id, [s EXCEPT !.name = n])
     \/ \E p \in {"file", "s3"} \ {s.provider} :
           updateService(s.id, [s EXCEPT !.provider = p, !.own = FALSE, !.conn = ""])
     \/ s.provider = "s3" /\ updateService(s.id, [s EXCEPT !.own = ~@])
     \/ s.resource = NoResource /\ updateService(s.id, [s EXCEPT !.conn = IF @ = "" THEN "typed" ELSE ""])
     \/ s.resource # NoResource /\ s.provider = "s3"
           /\ updateService(s.id, [s EXCEPT !.resource = NoResource, !.own = FALSE, !.conn = ""])

handleResourceSelect(s) ==
  /\ mode # "service" /\ s.provider = "s3" /\ phase = "editing" /\ importing = Nowhere
  /\ filling' = Append(filling, s) /\ Counted
  /\ UNCHANGED <<mode, editing, config, phase, openTarget, credentials, sent, stored, kept, fresh, importerVars>>
(* The answer brings back the service as it was when it was asked for.     *)
AnswerResource(i, ok) ==
  /\ filling' = RemoveAt(filling, i)
  /\ IF ok /\ Has(config.services, filling[i].id)
     THEN Put(ServiceUpdated(config, filling[i].id, [filling[i] EXCEPT !.resource = Resource, !.conn = "fetched"]))
     ELSE UNCHANGED <<config, fresh, kept>>
  /\ UNCHANGED <<openTarget, edits, others>>

-----------------------------------------------------------------------------
SetEnvironments(envs) == Only([config EXCEPT !.environments = envs])
EnvironmentIds == {e.id : e \in ToSet(config.environments)} \cup {at[1] : at \in Held}

addEnvironment ==
  /\ mode = "workspace" /\ Len(config.environments) < MaxServices
  /\ SetEnvironments(Append(config.environments, NewEnvironment(Fresh(EnvironmentIds), <<>>)))
removeEnvironment(e) ==
  mode = "workspace" /\ SetEnvironments(LeaveOut(config.environments, {e}))
cloneEnvironment(e) ==
  LET id   == Fresh(EnvironmentIds)
      twin == [e EXCEPT !.id = id, !.name = Copied(@),
                        !.targets = [j \in DOMAIN @ |-> [@[j] EXCEPT !.id = <<id, j>>]]]
  IN  /\ mode = "workspace" /\ Len(config.environments) < MaxServices /\ e.name \in Names \cup {NoName}
      /\ SetEnvironments(InsertAt(config.environments, At(config.environments, e.id) + 1, twin))
RenameEnvironment(e, name) ==
  /\ mode = "workspace" /\ name # e.name
  /\ SetEnvironments([config.environments EXCEPT ![At(config.environments, e.id)].name = name])

(* A new or cloned target is unfolded.                                     *)
SetTargets(e, targets, open) ==
  /\ Edit([config EXCEPT !.environments[At(config.environments, e.id)].targets = targets])
  /\ openTarget' = open /\ UNCHANGED <<filling, others>>
FreshTarget(e) ==
  <<e.id, Fresh({at[2] : at \in {t.id : t \in ToSet(e.targets)} \cup {at \in Held : at[1] = e.id}})>>
addTarget(e) ==
  /\ mode # "service" /\ Len(e.targets) < MaxServices
  /\ SetTargets(e, Append(e.targets, NewTarget(FreshTarget(e))), FreshTarget(e))
removeTarget(e, t) ==
  mode # "service" /\ SetTargets(e, LeaveOut(e.targets, {t}), openTarget)
cloneTarget(e, t) ==
  /\ mode # "service" /\ Len(e.targets) < MaxServices /\ t.name \in Names \cup {NoName}
  /\ SetTargets(e, InsertAt(e.targets, At(e.targets, t.id) + 1,
                            AutoSelected([t EXCEPT !.id = FreshTarget(e), !.name = Copied(@)])),
                FreshTarget(e))
(* Unfolding a card can change its target.                                 *)
Unfold(e, t) ==
  /\ mode # "service" /\ openTarget # t.id /\ phase = "editing" /\ importing = Nowhere
  /\ openTarget' = t.id
  /\ IF AutoSelected(t) = t THEN UNCHANGED <<config, fresh, kept>>
     ELSE Put([config EXCEPT !.environments[At(config.environments, e.id)]
                               .targets[At(e.targets, t.id)] = AutoSelected(t)])
  /\ UNCHANGED <<filling, edits, others>>
SetTarget(e, t) ==
  /\ mode = "service" \/ openTarget = t.id
  /\ \E new \in FieldsOf(t) \cup (IF mode = "service" THEN {}
                                  ELSE WithOverride(t) \cup {Ticked(t, s) : s \in Offered}) :
        new # t /\ SetTargets(e, [e.targets EXCEPT ![At(e.targets, t.id)] = new], openTarget)

SetName(name) ==                         \* the only service of the form bears its name
  /\ name # config.name
  /\ Only([config EXCEPT !.name = name,
                         !.services = IF mode = "service" /\ @ # <<>> THEN [@ EXCEPT ![1].name = name] ELSE @])
SetHierarchy ==
  mode = "workspace" /\ Only([config EXCEPT !.hierarchy = IF @ = "default" THEN "service-first" ELSE "default"])
SetOnlyService ==
  /\ mode = "service" /\ config.services # <<>>
  /\ \/ \E p \in {"file", "s3"} \ {config.services[1].provider} :
           Only([config EXCEPT !.services[1].provider = p, !.services[1].own = FALSE, !.services[1].conn = ""])
     \/ Only([config EXCEPT !.services[1].own = ~@])
     \/ Only([config EXCEPT !.services[1].conn = IF @ = "" THEN "typed" ELSE ""])

-----------------------------------------------------------------------------
(* Connect from Resource.  What the resource says is all the connection.   *)
Brought == {"user", "secret", "cert"}
OpenImporter(t) ==
  /\ mode # "service" /\ openTarget = t.id /\ t.type = "kubernetes"
  /\ phase = "editing" /\ importing = Nowhere /\ Counted
  /\ ShowImporter(t.id, Connections)
  /\ UNCHANGED <<mode, editing, config, phase, openTarget, credentials, filling, sent, stored, kept, fresh>>
CloseImporter ==
  importing # Nowhere /\ ShowImporter(Nowhere, Connections) /\ UNCHANGED formVars
handleResourceConnect(q) ==
  LET made     == SetToSeq(NewServices(q))
      ids      == CHOOSE f \in [DOMAIN made -> 1..(Len(made) + Cardinality(ServiceIds))] :
                    \A i, j \in DOMAIN made : f[i] \notin ServiceIds /\ (f[i] = f[j] => i = j)
      services == config.services \o [i \in DOMAIN made |-> [NewService(ids[i]) EXCEPT !.name = made[i].name]]
      names    == SetToSeq({w.name : w \in q.chosen})
      Joined(t) == IF t.id # q.at THEN t
                   ELSE LET all == t.names \o LeaveOut(names, ToSet(t.names))
                        IN  [t EXCEPT !.type = "kubernetes", !.address = FALSE, !.login = Brought, !.names = all,
                                      !.name = IF @ = NoName THEN q.cluster ELSE @,
                                      !.ticked = @ \cup IdsNamed(services, {n \in ToSet(names) : n \in ToSet(all)})]
  IN  [config EXCEPT !.services = services, !.environments = MapTargets(@, Joined)]
AnswerConnect(i) ==
  /\ questions[i].for = "connecting" /\ phase \in {"editing", "saving"}
  /\ Put(handleResourceConnect(questions[i]))
  /\ ShowImporter(Nowhere, RemoveAt(Connections, 1))
  /\ UNCHANGED <<mode, editing, phase, openTarget, credentials, filling, sent, stored, edits>>

-----------------------------------------------------------------------------
(* What is saved.  A workspace is written as YAML (generateYaml.ts), where *)
(* a name that is missing is "unnamed" and a list [a, ] is [a] but [, a]   *)
(* is no YAML; an environment or a service is sent as the request's body   *)
(* (App.tsx), without its profiles and resources.                          *)
OrUnnamed(name) == IF name = NoName THEN Unnamed ELSE name
Writable(names)  == \A i \in 1..Len(names) : names[i] = NoName => i = Len(names)
ProfileNotWritten(t) == [t EXCEPT !.name = OrUnnamed(@), !.profile = NoProfile]   \* mutant
emitTarget(t) ==
  [t EXCEPT !.name = OrUnnamed(@), !.names = LeaveOut(@, {NoName})]
generateWorkspaceYaml(c) ==
  LET envs    == MapTargets(c.environments, emitTarget)
      Emit(x) == [x EXCEPT !.name = OrUnnamed(@)]
  IN  [c EXCEPT !.name = OrUnnamed(@), !.services = [i \in DOMAIN @ |-> Emit(@[i])],
                !.environments = [i \in DOMAIN envs |-> Emit(envs[i])]]
Body(c) ==                               \* of the requests in App.tsx
  LET Sent(t) == [t EXCEPT !.profile = NoProfile]
      envs    == IF c.environments = <<>> THEN <<>> ELSE <<c.environments[1]>>
  IN  [c EXCEPT !.services = [i \in DOMAIN @ |-> [@[i] EXCEPT !.resource = NoResource]],
                !.environments = MapTargets(envs, Sent)]
Written(c) == IF mode = "workspace" THEN generateWorkspaceYaml(c) ELSE Body(c)

(* What the server's validation asks of it; of an environment and a        *)
(* service it asks for the names alone.                                    *)
Accepted(c) ==
  LET defined == {s.name : s \in ToSet(c.services)}
  IN  IF mode = "workspace"
      THEN /\ c.services # <<>> /\ editing \in {NoName, c.name}
           /\ \A i, j \in DOMAIN c.services : c.services[i].name = c.services[j].name => i = j
           /\ \A t \in TargetsOf(sent) : Writable(t.names)
           /\ \A t \in TargetsOf(c) : ToSet(t.names) \cup {o.name : o \in t.overrides} \subseteq defined
      ELSE /\ c.name # NoName \/ editing # NoName
           /\ mode = "environment" => NoName \notin defined

(* parseWorkspaceYaml: every part gets an id of its own.                   *)
Read(c) ==
  LET services == [i \in DOMAIN c.services |-> [c.services[i] EXCEPT !.id = i]]
      Linked(t) == [t EXCEPT !.ticked = IdsNamed(services, ToSet(t.names)),
                             !.overrides = {[o EXCEPT !.of = IdsNamed(services, {o.name})] : o \in @}]
      envs == MapTargets(c.environments, Linked)
  IN  [c EXCEPT !.services = services,
                !.environments = [i \in DOMAIN envs |->
                   [envs[i] EXCEPT !.id = i,
                                   !.targets = [j \in DOMAIN @ |-> [@[j] EXCEPT !.id = <<i, j>>]]]]]
(* The server gives no secret back, and a service that has no target no    *)
(* environment.                                                            *)
Blanked(t) == [t EXCEPT !.login = @ \ {"secret"}]
Exported(c) ==
  IF mode = "service" /\ TargetsOf(c) # {} /\ c.environments[1].targets[1].name = NoName
  THEN [c EXCEPT !.environments = <<>>] ELSE [c EXCEPT !.environments = MapTargets(@, Blanked)]
(* In the update of a workspace a target without a profile gets back what  *)
(* it lacks from the first of its name in the environment of that name.    *)
First(seq, name) ==
  {seq[i] : i \in {k \in DOMAIN seq : seq[k].name = name /\ \A l \in 1..(k - 1) : seq[l].name # name}}
OldLogin(old, e, t) ==
  UNION {UNION {u.login : u \in First(f.targets, t.name)} : f \in First(old.environments, e.name)}
Refilled(old, e, t) ==
  IF t.profile # NoProfile THEN t
  ELSE [t EXCEPT !.login = @ \cup (OldLogin(old, e, t) \cap {"secret", "cert"})]
preserveSensitiveTargetFields(c, old) ==
  LET OfEnvironment(e) == [e EXCEPT !.targets = [j \in DOMAIN @ |-> Refilled(old, e, @[j])]]
  IN  [c EXCEPT !.environments = [i \in DOMAIN @ |-> OfEnvironment(@[i])]]

-----------------------------------------------------------------------------
(* A workspace, an environment or a service that is edited.                *)
Sample(m) ==
  LET n  == CHOOSE n \in Names : TRUE
      s1 == [NewService(1) EXCEPT !.name = n, !.conn = "typed"]
      s2 == [NewService(2) EXCEPT !.name = CHOOSE x \in Names \ {n} : TRUE, !.provider = "s3", !.own = TRUE]
      t  == [NewTarget(<<1, 1>>) EXCEPT !.name = n, !.type = "ssh", !.address = TRUE, !.login = {"secret"}]
  IN  Read(IF m = "service"
           THEN [name |-> n, hierarchy |-> "default", services |-> <<s1>>,
                 environments |-> <<NewEnvironment(1, <<t>>)>>]
           ELSE [name |-> n, hierarchy |-> "default", services |-> <<s1, s2>>,
                 environments |-> <<[NewEnvironment(1, <<[t EXCEPT !.names = <<n>>]>>)
                                      EXCEPT !.name = IF m = "workspace" THEN n ELSE NoName]>>])

BuilderInit ==
  /\ mode \in {"workspace", "environment", "service"}
  /\ phase \in {"loading", "editing"}    \* editing what is stored, or making a new one
  /\ stored = IF phase = "loading" THEN Sample(mode) ELSE NoForm
  /\ editing = IF phase = "loading" THEN stored.name ELSE NoName
  /\ kept = stored /\ fresh = FALSE
  /\ config = initialConfig(mode) /\ openTarget = Nowhere /\ credentials = FALSE
  /\ filling = <<>> /\ sent = NoForm /\ edits = 0 /\ ImporterClosed

(* The selector of a service's only target is always shown.                *)
Mounted(c) ==
  IF mode = "service" THEN [c EXCEPT !.environments = MapTargets(@, AutoSelected)] ELSE c
AnswerLoad(ok) ==
  /\ phase = "loading" /\ phase' = "editing"
  /\ config' = (IF ok THEN Mounted(Read(Exported(stored))) ELSE Mounted(config))
  /\ fresh' = (ok /\ config' = Read(Exported(stored)))
  /\ stored' = IF mode = "workspace" THEN stored ELSE NoForm
  /\ kept' = IF fresh' THEN kept ELSE NoForm
  /\ UNCHANGED <<mode, editing, openTarget, credentials, filling, sent, edits, importerVars>>
(* The profiles arrive: a selector takes the place of the fields.          *)
AnswerCredentials ==
  LET Shown(t) == IF mode = "service" \/ t.id = openTarget
                  THEN IF Untouched(t) THEN WithProfile(t, FirstProfile) ELSE t
                  ELSE t
      c == [config EXCEPT !.environments = MapTargets(@, Shown)]
  IN  /\ ~credentials /\ credentials' = TRUE /\ phase # "left"
      /\ config' = (IF phase = "loading" THEN config ELSE c) /\ fresh' = (fresh /\ config' = config)
      /\ kept' = IF fresh' \/ phase = "loading" THEN kept ELSE NoForm
      /\ UNCHANGED <<mode, editing, phase, openTarget, filling, sent, stored, edits, importerVars>>

(* The Import dialog: text that can be read replaces the form.  What is    *)
(* under way finds no part of the new one.                                 *)
onImport ==
  /\ Edit(Sample(IF mode = "service" THEN mode ELSE "workspace"))
  /\ openTarget' = Nowhere
  /\ filling' = [i \in DOMAIN filling |-> [filling[i] EXCEPT !.id = 0]]
  /\ ShowImporter(Nowhere, [i \in DOMAIN questions |-> [questions[i] EXCEPT !.at = Nowhere]])
  /\ UNCHANGED <<mode, editing, phase, credentials, sent, stored>>

saveToServer ==
  /\ phase = "editing" /\ importing = Nowhere /\ phase' = "saving" /\ sent' = config
  /\ fresh' = FALSE /\ kept' = NoForm
  /\ UNCHANGED <<mode, editing, config, openTarget, credentials, filling, stored, edits, importerVars>>
SaveFails ==
  /\ phase = "saving" /\ phase' = "editing" /\ sent' = NoForm
  /\ UNCHANGED <<mode, editing, config, openTarget, credentials, filling, stored, kept, fresh, edits, importerVars>>
(* The page of what is managed takes the builder's place.  A name that was *)
(* edited is refused for a workspace, and passed over for the others.      *)
Stored ==
  IF editing = NoName THEN Written(sent)
  ELSE IF mode = "workspace" THEN preserveSensitiveTargetFields(Written(sent), stored)
  ELSE [Written(sent) EXCEPT !.name = editing]
Saved ==
  /\ phase = "saving" /\ Accepted(Written(sent))
  /\ phase' = "left" /\ stored' = Stored /\ editing' = Stored.name /\ kept' = sent /\ sent' = NoForm
  /\ config' = initialConfig(mode) /\ openTarget' = Nowhere /\ filling' = <<>>
  /\ credentials' = FALSE /\ fresh' = FALSE /\ ShowImporter(Nowhere, <<>>)
  /\ UNCHANGED <<mode, edits>>
Reopen ==
  /\ phase = "left" /\ phase' = "loading"
  /\ UNCHANGED <<mode, editing, config, openTarget, credentials, filling, sent, stored, kept, fresh, edits, importerVars>>

BuilderNext ==
  \/ addService
  \/ \E s \in ToSet(config.services) :
       removeService(s) \/ cloneService(s) \/ SetService(s) \/ handleResourceSelect(s)
  \/ \E i \in 1..Len(filling), ok \in BOOLEAN : AnswerResource(i, ok)
  \/ addEnvironment
  \/ \E e \in ToSet(config.environments) :
       \/ removeEnvironment(e) \/ cloneEnvironment(e) \/ addTarget(e)
       \/ \E n \in Names \cup {NoName} : RenameEnvironment(e, n)
       \/ \E t \in ToSet(e.targets) : removeTarget(e, t) \/ cloneTarget(e, t) \/ Unfold(e, t) \/ SetTarget(e, t)
  \/ \E n \in Names \cup {NoName} : SetName(n)
  \/ SetHierarchy
  \/ SetOnlyService
  \/ \E t \in TargetsOf(config) : OpenImporter(t)
  \/ CloseImporter
  \/ importing # Nowhere /\ ImporterStep({s.name : s \in ToSet(config.services)}) /\ UNCHANGED formVars
  \/ \E i \in 1..Len(questions) : AnswerConnect(i)
  \/ \E ok \in BOOLEAN : AnswerLoad(ok)
  \/ AnswerCredentials
  \/ onImport
  \/ saveToServer
  \/ SaveFails
  \/ Saved
  \/ Reopen

BuilderSpec == BuilderInit /\ [][BuilderNext]_builderVars

-----------------------------------------------------------------------------
(* A service that is ticked on a target, and an override of it, stay with  *)
(* it through renames, copies, imports and late answers, as long as it is  *)
(* there and a name tells it from the others (ConfigBuilder.tsx:936-999).  *)
LinksFollowRenames ==
  \A t \in TargetsOf(config), s \in ToSet(config.services) :
    /\ s.id \in t.ticked => s.name \in ToSet(t.names)
    /\ \A o \in t.overrides : s.id \in o.of => o.name = s.name

Named(c) ==
  /\ mode = "workspace" => c.name # NoName
  /\ \A s \in ToSet(c.services) : s.name # NoName
  /\ \A e \in ToSet(c.environments) : mode = "workspace" => e.name # NoName
  /\ \A t \in TargetsOf(c) : t.name # NoName /\ NoName \notin ToSet(t.names)
(* What the form does not show again: secrets, and in a workspace whether  *)
(* a certificate was taken out.                                            *)
Withheld(m) == IF m = "workspace" THEN {"secret", "cert"} ELSE {"secret"}
Contents(c, Of(_), OfService(_)) ==
  LET Says(t) == [Of(t) EXCEPT !.id = 0, !.ticked = {}, !.login = @ \ Withheld(mode),
                               !.overrides = {[name |-> o.name, fields |-> o.fields] : o \in @}]
  IN  [c EXCEPT !.name = IF mode = "workspace" THEN @ ELSE NoName,
                !.services = [i \in DOMAIN @ |-> [OfService(@[i]) EXCEPT !.id = 0]],
                !.environments = [i \in DOMAIN @ |->
                   [name |-> @[i].name, targets |-> [j \in DOMAIN @[i].targets |-> Says(@[i].targets[j])]]]]

(* What was saved is what the form shows when it is opened again, but for  *)
(* the secrets: services, targets, links and overrides, and in a workspace *)
(* its name, the profiles and the resources too (generateYaml.ts,          *)
(* parseYaml.ts, App.tsx:370-498).                                         *)
SavedIsReopened ==
  LET Same(x)      == x
      NoLogin(t)   == [t EXCEPT !.profile = NoProfile]
      NoSource(s)  == [s EXCEPT !.resource = NoResource, !.name = IF mode = "service" THEN NoName ELSE @]
  IN  fresh /\ Named(kept) =>
        IF mode = "workspace"
        THEN Contents(config, Same, Same) = Contents(kept, Same, Same)
        ELSE Contents(config, NoLogin, NoSource) = Contents(kept, NoLogin, NoSource)

(* "(server mode only) select a stored credential profile"                 *)
(* (config-builder.md:90): a profile that was chosen is still chosen when  *)
(* what was saved is opened again.  The bodies of the requests leave it    *)
(* out (App.tsx:376-382,452-456).                                          *)
ProfileSurvivesSaving ==
  LET Logins(c) == [i \in DOMAIN c.environments |->
                      [j \in DOMAIN c.environments[i].targets |-> c.environments[i].targets[j].profile]]
  IN  fresh /\ Named(kept) => Logins(config) = Logins(kept)

(* "All service names referenced in `service_names` ... must match a       *)
(* defined service ... The config builder enforces these rules as you go"  *)
(* (configuration.md:425-429); a removed service stays referred to.        *)
RulesEnforced ==
  phase = "saving" => \A t \in TargetsOf(sent) :
                        ToSet(t.names) \subseteq {s.name : s \in ToSet(sent.services)}
=============================================================================
