---------------------------- MODULE ServiceList -----------------------------
(***************************************************************************)
(* The services of an environment with what their last check said          *)
(* (web/src, ServiceList.tsx).  The list and every check are requests of   *)
(* their own; what a check says is kept under the service's name alone.    *)
(***************************************************************************)
EXTENDS Integers, Sequences, SequencesExt

CONSTANTS
  ServiceEnvs,    \* environments, which may have services of the same name
  ServiceNames,
  NoEnv,
  MaxChecks       \* bound: requests that are under way at once

VARIABLES
  env,            \* sourceKey: the environment that is shown
  services,       \* [of, names]: the list that was loaded last
  listLoading, listError,
  health,         \* name -> [state, of], `of` the environment that was asked
  checks,         \* requests under way, in the order they were made
  lateCheck       \* history: an answer has overtaken an older one

serviceVars == <<env, services, listLoading, listError, health, checks, lateCheck>>

NoHealth  == [state |-> "none", of |-> NoEnv]
LoadOf(e) == [kind |-> "list", env |-> e, name |-> NoEnv]
CheckOf(e, name) == [kind |-> "check", env |-> e, name |-> name]

ServiceListInit ==
  /\ env \in ServiceEnvs /\ services = [of |-> NoEnv, names |-> {}]
  /\ listLoading = TRUE /\ listError = FALSE
  /\ health = [n \in ServiceNames |-> NoHealth]
  /\ checks = <<LoadOf(env)>> /\ lateCheck = FALSE

Request(req) ==
  /\ Len(checks) < MaxChecks /\ checks' = Append(checks, req)
  /\ lateCheck' = (lateCheck /\ (checks # <<>> \/ req.kind = "check"))

Checking(name) == health[name].state = "checking"

(* The effect of a new environment loads its list; so do Refresh, which is *)
(* off while anything is loaded or checked, and Retry.                     *)
ShowEnv(e) ==
  /\ e # env /\ env' = e /\ listLoading' = TRUE
  /\ Request(LoadOf(e)) /\ UNCHANGED <<services, listError, health>>
loadAll ==
  /\ listError \/ (~listLoading /\ \A n \in ServiceNames : ~Checking(n))
  /\ listLoading' = TRUE
  /\ Request(LoadOf(env)) /\ UNCHANGED <<env, services, listError, health>>

AsChecking(e, names) ==
  [n \in ServiceNames |-> IF n \in names THEN [state |-> "checking", of |-> e] ELSE health[n]]
runCheck(name) ==
  /\ name \in services.names /\ ~listLoading /\ ~Checking(name)
  /\ health' = AsChecking(env, {name})
  /\ Request(CheckOf(env, name)) /\ UNCHANGED <<env, services, listLoading, listError>>

-----------------------------------------------------------------------------
Gone(i) == RemoveAt(checks, i)
InTurn(i) == lateCheck' = (lateCheck \/ i > 1)

(* A list that arrives has its services checked, one request each. *)
UncheckedOnly(names) == {n \in names : health[n] = NoHealth}   \* mutant: only those with no result yet
ToCheck(names)       == names
AnswerServices(i) ==
  LET e == checks[i].env
      due == SetToSeq({CheckOf(e, n) : n \in ToCheck(ServiceNames)})
  IN  /\ checks[i].kind = "list" /\ InTurn(i)
      /\ services' = [of |-> e, names |-> ServiceNames]
      /\ listLoading' = FALSE /\ listError' = FALSE
      /\ health' = AsChecking(e, ToCheck(ServiceNames))
      /\ checks' = Gone(i) \o due /\ UNCHANGED env
AnswerServicesFails(i) ==
  /\ checks[i].kind = "list" /\ InTurn(i) /\ checks' = Gone(i)
  /\ listLoading' = FALSE /\ listError' = TRUE /\ UNCHANGED <<env, services, health>>

AnswerCheck(i, state) ==
  /\ checks[i].kind = "check" /\ InTurn(i) /\ checks' = Gone(i)
  /\ health' = [health EXCEPT ![checks[i].name] = [state |-> state, of |-> checks[i].env]]
  /\ UNCHANGED <<env, services, listLoading, listError>>

ServiceListNext ==
  \/ \E e \in ServiceEnvs : ShowEnv(e)
  \/ loadAll
  \/ \E n \in ServiceNames : runCheck(n)
  \/ \E i \in 1..Len(checks) : AnswerServices(i) \/ AnswerServicesFails(i)
  \/ \E i \in 1..Len(checks), s \in {"up", "down"} : AnswerCheck(i, s)

-----------------------------------------------------------------------------
(* When everything that was asked has been answered in turn, the dot of    *)
(* every service says what a check of the environment that is shown said,  *)
(* and never "checking" (ServiceList.tsx:44-67): a service of the same     *)
(* name in the environment shown before left no result behind.             *)
StatusIsOfEnv ==
  checks = <<>> /\ ~lateCheck /\ ~listError =>
    \A n \in services.names : health[n].of = env /\ health[n].state \in {"up", "down"}
=============================================================================
