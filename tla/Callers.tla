------------------------------ MODULE Callers ------------------------------
(***************************************************************************)
(* Time, and the callers of the server as its long-lived parts see them:   *)
(* the tokens that Authenticate accepts now and whose user may read the    *)
(* source in question.  Logging out, disabling, expiry, a narrower scope   *)
(* or switching a section off take a token out; enabling, approving or     *)
(* widening again may bring it back (see Accounts for the former).         *)
(***************************************************************************)
EXTENDS Naturals, FiniteSets

CONSTANTS
  Tokens,     \* session tokens
  Horizon     \* bound on the time modelled

ASSUME HorizonAssumption == Horizon \in Nat

VARIABLES
  now,        \* the clock
  valid       \* tokens that grant access now

Allow(t) == t \notin valid /\ valid' = valid \cup {t} /\ UNCHANGED now

Revoke(t) == t \in valid /\ valid' = valid \ {t} /\ UNCHANGED now

Tick == now < Horizon /\ now' = now + 1 /\ UNCHANGED valid
=============================================================================
