------------------------------ MODULE MCRouter ------------------------------
(* A small system with an environment and a namespace that are named like  *)
(* words of an address.                                                    *)
EXTENDS Router
MCEnvironments == {"prod", "svc"}
=============================================================================
