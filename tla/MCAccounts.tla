----------------------------- MODULE MCAccounts -----------------------------
(* Accounts on a small instance: two requests at a time.  One grant stands for
   every scope without an expiry, the empty one of a registered account too. *)
EXTENDS Accounts, TLC

CONSTANTS root, bob, forever, p1, brief

MCRootRow == [name |-> root, role |-> "admin", status |-> "active",
              pw |-> p1, grant |-> forever]
Symmetry == Permutations(Tokens) \cup Permutations(Requests)
            \cup Permutations(Ids \ {Root})
=============================================================================
