--------------------------- MODULE MCServerAccess ---------------------------
(* Two sockets race for one place; two requests race for one ticket. *)
EXTENDS ServerAccess

CONSTANTS t1, c1, c2, k1, p1, p2, d1, d2
=============================================================================
