------------------------------ MODULE MCAdmin -------------------------------
(* One account, one profile, two hosts of which one can be reached, and a  *)
(* tree of two levels beside a single entry.                               *)
EXTENDS AdminPage

CONSTANTS u1, n1, h1, h2, v1, v2

Tree == {<<"w">>, <<"w", "e">>, <<"w", "e", "s">>, <<"x">>}
=============================================================================
