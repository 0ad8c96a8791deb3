------------------------------ MODULE LogTail -------------------------------
(***************************************************************************)
(* What every log view of the web interface promises, whatever sockets,    *)
(* buffers and timers are behind it: of the lines that came, it shows the  *)
(* end, without a gap, in the order in which they came, and at least so    *)
(* many of them that Fewest are left when it drops old ones.               *)
(***************************************************************************)
EXTENDS Integers, Sequences

CONSTANTS
  Line,           \* what may come
  Fewest          \* lines that are never dropped

VARIABLES
  shown,          \* the lines the view shows
  coming          \* lines that came and are not shown yet

TailInit == shown = <<>> /\ coming = <<>>

(* Its length tells a line that came from other steps at once. *)
Come ==
  /\ UNCHANGED shown
  /\ Len(coming') = Len(coming) + 1
  /\ \E line \in Line : coming' = Append(coming, line)

Show ==
  /\ coming' = <<>>
  /\ LET all == shown \o coming
     IN  \E first \in 1..Len(all) + 1 :
           /\ shown' = SubSeq(all, first, Len(all))
           /\ first > 1 => Len(shown') >= Fewest

(* A view is cleared by the user; another stream begins with what was not  *)
(* shown of the former one lost.                                           *)
Clear  == shown' = <<>> /\ UNCHANGED coming
Switch == coming' = <<>> /\ shown' \in {<<>>, shown}

TailNext == Come \/ Show \/ Clear \/ Switch

TailSpec == TailInit /\ [][TailNext]_<<shown, coming>>
=============================================================================
