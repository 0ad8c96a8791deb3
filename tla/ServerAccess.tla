--------------------------- MODULE ServerAccess ---------------------------
(***************************************************************************)
(* Log streams and download links side by side, over the same callers and  *)
(* the same clock.                                                         *)
(***************************************************************************)
EXTENDS StreamAccess, DownloadTickets

vars == <<now, valid, stream, ticket>>

Init ==
  /\ now = 0
  /\ valid \in SUBSET Tokens
  /\ StreamInit
  /\ TicketInit

Access(t) ==
  /\ Allow(t) \/ Revoke(t)
  /\ Note
  /\ UNCHANGED <<at, token, due, active, raced, ticket>>

Pass ==
  /\ Tick
  /\ Punctual
  /\ UNCHANGED <<stream, ticket>>

Next ==
  \/ \E c \in Conns : StreamStep(c) /\ UNCHANGED ticket
  \/ TicketStep /\ UNCHANGED stream
  \/ \E t \in Tokens : Access(t)
  \/ Pass

Spec == Init /\ [][Next]_vars
=============================================================================
