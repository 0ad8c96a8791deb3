-------------------------- MODULE DownloadTickets --------------------------
(***************************************************************************)
(* Single-use download links (download_tickets.go and authMiddleware).     *)
(*                                                                         *)
(* A ticket stands for its caller's session token, for one path.  A GET    *)
(* that carries a ticket first takes it out of the store under the lock,   *)
(* then authenticates with the token it stood for.                         *)
(***************************************************************************)
EXTENDS Callers

CONSTANTS
  Tickets,    \* ticket ids (256 random bits), never reused
  Paths,      \* API paths
  Downloads,  \* GET requests that carry a ticket
  TTL,        \* downloadTicketTTL
  NoTicket    \* what a lookup of an unknown ticket yields

ASSUME TicketAssumption ==
  /\ TTL \in Nat
  /\ NoTicket \notin [token : Tokens, path : Paths, expires : Nat]
  /\ NoTicket \notin [token : Tokens, path : Paths, at : Nat]
  /\ NoTicket \notin [ticket : Tickets, token : Tokens, path : Paths, at : Nat]

VARIABLES
  tickets,    \* the ticket store
  issued,     \* ids given out: for whom, for which path and when
  down,       \* download -> what it holds after redeeming, or NoTicket
  \* history, read by the properties only:
  redeemed,   \* ticket -> how many requests got past redeem with it
  served,     \* downloads served: [ticket, token, path, at]
  tried       \* tickets that some request presented

ticket == <<tickets, issued, down, redeemed, served, tried>>

Ticket == [token : Tokens, path : Paths, expires : 0..(Horizon + TTL)]
Grant  == [token : Tokens, path : Paths, at : 0..Horizon]
Held   == [ticket : Tickets, token : Tokens, path : Paths, at : 0..Horizon]

TicketInit ==
  /\ tickets = [k \in Tickets |-> NoTicket]
  /\ issued = [k \in Tickets |-> NoTicket]
  /\ down = [d \in Downloads |-> NoTicket]
  /\ redeemed = [k \in Tickets |-> 0]
  /\ served = {}
  /\ tried = {}

Expired(k) == tickets[k] # NoTicket /\ now > tickets[k].expires

ExpiryInSeconds == now + 60 * TTL  \* fault: the wrong unit

Expiry == now + TTL

(* handleCreateDownloadTicket: the caller is authenticated; expired tickets are
   dropped first. *)
Issue(k, t, p) ==
  LET new == [token |-> t, path |-> p, expires |-> Expiry] IN
  /\ t \in valid
  /\ issued[k] = NoTicket
  /\ issued' = [issued EXCEPT ![k] = [token |-> t, path |-> p, at |-> now]]
  /\ tickets' = [j \in Tickets |->
                   IF j = k THEN new ELSE IF Expired(j) THEN NoTicket ELSE tickets[j]]
  /\ UNCHANGED <<now, valid, down, redeemed, served, tried>>

(* redeem: whatever the outcome, the ticket is gone. *)
AnyPath(k, p) == tickets[k] # NoTicket /\ ~Expired(k)     \* fault: the path is not compared

NeverStale(k, p) == tickets[k] # NoTicket /\ tickets[k].path = p  \* fault: no expiry

Good(k, p) == tickets[k] # NoTicket /\ tickets[k].path = p /\ ~Expired(k)

KeptIfWrong(k, p) ==              \* fault: a refused ticket stays usable
  IF Good(k, p) THEN [tickets EXCEPT ![k] = NoTicket] ELSE tickets

Consumed(k, p) == [tickets EXCEPT ![k] = NoTicket]

Redeem(d, k, p) ==
  /\ down[d] = NoTicket
  /\ issued[k] # NoTicket
  /\ tickets' = Consumed(k, p)
  /\ tried' = tried \cup {k}
  /\ IF Good(k, p)
     THEN /\ down' = [down EXCEPT ![d] = [ticket |-> k, token |-> tickets[k].token,
                                          path |-> p, at |-> now]]
          /\ redeemed' = [redeemed EXCEPT ![k] = @ + 1]
     ELSE UNCHANGED <<down, redeemed>>
  /\ UNCHANGED <<now, valid, issued, served>>

(* Authenticate with the token the ticket stood for. *)
Serve(d) ==
  /\ down[d] # NoTicket
  /\ served' = IF down[d].token \in valid THEN served \cup {down[d]} ELSE served
  /\ down' = [down EXCEPT ![d] = NoTicket]
  /\ UNCHANGED <<now, valid, tickets, issued, redeemed, tried>>

TicketStep ==
  \/ \E k \in Tickets, t \in Tokens, p \in Paths : Issue(k, t, p)
  \/ \E d \in Downloads, k \in Tickets, p \in Paths : Redeem(d, k, p)
  \/ \E d \in Downloads : Serve(d)
-----------------------------------------------------------------------------
TicketTypeOK ==
  /\ tickets \in [Tickets -> Ticket \cup {NoTicket}]
  /\ issued \in [Tickets -> Grant \cup {NoTicket}]
  /\ down \in [Downloads -> Held \cup {NoTicket}]
  /\ redeemed \in [Tickets -> Nat]
  /\ served \subseteq Held
  /\ tried \subseteq Tickets

(* authentication.md: a ticket "works once", however many requests present it
   at the same time, and a request it does not fit uses it up. *)
WorksOnce ==
  \A k \in Tickets :
    /\ redeemed[k] <= 1
    /\ k \in tried => tickets[k] = NoTicket

(* authentication.md: a ticket "is only valid for that path ... and expires
   after one minute": whoever downloads with it acts as the caller it was
   issued to, on the path it was issued for, and redeemed it in time. *)
OnlyAsIssued ==
  \A h \in served \cup {down[d] : d \in {d \in Downloads : down[d] # NoTicket}} :
    LET i == issued[h.ticket] IN
    i # NoTicket /\ h.token = i.token /\ h.path = i.path /\ h.at <= i.at + TTL

(* What a ticket is good for (issue, redeem, authMiddleware). *)
TicketsHold == WorksOnce /\ OnlyAsIssued
=============================================================================
