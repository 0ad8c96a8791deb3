-------------------- MODULE AccessAndAddresses_proofs ----------------------
(***************************************************************************)
(* Who is let in, and where: proofs about open streams and download        *)
(* tickets (ServerAccess), and about the addresses of the web interface    *)
(* and what they lead to (Router).  The two share no name.                 *)
(***************************************************************************)
EXTENDS ServerAccess, Router, SequenceTheorems, FiniteSetTheorems, TLAPS

TicketRecord == [token : Tokens, path : Paths, expires : Nat]
GrantRecord  == [token : Tokens, path : Paths, at : Nat]
HeldRecord   == [ticket : Tickets, token : Tokens, path : Paths, at : Nat]

Typed ==
  /\ now \in Nat /\ valid \subseteq Tokens
  /\ at \in [Conns -> Points]
  /\ token \in [Conns -> Tokens \cup {NoToken}]
  /\ due \in [Conns -> Nat] /\ lostAt \in [Conns -> Nat]
  /\ active \in Int /\ raced \subseteq Conns
  /\ tickets \in [Tickets -> TicketRecord \cup {NoTicket}]
  /\ issued \in [Tickets -> GrantRecord \cup {NoTicket}]
  /\ down \in [Downloads -> HeldRecord \cup {NoTicket}]
  /\ redeemed \in [Tickets -> Nat]
  /\ served \subseteq HeldRecord
  /\ tried \subseteq Tickets

(* An open stream is checked again at most Interval from now, and, once its
   access is lost, at most Interval from the loss. *)
Watched(c) ==
  /\ now <= due[c] /\ due[c] <= now + Interval
  /\ lostAt[c] <= now
  /\ token[c] \notin valid => due[c] <= lostAt[c] + Interval
WatchInv == \A c \in Conns : at[c] = "open" => Watched(c)

(* Sockets that passed the check and are still being upgraded count too; a
   request that raced is one of those or open. *)
LimitInv ==
  /\ \A c \in raced : at[c] \in {"admitted", "open", "revoked"}
  /\ active + Cardinality(At("admitted")) <= Limit + Cardinality(raced)

(* A ticket is in the store from its issue, unchanged, until it is tried. *)
Sound(k) ==
  /\ issued[k] = NoTicket => tickets[k] = NoTicket /\ k \notin tried /\ redeemed[k] = 0
  /\ redeemed[k] <= 1
  /\ redeemed[k] = 1 => k \in tried
  /\ k \in tried => tickets[k] = NoTicket
  /\ tickets[k] # NoTicket =>
       /\ tickets[k].token = issued[k].token /\ tickets[k].path = issued[k].path
       /\ tickets[k].expires = issued[k].at + TTL
StoreInv == \A k \in Tickets : Sound(k)

(* What a download holds, or was served with, is as its ticket was issued. *)
AsIssued(h) ==
  LET i == issued[h.ticket] IN
  i # NoTicket /\ h.token = i.token /\ h.path = i.path /\ h.at <= i.at + TTL
HeldInv ==
  /\ \A h \in served : AsIssued(h)
  /\ \A d \in Downloads : down[d] # NoTicket => AsIssued(down[d])

-----------------------------------------------------------------------------
LEMMA InitTyped == Init => Typed
BY AccessAssumption, TicketAssumption DEF Init, StreamInit, TicketInit, Typed, Points

LEMMA NextTyped == Typed /\ [Next]_vars => Typed'
<1> SUFFICES ASSUME Typed, [Next]_vars PROVE Typed'
  OBVIOUS
<1> USE AccessAssumption, TicketAssumption
<1>1. ASSUME NEW c \in Conns, StreamStep(c), UNCHANGED ticket PROVE Typed'
  <2> USE <1>1 DEF Typed, Points, Goto, ticket
  <2>1. ASSUME NEW t \in Tokens, Arrive(c, t) PROVE Typed'
    BY <2>1 DEF Arrive
  <2>2. CASE Admit(c) BY <2>2 DEF Admit
  <2>3. CASE Accept(c) BY <2>3 DEF Accept, NextCheck
  <2>4. CASE AcceptFails(c) BY <2>4 DEF AcceptFails
  <2>5. CASE Recheck(c) BY <2>5 DEF Recheck, NextCheck
  <2>6. CASE RecheckFails(c) BY <2>6 DEF RecheckFails
  <2>7. CASE Leave(c) BY <2>7 DEF Leave, Uncounted
  <2> QED BY <2>1, <2>2, <2>3, <2>4, <2>5, <2>6, <2>7 DEF StreamStep
<1>2. ASSUME NEW k \in Tickets, NEW t \in Tokens, NEW p \in Paths, Issue(k, t, p), UNCHANGED stream
      PROVE Typed'
  <2>1. /\ tickets' \in [Tickets -> TicketRecord \cup {NoTicket}]
        /\ issued' \in [Tickets -> GrantRecord \cup {NoTicket}]
    <3>1. [token |-> t, path |-> p, expires |-> Expiry] \in TicketRecord
      BY DEF Typed, TicketRecord, Expiry
    <3>2. [token |-> t, path |-> p, at |-> now] \in GrantRecord
      BY DEF Typed, GrantRecord
    <3> QED BY <1>2, <3>1, <3>2 DEF Typed, Issue
  <2> QED BY <1>2, <2>1 DEF Typed, Issue, stream
<1>3. ASSUME NEW d \in Downloads, NEW k \in Tickets, NEW p \in Paths, Redeem(d, k, p), UNCHANGED stream
      PROVE Typed'
  <2>1. down' \in [Downloads -> HeldRecord \cup {NoTicket}]
    <3>1. CASE Good(k, p)
      <4>1. tickets[k] \in TicketRecord
        BY <3>1 DEF Good, Typed
      <4>2. [ticket |-> k, token |-> tickets[k].token, path |-> p, at |-> now] \in HeldRecord
        BY <4>1 DEF Typed, HeldRecord, TicketRecord
      <4> QED BY <1>3, <3>1, <4>2 DEF Redeem, Typed
    <3>2. CASE ~Good(k, p) BY <1>3, <3>2 DEF Redeem, Typed
    <3> QED BY <3>1, <3>2
  <2>2. redeemed' \in [Tickets -> Nat]
    BY <1>3 DEF Redeem, Typed
  <2>3. tickets' \in [Tickets -> TicketRecord \cup {NoTicket}] /\ tried' \subseteq Tickets
    BY <1>3 DEF Redeem, Typed, Consumed
  <2> QED BY <1>3, <2>1, <2>2, <2>3 DEF Redeem, Typed, stream
<1>4. ASSUME NEW d \in Downloads, Serve(d), UNCHANGED stream PROVE Typed'
  BY <1>4 DEF Serve, Typed, stream
<1>5. ASSUME NEW t \in Tokens, Access(t) PROVE Typed'
  BY <1>5 DEF Access, Allow, Revoke, Note, Typed, ticket
<1>6. CASE Pass
  BY <1>6 DEF Pass, Tick, Typed, stream, ticket
<1>7. CASE UNCHANGED vars
  BY <1>7 DEF vars, stream, ticket, Typed
<1> QED BY <1>1, <1>2, <1>3, <1>4, <1>5, <1>6, <1>7 DEF Next, TicketStep

-----------------------------------------------------------------------------
(* The watcher. *)
LEMMA InitWatched == Init => WatchInv
BY DEF Init, StreamInit, WatchInv

LEMMA NextWatched == Typed /\ WatchInv /\ [Next]_vars => WatchInv'
<1> SUFFICES ASSUME Typed, WatchInv, [Next]_vars PROVE WatchInv'
  OBVIOUS
<1> USE AccessAssumption DEF WatchInv, Watched
<1>1. ASSUME NEW c \in Conns, StreamStep(c) PROVE WatchInv'
  <2> USE <1>1 DEF Typed, Goto
  <2>1. ASSUME NEW t \in Tokens, Arrive(c, t) PROVE WatchInv'
    BY <2>1 DEF Arrive
  <2>2. CASE Admit(c) BY <2>2 DEF Admit
  <2>3. CASE Accept(c) BY <2>3 DEF Accept, NextCheck
  <2>4. CASE AcceptFails(c) BY <2>4 DEF AcceptFails
  <2>5. CASE Recheck(c)
    <3>1. now = due[c] BY <2>5 DEF Recheck
    <3> QED BY <2>5, <3>1 DEF Recheck, NextCheck
  <2>6. CASE RecheckFails(c) BY <2>6 DEF RecheckFails
  <2>7. CASE Leave(c) BY <2>7 DEF Leave
  <2> QED BY <2>1, <2>2, <2>3, <2>4, <2>5, <2>6, <2>7 DEF StreamStep
<1>2. CASE TicketStep /\ UNCHANGED stream
  <2>1. UNCHANGED <<now, valid>> BY <1>2 DEF TicketStep, Issue, Redeem, Serve
  <2> QED BY <1>2, <2>1 DEF stream
<1>3. ASSUME NEW t \in Tokens, Access(t) PROVE WatchInv'
  <2>1. UNCHANGED <<now, at, token, due>>
    BY <1>3 DEF Access, Allow, Revoke
  <2>2. ASSUME NEW c \in Conns
        PROVE lostAt'[c] = IF at[c] = "open" /\ token[c] \in valid THEN now ELSE lostAt[c]
    BY <1>3 DEF Access, Note
  <2> QED BY <2>1, <2>2 DEF Typed
<1>4. CASE Pass
  <2>1. /\ now' = now + 1 /\ UNCHANGED <<valid, at, token, due, lostAt>>
        /\ \A c \in Conns : at[c] = "open" => now < due[c]
    BY <1>4 DEF Pass, Tick, Punctual, stream, At
  <2> QED BY <2>1 DEF Typed
<1>5. CASE UNCHANGED vars
  BY <1>5 DEF vars, stream
<1> QED BY <1>1, <1>2, <1>3, <1>4, <1>5 DEF Next

LEMMA WatchedInTime == Typed /\ WatchInv => LossClosesInTime
BY AccessAssumption DEF Typed, WatchInv, Watched, LossClosesInTime, At

-----------------------------------------------------------------------------
(* The limit. *)
LEMMA Finite ==
  ASSUME Typed
  PROVE /\ IsFiniteSet(At("admitted")) /\ IsFiniteSet(raced)
        /\ Cardinality(At("admitted")) \in Nat /\ Cardinality(raced) \in Nat
<1>1. At("admitted") \subseteq Conns /\ raced \subseteq Conns
  BY DEF At, Typed
<1> QED BY <1>1, AccessAssumption, FS_Subset, FS_CardinalityType

(* One request less among those that raced: at most one less. *)
LEMMA OneLess ==
  ASSUME NEW S, IsFiniteSet(S), NEW x
  PROVE /\ Cardinality(S \ {x}) = IF x \in S THEN Cardinality(S) - 1 ELSE Cardinality(S)
BY FS_RemoveElement, S \ {x} = S \/ x \in S, FS_CardinalityType

LEMMA OneMore ==
  ASSUME NEW S, IsFiniteSet(S), NEW x, x \notin S
  PROVE Cardinality(S \cup {x}) = Cardinality(S) + 1
BY FS_AddElement

LEMMA InitLimit == Init => LimitInv
<1> SUFFICES ASSUME Init PROVE LimitInv
  OBVIOUS
<1>1. At("admitted") = {} /\ raced = {} /\ active = 0
  BY DEF Init, StreamInit, At
<1> QED BY <1>1, FS_EmptySet, AccessAssumption DEF LimitInv

LEMMA NextLimit == Typed /\ LimitInv /\ [Next]_vars => LimitInv'
<1> SUFFICES ASSUME Typed, LimitInv, [Next]_vars PROVE LimitInv'
  OBVIOUS
<1> DEFINE adm == Cardinality(At("admitted"))
           rcd == Cardinality(raced)
<1>0. /\ IsFiniteSet(At("admitted")) /\ IsFiniteSet(raced) /\ adm \in Nat /\ rcd \in Nat
      /\ active \in Int /\ Limit \in Nat /\ active + adm <= Limit + rcd
      /\ \A c \in raced : at[c] \in {"admitted", "open", "revoked"}
      /\ at \in [Conns -> Points]
  BY Finite, AccessAssumption DEF Typed, LimitInv
<1>1. ASSUME NEW c \in Conns, StreamStep(c) PROVE LimitInv'
  <2>1. ASSUME NEW t \in Tokens, Arrive(c, t) PROVE LimitInv'
    <3>1. At("admitted")' = At("admitted") /\ UNCHANGED <<raced, active>>
      BY <1>0, <2>1 DEF Arrive, Goto, At
    <3>2. \A x \in raced' : at'[x] \in {"admitted", "open", "revoked"}
      BY <1>0, <2>1 DEF Arrive, Goto, Typed
    <3> QED BY <1>0, <3>1, <3>2 DEF LimitInv
  <2>2. CASE Admit(c)
    <3>1. at[c] = "authorized" /\ c \notin raced /\ c \notin At("admitted") /\ UNCHANGED active
      BY <1>0, <2>2 DEF Admit, At
    <3>2. CASE active < Limit
      <4>1. At("admitted")' = At("admitted") \cup {c}
        BY <1>0, <2>2, <3>2 DEF Admit, Goto, At, BelowLimit
      <4>2. Cardinality(At("admitted")') = adm + 1
        BY <1>0, <3>1, <4>1, OneMore
      <4>3. \A x \in raced' : at'[x] \in {"admitted", "open", "revoked"}
        BY <1>0, <2>2, <3>2 DEF Admit, Goto, Typed, BelowLimit
      <4>4. CASE active + adm >= Limit
        <5>1. raced' = raced \cup {c}
          BY <2>2, <3>2, <4>4 DEF Admit
        <5>2. Cardinality(raced') = rcd + 1
          BY <1>0, <3>1, <5>1, OneMore
        <5> QED BY <1>0, <3>1, <4>2, <4>3, <5>2 DEF LimitInv
      <4>5. CASE ~(active + adm >= Limit)
        <5>1. raced' = raced
          BY <2>2, <4>5 DEF Admit
        <5> QED BY <1>0, <3>1, <4>2, <4>3, <4>5, <5>1 DEF LimitInv
      <4> QED BY <4>4, <4>5
    <3>3. CASE ~(active < Limit)
      <4>1. At("admitted")' = At("admitted") /\ raced' = raced
        BY <1>0, <2>2, <3>1, <3>3 DEF Admit, Goto, At, BelowLimit
      <4>2. \A x \in raced' : at'[x] \in {"admitted", "open", "revoked"}
        BY <1>0, <2>2, <3>1, <3>3 DEF Admit, Goto, Typed, BelowLimit
      <4> QED BY <1>0, <3>1, <4>1, <4>2 DEF LimitInv
    <3> QED BY <3>2, <3>3
  <2>3. CASE Accept(c)
    <3>1. At("admitted")' = At("admitted") \ {c} /\ c \in At("admitted") /\ raced' = raced
          /\ active' = active + 1
      BY <1>0, <2>3 DEF Accept, Goto, At
    <3>2. Cardinality(At("admitted")') = adm - 1
      BY <1>0, <3>1, OneLess
    <3>3. \A x \in raced' : at'[x] \in {"admitted", "open", "revoked"}
      BY <1>0, <2>3 DEF Accept, Goto, Typed
    <3> QED BY <1>0, <3>1, <3>2, <3>3 DEF LimitInv
  <2>4. CASE AcceptFails(c)
    <3>1. At("admitted")' = At("admitted") \ {c} /\ c \in At("admitted") /\ raced' = raced \ {c}
          /\ active' = active
      BY <1>0, <2>4 DEF AcceptFails, Goto, At
    <3>2. Cardinality(At("admitted")') = adm - 1 /\ Cardinality(raced') >= rcd - 1
      BY <1>0, <3>1, OneLess
    <3>3. \A x \in raced' : at'[x] \in {"admitted", "open", "revoked"}
      BY <1>0, <2>4 DEF AcceptFails, Goto, Typed
    <3>4. Cardinality(raced') \in Int
      BY <1>0, <3>1, OneLess
    <3> QED BY <1>0, <3>1, <3>2, <3>3, <3>4 DEF LimitInv
  <2>5. CASE Recheck(c) \/ RecheckFails(c)
    <3>1. At("admitted")' = At("admitted") /\ UNCHANGED <<raced, active>>
      BY <1>0, <2>5 DEF Recheck, RecheckFails, Goto, At
    <3>2. \A x \in raced' : at'[x] \in {"admitted", "open", "revoked"}
      BY <1>0, <2>5 DEF Recheck, RecheckFails, Goto, Typed
    <3> QED BY <1>0, <3>1, <3>2 DEF LimitInv
  <2>6. CASE Leave(c)
    <3>1. At("admitted")' = At("admitted") /\ raced' = raced \ {c} /\ active' = active - 1
      BY <1>0, <2>6 DEF Leave, Goto, At, Uncounted
    <3>2. Cardinality(raced') >= rcd - 1 /\ Cardinality(raced') \in Int
      BY <1>0, <3>1, OneLess
    <3>3. \A x \in raced' : at'[x] \in {"admitted", "open", "revoked"}
      BY <1>0, <2>6 DEF Leave, Goto, Typed
    <3> QED BY <1>0, <3>1, <3>2, <3>3 DEF LimitInv
  <2> QED BY <1>1, <2>1, <2>2, <2>3, <2>4, <2>5, <2>6 DEF StreamStep
<1>2. CASE UNCHANGED <<at, active, raced>>
  BY <1>2 DEF LimitInv, At
<1>3. TicketStep /\ UNCHANGED stream => UNCHANGED <<at, active, raced>>
  BY DEF stream
<1>4. \A t \in Tokens : Access(t) => UNCHANGED <<at, active, raced>>
  BY DEF Access
<1>5. Pass \/ UNCHANGED vars => UNCHANGED <<at, active, raced>>
  BY DEF Pass, vars, stream
<1> QED BY <1>1, <1>2, <1>3, <1>4, <1>5 DEF Next

LEMMA LimitedByRace == Typed /\ LimitInv => OverLimitOnlyByRace
<1> SUFFICES ASSUME Typed, LimitInv PROVE OverLimitOnlyByRace
  OBVIOUS
<1> QED BY Finite, AccessAssumption DEF LimitInv, OverLimitOnlyByRace, Typed

-----------------------------------------------------------------------------
(* The tickets. *)
LEMMA InitStore == Init => StoreInv /\ HeldInv
BY DEF Init, TicketInit, StoreInv, Sound, HeldInv

LEMMA IssueSound ==
  ASSUME Typed, StoreInv, HeldInv,
         NEW k \in Tickets, NEW t \in Tokens, NEW p \in Paths, Issue(k, t, p)
  PROVE StoreInv' /\ HeldInv'
<1> DEFINE new == [token |-> t, path |-> p, expires |-> Expiry]
           grant == [token |-> t, path |-> p, at |-> now]
<1>1. /\ tickets'[k] = new /\ issued'[k] = grant /\ issued[k] = NoTicket
      /\ \A j \in Tickets \ {k} : issued'[j] = issued[j] /\ tickets'[j] \in {tickets[j], NoTicket}
      /\ UNCHANGED <<down, redeemed, served, tried>>
  BY DEF Issue, Typed
<1>2. grant # NoTicket /\ new.expires = grant.at + TTL
  BY TicketAssumption DEF Typed, Expiry
<1>3. \A j \in Tickets : Sound(j)'
  <2> SUFFICES ASSUME NEW j \in Tickets PROVE Sound(j)'
    OBVIOUS
  <2>0. Sound(j)
    BY DEF StoreInv
  <2>1. CASE j = k
    BY <1>1, <1>2, <2>0, <2>1 DEF Sound, Typed
  <2>2. CASE j # k
    BY <1>1, <2>0, <2>2 DEF Sound
  <2> QED BY <2>1, <2>2
<1>4. ASSUME NEW h, h.ticket \in Tickets, AsIssued(h) PROVE AsIssued(h)'
  BY <1>1, <1>4 DEF AsIssued
<1>5. HeldInv'
  <2>1. ASSUME NEW h \in served' PROVE AsIssued(h)'
    BY <1>1, <1>4, <2>1 DEF HeldInv, Typed, HeldRecord
  <2>2. ASSUME NEW d \in Downloads, down'[d] # NoTicket PROVE AsIssued(down[d])'
    <3>1. down[d] \in HeldRecord /\ AsIssued(down[d])
      BY <1>1, <2>2 DEF HeldInv, Typed
    <3>2. AsIssued(down[d])' <=> (LET i == issued'[down[d].ticket] IN
             i # NoTicket /\ down[d].token = i.token /\ down[d].path = i.path /\ down[d].at <= i.at + TTL)
      BY <1>1 DEF AsIssued
    <3>3. down[d].ticket \in Tickets \ {k}
      BY <1>1, <3>1 DEF AsIssued, HeldRecord
    <3> QED BY <1>1, <3>1, <3>2, <3>3 DEF AsIssued
  <2> QED BY <2>1, <2>2 DEF HeldInv
<1> QED BY <1>3, <1>5 DEF StoreInv

LEMMA RedeemSound ==
  ASSUME Typed, StoreInv, HeldInv,
         NEW d \in Downloads, NEW k \in Tickets, NEW p \in Paths, Redeem(d, k, p)
  PROVE StoreInv' /\ HeldInv'
<1>1. /\ issued' = issued /\ served' = served /\ issued[k] # NoTicket
      /\ tickets' = [tickets EXCEPT ![k] = NoTicket] /\ tried' = tried \cup {k}
  BY DEF Redeem, Consumed
<1>2. CASE Good(k, p)
  <2> DEFINE held == [ticket |-> k, token |-> tickets[k].token, path |-> p, at |-> now]
  <2>1. /\ down' = [down EXCEPT ![d] = held]
        /\ redeemed' = [redeemed EXCEPT ![k] = @ + 1]
    BY <1>2 DEF Redeem
  <2>2. /\ tickets[k] # NoTicket /\ tickets[k] \in TicketRecord
        /\ tickets[k].path = p /\ now <= tickets[k].expires
    BY <1>2 DEF Good, Expired, Typed, TicketRecord
  <2>3. Sound(k) /\ redeemed[k] = 0
    <3>1. Sound(k) /\ redeemed[k] \in Nat
      BY DEF StoreInv, Typed
    <3>2. redeemed[k] <= 1 /\ redeemed[k] # 1
      BY <2>2, <3>1 DEF Sound
    <3> QED BY <3>1, <3>2
  <2>4. StoreInv'
    <3> SUFFICES ASSUME NEW j \in Tickets PROVE Sound(j)'
      BY DEF StoreInv
    <3>1. CASE j = k
      BY <1>1, <2>1, <2>3, <3>1 DEF Sound, Typed
    <3>2. CASE j # k
      BY <1>1, <2>1, <3>2 DEF StoreInv, Sound, Typed
    <3> QED BY <3>1, <3>2
  <2>5. HeldInv'
    <3>1. AsIssued(held)
      BY <1>1, <2>2, <2>3 DEF Sound, AsIssued
    <3>2. \A e \in Downloads : down'[e] = IF e = d THEN held ELSE down[e]
      BY <2>1 DEF Typed
    <3> HIDE DEF held
    <3> QED BY <1>1, <3>1, <3>2 DEF HeldInv, AsIssued
  <2> QED BY <2>4, <2>5
<1>3. CASE ~Good(k, p)
  <2>1. UNCHANGED <<down, redeemed>>
    BY <1>3 DEF Redeem
  <2>2. StoreInv'
    BY <1>1, <2>1 DEF StoreInv, Sound, Typed
  <2>3. HeldInv'
    BY <1>1, <2>1 DEF HeldInv, AsIssued
  <2> QED BY <2>2, <2>3
<1> QED BY <1>2, <1>3

LEMMA ServeSound ==
  ASSUME Typed, StoreInv, HeldInv, NEW d \in Downloads, Serve(d)
  PROVE StoreInv' /\ HeldInv'
<1>1. UNCHANGED <<tickets, issued, redeemed, tried>> /\ down[d] # NoTicket
  BY DEF Serve
<1>2. served' \subseteq served \cup {down[d]} /\ \A e \in Downloads : down'[e] \in {down[e], NoTicket}
  BY DEF Serve, Typed
<1>3. StoreInv'
  BY <1>1 DEF StoreInv, Sound
<1>4. HeldInv'
  BY <1>1, <1>2 DEF HeldInv, AsIssued
<1> QED BY <1>3, <1>4

LEMMA NextStore == Typed /\ StoreInv /\ HeldInv /\ [Next]_vars => StoreInv' /\ HeldInv'
<1> SUFFICES ASSUME Typed, StoreInv, HeldInv, [Next]_vars PROVE StoreInv' /\ HeldInv'
  OBVIOUS
<1>1. CASE TicketStep
  BY <1>1, IssueSound, RedeemSound, ServeSound DEF TicketStep
<1>2. CASE UNCHANGED ticket
  BY <1>2 DEF ticket, StoreInv, Sound, HeldInv, AsIssued
<1> QED BY <1>1, <1>2 DEF Next, Access, Pass, vars

LEMMA SoundTicketsHold == Typed /\ StoreInv /\ HeldInv => TicketsHold
<1> SUFFICES ASSUME Typed, StoreInv, HeldInv PROVE WorksOnce /\ OnlyAsIssued
  BY DEF TicketsHold
<1>1. WorksOnce
  BY DEF WorksOnce, StoreInv, Sound
<1>2. OnlyAsIssued
  BY DEF OnlyAsIssued, HeldInv, AsIssued
<1> QED BY <1>1, <1>2

-----------------------------------------------------------------------------
(* A stream whose caller lost access is closed within the interval, and the
   limit is exceeded only by requests that raced (stream_access.go:59,
   websocket.go:70-80). *)
THEOREM StreamsAdmitted == Spec => []StreamsStayAdmitted
<1>1. Typed /\ WatchInv /\ LimitInv => StreamsStayAdmitted
  BY WatchedInTime, LimitedByRace DEF StreamsStayAdmitted
<1> QED BY <1>1, InitTyped, NextTyped, InitWatched, NextWatched, InitLimit, NextLimit, PTL DEF Spec

(* A ticket works once, in time, and only as it was issued
   (download_tickets.go:56-75). *)
THEOREM TicketsAlwaysHold == Spec => []TicketsHold
BY InitTyped, NextTyped, InitStore, NextStore, SoundTicketsHold, PTL DEF Spec

-----------------------------------------------------------------------------
(* Addresses, for any names. *)

(* The pages the interface leads to, and the names they are of.  Beside    *)
(* Views there are a workspace's page of the other kind, and what an       *)
(* ambiguous address is taken for.                                         *)
Place(page, names) ==
  \/ page \in Fixed \cup Manage \cup {"workspaces"} /\ names = <<>>
  \/ \E w \in Workspaces :
       page \in {"edit-workspace", "environments", "workspace-services"} /\ names = <<w>>
  \/ \E s \in StandaloneServices : page \in {"edit-service", "standalone-svc-console"} /\ names = <<s>>
  \/ \E e \in StandaloneEnvs :
       page \in {"edit-environment", "standalone-env-services"} /\ names = <<e>>
  \/ \E e \in StandaloneEnvs, s \in Services : page = "standalone-env-console" /\ names = <<e, s>>
  \/ \E w \in Workspaces, e \in Environments : page = "services" /\ names = <<w, e>>
  \/ \E w \in Workspaces, e \in Environments, s \in Services :
       \/ page \in {"console", "files"} /\ names = <<w, e, s>>
       \/ page \in {"sf-console", "sf-files"} /\ names = <<w, s, e>>
  \/ \E w \in Workspaces, s \in Services :
       page \in {"service-environments", "service-storage"} /\ names = <<w, s>>
  \/ \E w \in Workspaces, s \in Services, n \in Names :
       page = "service-storage-console" /\ names = <<w, s, n>>
  \/ \E r \in Clusters \cup Storages : page = "resource-namespaces" /\ names = <<r>>
  \/ \E r \in Clusters, n \in Names : page = "resource-workloads" /\ names = <<r, n>>
  \/ \E r \in Clusters, n, m \in Names :
       page = "resource-console" /\ names = <<r, n, "deployment", m>>
  \/ \E r \in Clusters \cup Storages, n \in Names \cup {"deployment"} :
       page = "resource-storage-console" /\ names = <<r, n>>
Known(v) == Place(v.page, v.at)

Reads(v, lost) ==
  /\ Known(resolveHash(viewToHash(v), lost))
  /\ ~lost /\ ~Ambiguous(v) => SamePage(resolveHash(viewToHash(v), FALSE), v)

(* An address is a word and then names. *)
LEMMA Prefixed ==
  ASSUME NEW W, NEW x \in W, NEW s \in Seq(W)
  PROVE  /\ <<x>> \o s \in Seq(W) /\ Len(<<x>> \o s) = Len(s) + 1 /\ (<<x>> \o s)[1] = x
         /\ \A j \in 1..Len(s) : (<<x>> \o s)[j + 1] = s[j]
<1>1. <<x>> \in Seq(W) /\ Len(<<x>>) = 1 /\ <<x>>[1] = x /\ Len(s) \in Nat
  OBVIOUS
<1> DEFINE all == <<x>> \o s
<1>2. /\ all \in Seq(W) /\ Len(all) = 1 + Len(s)
      /\ \A j \in 1..(1 + Len(s)) : all[j] = IF j <= 1 THEN <<x>>[j] ELSE s[j - 1]
  BY <1>1, ConcatProperties
<1> HIDE DEF all
<1>3. all[1] = x
  BY <1>1, <1>2
<1>4. ASSUME NEW j \in 1..Len(s) PROVE all[j + 1] = s[j]
  <2>1. j + 1 \in 1..(1 + Len(s)) /\ ~(j + 1 <= 1) /\ (j + 1) - 1 = j
    BY <1>1
  <2> QED BY <1>2, <2>1
<1>5. Len(all) = Len(s) + 1
  BY <1>1, <1>2
<1> QED BY <1>2, <1>3, <1>4, <1>5 DEF all

(* An address that is read as what it was written for. *)
LEMMA Agrees ==
  ASSUME NEW v, NEW lost \in BOOLEAN, NEW read, Known(v),
         resolveHash(viewToHash(v), FALSE) = read, read.page = v.page, read.at = v.at,
         Known(resolveHash(viewToHash(v), lost))
  PROVE  Reads(v, lost)
BY DEF Reads, SamePage

LEMMA KnownAlike ==
  ASSUME NEW v, NEW w, Known(v), w.page = v.page, w.at = v.at
  PROVE  Known(w)
BY DEF Known

LEMMA HomeKnown == Known(Home)
BY DEF Home, View, Known, Place

LEMMA PlainReads ==
  ASSUME NEW v, v.page \in Fixed \cup Manage \cup {"workspaces"}, v.at = <<>>, NEW lost \in BOOLEAN
  PROVE  Reads(v, lost)
<1>0. Known(v)
  BY DEF Known, Place
<1> DEFINE h == viewToHash(v)
<1>1. CASE v.page = "workspaces"
  <2>1. h = <<>>
    BY <1>1 DEF viewToHash, Fixed, Manage, Edit
  <2>2. resolveHash(h, lost) = Home /\ resolveHash(h, FALSE) = Home
    BY <2>1 DEF resolveHash
  <2>3. Home.page = v.page /\ Home.at = v.at
    BY <1>1 DEF Home, View
  <2> QED BY <2>2, <1>0, <2>3, KnownAlike, Agrees
<1>2. CASE v.page \in Fixed
  <2>1. h = <<v.page>>
    BY <1>2 DEF viewToHash, Fixed, Manage, Edit
  <2>2. h # <<>> /\ h[1] = v.page
    BY <2>1
  <2> HIDE DEF h
  <2>3. resolveHash(h, lost) = View(v.page, <<>>) /\ resolveHash(h, FALSE) = View(v.page, <<>>)
    BY <1>2, <2>2 DEF resolveHash, Fixed, Edit
  <2>4. View(v.page, <<>>).page = v.page /\ View(v.page, <<>>).at = v.at
    BY DEF View
  <2> QED BY <2>3, <1>0, <2>4, KnownAlike, Agrees DEF h
<1>3. CASE v.page \in Manage
  <2>1. h = <<"manage", v.page>>
    BY <1>3 DEF viewToHash, Fixed, Manage, Edit
  <2>2. h # <<>> /\ h[1] = "manage" /\ Len(h) = 2 /\ h[2] = v.page
    BY <2>1
  <2> HIDE DEF h
  <2>3. resolveHash(h, lost) = View(v.page, <<>>) /\ resolveHash(h, FALSE) = View(v.page, <<>>)
    BY <2>2 DEF resolveHash, Fixed, Edit
  <2>4. View(v.page, <<>>).page = v.page /\ View(v.page, <<>>).at = v.at
    BY DEF View
  <2> QED BY <2>3, <1>0, <2>4, KnownAlike, Agrees DEF h
<1> QED BY <1>1, <1>2, <1>3

LEMMA Address1 ==
  ASSUME NEW x, NEW a, NEW h, h = <<x>> \o <<a>>
  PROVE  h # <<>> /\ Len(h) = 2 /\ h[1] = x /\ h[2] = a
<1>1. <<a>> \in Seq({x, a}) /\ Len(<<a>>) = 1 /\ <<a>>[1] = a
  OBVIOUS
<1>2. h \in Seq({x, a}) /\ Len(h) = 2 /\ h[1] = x /\ h[2] = a
  BY <1>1, Prefixed
<1> QED BY <1>2

LEMMA Address2 ==
  ASSUME NEW x, NEW a, NEW b, NEW h, h = <<x>> \o <<a, b>>
  PROVE  h # <<>> /\ Len(h) = 3 /\ h[1] = x /\ h[2] = a /\ h[3] = b
<1>1. /\ <<a, b>> \in Seq({x, a, b}) /\ Len(<<a, b>>) = 2
      /\ <<a, b>>[1] = a /\ <<a, b>>[2] = b
  OBVIOUS
<1>2. h \in Seq({x, a, b}) /\ Len(h) = 3 /\ h[1] = x /\ h[1 + 1] = a /\ h[2 + 1] = b
  BY <1>1, Prefixed
<1> QED BY <1>2

LEMMA Address3 ==
  ASSUME NEW x, NEW a, NEW b, NEW c, NEW h, h = <<x>> \o <<a, b, c>>
  PROVE  h # <<>> /\ Len(h) = 4 /\ h[1] = x /\ h[2] = a /\ h[3] = b /\ h[4] = c
<1>1. /\ <<a, b, c>> \in Seq({x, a, b, c}) /\ Len(<<a, b, c>>) = 3
      /\ <<a, b, c>>[1] = a /\ <<a, b, c>>[2] = b /\ <<a, b, c>>[3] = c
  OBVIOUS
<1>2. h \in Seq({x, a, b, c}) /\ Len(h) = 4 /\ h[1] = x /\ h[1 + 1] = a /\ h[2 + 1] = b /\ h[3 + 1] = c
  BY <1>1, Prefixed
<1> QED BY <1>2

LEMMA AddressOfFiles ==
  ASSUME NEW x, NEW a, NEW b, NEW c, NEW y, NEW h, h = <<x>> \o <<a, b, c>> \o <<y>>
  PROVE  h # <<>> /\ Len(h) = 5 /\ h[1] = x /\ h[2] = a /\ h[3] = b /\ h[4] = c /\ h[5] = y
<1> DEFINE W == {x, a, b, c, y}
           g == <<x>> \o <<a, b, c>>
<1>0. g = <<x>> \o <<a, b, c>>
  OBVIOUS
<1>2. g \in Seq(W)
  <2>1. <<a, b, c>> \in Seq(W) /\ x \in W
    OBVIOUS
  <2> QED BY <2>1, Prefixed
<1>3. <<y>> \in Seq(W) /\ Len(<<y>>) = 1 /\ <<y>>[1] = y
  OBVIOUS
<1>4. h = g \o <<y>>
  OBVIOUS
<1> HIDE DEF g, W
<1>1. Len(g) = 4 /\ g[1] = x /\ g[2] = a /\ g[3] = b /\ g[4] = c
  BY ONLY <1>0, Address3
<1>5. h \in Seq(W) /\ Len(h) = 5 /\ \A j \in 1..5 : h[j] = IF j <= 4 THEN g[j] ELSE <<y>>[j - 4]
  BY <1>1, <1>2, <1>3, <1>4, ConcatProperties
<1>6. h[1] = g[1] /\ h[2] = g[2] /\ h[3] = g[3] /\ h[4] = g[4]
  BY <1>5
<1>7. h[5] = <<y>>[5 - 4]
  BY <1>5
<1>8. h # <<>>
  BY <1>5
<1> QED BY <1>1, <1>3, <1>5, <1>6, <1>7, <1>8
(* Once the names of an address are known, what it is read as decides; an  *)
(* error on the way leads home or is not noticed.                          *)
LEMMA OnceRead ==
  ASSUME NEW v, NEW read, NEW lost \in BOOLEAN, Known(read),
         resolveHash(viewToHash(v), FALSE) = read,
         resolveHash(viewToHash(v), TRUE) \in {read, Home},
         ~Ambiguous(v) => SamePage(read, v)
  PROVE  Reads(v, lost)
<1>1. CASE lost = TRUE
  BY <1>1, HomeKnown DEF Reads
<1>2. CASE lost = FALSE
  BY <1>2 DEF Reads
<1> QED BY <1>1, <1>2

(* Which resolver reads an address. *)
LEMMA Resolved ==
  ASSUME NEW h, h # <<>>, NEW lost \in BOOLEAN
  PROVE  /\ h[1] = "ws" => resolveHash(h, lost) = OfWorkspace(h, lost)
         /\ h[1] = "env" => resolveHash(h, lost) = OfStandaloneEnv(h, lost)
         /\ h[1] = "svc" => resolveHash(h, lost) = OfStandaloneService(h, lost)
         /\ h[1] = "resources" => resolveHash(h, lost) = OfResource(h, lost)
         /\ h[1] \in Edit /\ Len(h) = 2 => resolveHash(h, lost) = View(h[1], <<h[2]>>)
BY DEF resolveHash, Fixed, Edit

LEMMA Resolvers ==
  ASSUME NEW h, h # <<>>
  PROVE  /\ h[1] = "ws" => /\ resolveHash(h, TRUE) = Home
                           /\ resolveHash(h, FALSE) = OfWorkspace(h, FALSE)
         /\ h[1] = "env" => /\ resolveHash(h, TRUE) = Home
                            /\ resolveHash(h, FALSE) = OfStandaloneEnv(h, FALSE)
         /\ h[1] = "svc" => /\ resolveHash(h, TRUE) = Home
                            /\ resolveHash(h, FALSE) = OfStandaloneService(h, FALSE)
         /\ h[1] = "resources" => /\ resolveHash(h, TRUE) = OfResource(h, TRUE)
                                  /\ resolveHash(h, FALSE) = OfResource(h, FALSE)
<1>1. /\ OfWorkspace(h, TRUE) = Home
      /\ OfStandaloneEnv(h, TRUE) = Home
      /\ OfStandaloneService(h, TRUE) = Home
  BY DEF OfWorkspace, OfStandaloneEnv, OfStandaloneService
<1> QED BY <1>1, Resolved

LEMMA EditReads ==
  ASSUME NEW v, Known(v), v.page \in Edit, NEW lost \in BOOLEAN
  PROVE  Reads(v, lost)
<1>1. PICK x : v.at = <<x>>
  BY DEF Known, Place, Fixed, Manage, Edit
<1> DEFINE h == viewToHash(v)
<1>2. h = <<v.page>> \o <<x>>
  BY <1>1 DEF viewToHash, Fixed, Manage, Edit
<1>3. h # <<>> /\ Len(h) = 2 /\ h[1] = v.page /\ h[2] = x
  BY <1>2, Address1
<1> HIDE DEF h
<1> DEFINE read == View(v.page, <<x>>)
<1>4. resolveHash(h, FALSE) = read /\ resolveHash(h, TRUE) = read
  BY <1>3, Resolved
<1>5. read.page = v.page /\ read.at = v.at
  BY <1>1 DEF View
<1> QED BY <1>4, <1>5, KnownAlike, OnceRead DEF h, SamePage

(* A workspace's list, of either kind. *)
LEMMA WorkspaceReads ==
  ASSUME NEW v, NEW w \in Workspaces, v.at = <<w>>, NEW lost \in BOOLEAN,
         v.page \in {"environments", "workspace-services"}
  PROVE  Reads(v, lost)
<1> DEFINE h == viewToHash(v)
<1>2. h = <<"ws">> \o <<w>>
  BY DEF viewToHash, Fixed, Manage, Edit
<1>3. h # <<>> /\ Len(h) = 2 /\ h[1] = "ws" /\ h[2] = w
  BY <1>2, Address1
<1> HIDE DEF h
<1> DEFINE read == SelectWorkspace(w)
<1>4. resolveHash(h, FALSE) = read /\ resolveHash(h, TRUE) = Home
  <2>1. OfWorkspace(h, FALSE) = SelectWorkspace(w)
    BY <1>3 DEF OfWorkspace
  <2> QED BY <1>3, <2>1, Resolvers
<1>5. read.page \in {"environments", "workspace-services"} /\ read.at = v.at
  BY DEF View, SelectWorkspace
<1>6. Known(read)
  BY <1>5 DEF Known, Place
<1>7. SamePage(read, v)
  BY <1>5 DEF SamePage
<1> QED BY <1>4, <1>6, <1>7, OnceRead DEF h

LEMMA ServicesRead ==
  ASSUME NEW v, NEW w \in Workspaces, NEW e \in Environments, v.at = <<w, e>>,
         v.page = "services", NEW lost \in BOOLEAN
  PROVE  Reads(v, lost)
<1> DEFINE h == viewToHash(v)
<1>2. h = <<"ws">> \o <<w, e>>
  BY DEF viewToHash, Fixed, Manage, Edit
<1>3. h # <<>> /\ Len(h) = 3 /\ h[1] = "ws" /\ h[2] = w /\ h[3] = e
  BY <1>2, Address2
<1> HIDE DEF h
<1> DEFINE read == View("services", <<w, e>>)
<1>4. resolveHash(h, FALSE) = read /\ resolveHash(h, TRUE) = Home
  <2>1. OfWorkspace(h, FALSE) = OfEnvironment(h)
    BY <1>3 DEF OfWorkspace
  <2>2. OfEnvironment(h) = read
    BY <1>3 DEF OfEnvironment
  <2> QED BY <1>3, <2>1, <2>2, Resolvers
<1>5. read.page = v.page /\ read.at = v.at
  BY DEF View
<1>6. Known(read)
  BY <1>5 DEF Known, Place
<1> QED BY <1>4, <1>5, <1>6, OnceRead DEF h, SamePage

(* An environment whose name is a word of an address is read as that word. *)
LEMMA ConsoleReads ==
  ASSUME NEW v, NEW w \in Workspaces, NEW e \in Environments, NEW s \in Services,
         v.at = <<w, e, s>>, v.page \in {"console", "files"}, NEW lost \in BOOLEAN
  PROVE  Reads(v, lost)
<1> DEFINE h == viewToHash(v)
<1>1. /\ h # <<>> /\ h[1] = "ws" /\ h[2] = w /\ h[3] = e /\ h[4] = s
      /\ v.page = "console" => Len(h) = 4
      /\ v.page = "files" => Len(h) = 5 /\ h[5] = "files"
  <2>1. CASE v.page = "console"
    <3>1. h = <<"ws">> \o <<w, e, s>>
      BY <2>1 DEF viewToHash, Fixed, Manage, Edit
    <3> QED BY <2>1, <3>1, Address3
  <2>2. CASE v.page = "files"
    <3>1. h = <<"ws">> \o <<w, e, s>> \o <<"files">>
      BY <2>2 DEF viewToHash, Fixed, Manage, Edit
    <3> QED BY <2>2, <3>1, AddressOfFiles
  <2> QED BY <2>1, <2>2
<1> HIDE DEF h
<1>2. resolveHash(h, TRUE) = Home
  BY <1>1, Resolvers
<1> DEFINE read == IF e = "storage" THEN View("service-storage", <<w, s>>)
                   ELSE IF e = "svc" THEN View("service-environments", <<w, s>>)
                   ELSE View(v.page, <<w, e, s>>)
<1>3. resolveHash(h, FALSE) = read
  <2>1. resolveHash(h, FALSE) = OfWorkspace(h, FALSE)
    BY <1>1, Resolvers
  <2>2. CASE e = "storage"
    <3>1. OfWorkspace(h, FALSE) = OfStorage(h)
      BY <1>1, <2>2 DEF OfWorkspace
    <3>2. OfStorage(h) = View("service-storage", <<w, s>>)
      BY <1>1, <2>2 DEF OfStorage
    <3> QED BY <2>1, <2>2, <3>1, <3>2
  <2>3. CASE e = "svc"
    <3>1. OfWorkspace(h, FALSE) = OfService(h)
      BY <1>1, <2>3 DEF OfWorkspace
    <3>2. OfService(h) = View("service-environments", <<w, s>>)
      BY <1>1, <2>3 DEF OfService
    <3> QED BY <2>1, <2>3, <3>1, <3>2
  <2>4. CASE e \notin {"storage", "svc"}
    <3>1. OfWorkspace(h, FALSE) = OfEnvironment(h)
      BY <1>1, <2>4 DEF OfWorkspace
    <3>2. OfEnvironment(h) = View(v.page, <<w, e, s>>)
      BY <1>1 DEF OfEnvironment
    <3> QED BY <2>1, <2>4, <3>1, <3>2
  <2> QED BY <2>2, <2>3, <2>4
<1>4. Known(read)
  <2>1. CASE e = "storage"
    BY <2>1 DEF Known, Place, View
  <2>2. CASE e = "svc"
    BY <2>2 DEF Known, Place, View
  <2>3. CASE e \notin {"storage", "svc"}
    BY <2>3 DEF Known, Place, View
  <2> QED BY <2>1, <2>2, <2>3
<1>5. ~Ambiguous(v) => SamePage(read, v)
  BY DEF Ambiguous, SamePage, View
<1> HIDE DEF read
<1> QED BY <1>2, <1>3, <1>4, <1>5, OnceRead DEF h
(* The pages of a service on its own, before its environments. *)
LEMMA OfServiceReads ==
  ASSUME NEW v, NEW w \in Workspaces, NEW s \in Services, NEW lost \in BOOLEAN,
         \/ v.page = "service-environments" /\ v.at = <<w, s>>
         \/ \E e \in Environments : v.page \in {"sf-console", "sf-files"} /\ v.at = <<w, s, e>>
  PROVE  Reads(v, lost)
<1> DEFINE h == viewToHash(v)
           read == View(v.page, v.at)
<1>0. v.at[1] = w /\ v.at[2] = s
  OBVIOUS
<1>1. /\ h # <<>> /\ h[1] = "ws" /\ h[2] = w /\ h[3] = "svc" /\ h[4] = s
      /\ v.page = "service-environments" => Len(h) = 4
      /\ v.page = "sf-console" => Len(h) = 6 /\ h[5] = "env" /\ h[6] = v.at[3]
      /\ v.page = "sf-files" => Len(h) = 7 /\ h[5] = "env" /\ h[6] = v.at[3] /\ h[7] = "files"
  <2>1. CASE v.page = "service-environments"
    <3>1. h = <<"ws", w, "svc", s>>
      BY <1>0, <2>1 DEF viewToHash, Fixed, Manage, Edit
    <3> QED BY <2>1, <3>1
  <2>2. CASE v.page = "sf-console"
    <3>1. h = <<"ws", w, "svc", s, "env", v.at[3]>>
      BY <1>0, <2>2 DEF viewToHash, Fixed, Manage, Edit
    <3> QED BY <2>2, <3>1
  <2>3. CASE v.page = "sf-files"
    <3>1. h = <<"ws", w, "svc", s, "env", v.at[3], "files">>
      BY <1>0, <2>3 DEF viewToHash, Fixed, Manage, Edit
    <3> QED BY <2>3, <3>1
  <2> QED BY <2>1, <2>2, <2>3
<1>2. v.page # "service-environments" => v.at[3] \in Environments /\ v.at = <<w, s, v.at[3]>>
  OBVIOUS
<1>3. v.page = "service-environments" => v.at = <<w, s>>
  OBVIOUS
<1>4. v.page \in {"service-environments", "sf-console", "sf-files"}
  OBVIOUS
<1> HIDE DEF h
<1>5. OfWorkspace(h, FALSE) = OfService(h)
  BY <1>1, <1>4 DEF OfWorkspace
<1>6. OfService(h) = read
  <2>1. CASE v.page = "service-environments"
    <3>0. Len(h) = 4 /\ h[2] = w /\ h[4] = s /\ ~(4 >= 6)
      BY <1>1, <2>1
    <3>1. OfService(h) = View("service-environments", <<w, s>>)
      BY ONLY <3>0 DEF OfService
    <3> QED BY <1>3, <2>1, <3>1
  <2>2. CASE v.page \in {"sf-console", "sf-files"}
    <3>1. PICK e : e = v.at[3]
      OBVIOUS
    <3>2. h[6] = e /\ v.at = <<w, s, e>> /\ e \in Environments
      BY <1>1, <1>2, <2>2, <3>1
    <3>3. OfService(h) = View(IF v.page = "sf-files" THEN "sf-files" ELSE "sf-console", <<w, s, e>>)
      BY <1>1, <2>2, <3>2, SMTT(20) DEF OfService
    <3> QED BY <2>2, <3>2, <3>3
  <2> QED BY <1>4, <2>1, <2>2
<1>7. read.page = v.page /\ read.at = v.at
  BY DEF View
<1>8. Known(v)
  BY DEF Known, Place
<1> HIDE DEF read
<1>9. Known(read) /\ SamePage(read, v)
  BY <1>7, <1>8, KnownAlike DEF SamePage
<1> QED BY <1>1, <1>5, <1>6, <1>9, Resolvers, OnceRead DEF h

(* The storage of a service and an object of it. *)
LEMMA OfStorageReads ==
  ASSUME NEW v, NEW w \in Workspaces, NEW s \in Services, NEW lost \in BOOLEAN,
         \/ v.page = "service-storage" /\ v.at = <<w, s>>
         \/ \E n \in Names : v.page = "service-storage-console" /\ v.at = <<w, s, n>>
  PROVE  Reads(v, lost)
<1> DEFINE h == viewToHash(v)
           read == View(v.page, v.at)
<1>0. v.at[1] = w /\ v.at[2] = s
  OBVIOUS
<1>1. /\ h # <<>> /\ h[1] = "ws" /\ h[2] = w /\ h[3] = "storage" /\ h[4] = s
      /\ v.page = "service-storage" => Len(h) = 4
      /\ v.page = "service-storage-console" => Len(h) = 6 /\ h[5] = "object" /\ h[6] = v.at[3]
  <2>1. CASE v.page = "service-storage"
    <3>1. h = <<"ws", w, "storage", s>>
      BY <1>0, <2>1 DEF viewToHash, Fixed, Manage, Edit
    <3> QED BY <2>1, <3>1
  <2>2. CASE v.page = "service-storage-console"
    <3>1. h = <<"ws", w, "storage", s, "object", v.at[3]>>
      BY <1>0, <2>2 DEF viewToHash, Fixed, Manage, Edit
    <3> QED BY <2>2, <3>1
  <2> QED BY <2>1, <2>2
<1>2. v.page = "service-storage-console" => v.at = <<w, s, v.at[3]>>
  OBVIOUS
<1>3. v.page = "service-storage" => v.at = <<w, s>>
  OBVIOUS
<1>4. v.page \in {"service-storage", "service-storage-console"}
  OBVIOUS
<1> HIDE DEF h
<1>5. OfWorkspace(h, FALSE) = OfStorage(h)
  BY <1>1, <1>4 DEF OfWorkspace
<1>6. OfStorage(h) = read
  <2>1. CASE v.page = "service-storage"
    <3>0. Len(h) = 4 /\ h[2] = w /\ h[4] = s /\ ~(4 >= 6)
      BY <1>1, <2>1
    <3>1. OfStorage(h) = View("service-storage", <<w, s>>)
      BY ONLY <3>0 DEF OfStorage
    <3> QED BY <1>3, <2>1, <3>1
  <2>2. CASE v.page = "service-storage-console"
    <3>1. PICK n : n = v.at[3]
      OBVIOUS
    <3>2. h[6] = n /\ v.at = <<w, s, n>>
      BY <1>1, <1>2, <2>2, <3>1
    <3>3. OfStorage(h) = View("service-storage-console", <<w, s, n>>)
      BY <1>1, <2>2, <3>2, SMTT(20) DEF OfStorage
    <3> QED BY <2>2, <3>2, <3>3
  <2> QED BY <1>4, <2>1, <2>2
<1>7. read.page = v.page /\ read.at = v.at
  BY DEF View
<1>8. Known(v)
  BY DEF Known, Place
<1> HIDE DEF read
<1>9. Known(read) /\ SamePage(read, v)
  BY <1>7, <1>8, KnownAlike DEF SamePage
<1> QED BY <1>1, <1>5, <1>6, <1>9, Resolvers, OnceRead DEF h

(* Environments and services that are in no workspace. *)
LEMMA StandaloneReads ==
  ASSUME NEW v, NEW lost \in BOOLEAN,
         \/ \E e \in StandaloneEnvs : v.page = "standalone-env-services" /\ v.at = <<e>>
         \/ \E e \in StandaloneEnvs, s \in Services :
              v.page = "standalone-env-console" /\ v.at = <<e, s>>
         \/ \E s \in StandaloneServices : v.page = "standalone-svc-console" /\ v.at = <<s>>
  PROVE  Reads(v, lost)
<1> DEFINE h == viewToHash(v)
           read == View(v.page, v.at)
<1>1. h # <<>> /\ resolveHash(h, TRUE) = Home /\ resolveHash(h, FALSE) = read
  <2>1. ASSUME NEW e \in StandaloneEnvs, v.page = "standalone-env-services", v.at = <<e>>
        PROVE  h # <<>> /\ resolveHash(h, TRUE) = Home /\ resolveHash(h, FALSE) = read
    <3>1. h = <<"env">> \o <<e>>
      BY <2>1 DEF viewToHash, Fixed, Manage, Edit
    <3>2. h # <<>> /\ Len(h) = 2 /\ h[1] = "env" /\ h[2] = e
      BY <3>1, Address1
    <3> HIDE DEF h
    <3>3. OfStandaloneEnv(h, FALSE) = read
      BY <2>1, <3>2 DEF OfStandaloneEnv
    <3> QED BY <3>2, <3>3, Resolvers
  <2>2. ASSUME NEW e \in StandaloneEnvs, NEW s \in Services,
               v.page = "standalone-env-console", v.at = <<e, s>>
        PROVE  h # <<>> /\ resolveHash(h, TRUE) = Home /\ resolveHash(h, FALSE) = read
    <3>1. h = <<"env">> \o <<e, s>>
      BY <2>2 DEF viewToHash, Fixed, Manage, Edit
    <3>2. h # <<>> /\ Len(h) = 3 /\ h[1] = "env" /\ h[2] = e /\ h[3] = s
      BY <3>1, Address2
    <3> HIDE DEF h
    <3>3. OfStandaloneEnv(h, FALSE) = read
      BY <2>2, <3>2 DEF OfStandaloneEnv
    <3> QED BY <3>2, <3>3, Resolvers
  <2>3. ASSUME NEW s \in StandaloneServices, v.page = "standalone-svc-console", v.at = <<s>>
        PROVE  h # <<>> /\ resolveHash(h, TRUE) = Home /\ resolveHash(h, FALSE) = read
    <3>1. h = <<"svc">> \o <<s>>
      BY <2>3 DEF viewToHash, Fixed, Manage, Edit
    <3>2. h # <<>> /\ Len(h) = 2 /\ h[1] = "svc" /\ h[2] = s
      BY <3>1, Address1
    <3> HIDE DEF h
    <3>3. OfStandaloneService(h, FALSE) = read
      BY <2>3, <3>2 DEF OfStandaloneService
    <3> QED BY <3>2, <3>3, Resolvers
  <2> QED BY <2>1, <2>2, <2>3
<1>7. read.page = v.page /\ read.at = v.at
  BY DEF View
<1>8. Known(v)
  BY DEF Known, Place
<1> HIDE DEF read, h
<1>9. Known(read) /\ SamePage(read, v)
  BY <1>7, <1>8, KnownAlike DEF SamePage
<1> QED BY <1>1, <1>9, OnceRead DEF h
(* Resources.  A namespace that is named like the word before an object is *)
(* read as that word.                                                      *)
LEMMA ResourceReads ==
  ASSUME NEW v, NEW lost \in BOOLEAN,
         \/ \E r \in Clusters \cup Storages : v.page = "resource-namespaces" /\ v.at = <<r>>
         \/ \E r \in Clusters, n \in Names : v.page = "resource-workloads" /\ v.at = <<r, n>>
         \/ \E r \in Clusters \cup Storages, n \in Names \cup {"deployment"} :
              v.page = "resource-storage-console" /\ v.at = <<r, n>>
  PROVE  Reads(v, lost)
<1> DEFINE h == viewToHash(v)
           read == View(v.page, v.at)
<1>1. h # <<>> /\ resolveHash(h, TRUE) \in {read, Home} /\ resolveHash(h, FALSE) = read
  <2>1. ASSUME NEW r \in Clusters \cup Storages, v.page = "resource-namespaces", v.at = <<r>>
        PROVE  h # <<>> /\ resolveHash(h, TRUE) \in {read, Home} /\ resolveHash(h, FALSE) = read
    <3>1. h = <<"resources">> \o <<r>>
      BY <2>1 DEF viewToHash, Fixed, Manage, Edit
    <3>2. h # <<>> /\ Len(h) = 2 /\ h[1] = "resources" /\ h[2] = r
      BY <3>1, Address1
    <3> HIDE DEF h
    <3>3. OfResource(h, FALSE) = read /\ OfResource(h, TRUE) = read
      BY <2>1, <3>2 DEF OfResource
    <3> QED BY <3>2, <3>3, Resolvers
  <2>2. ASSUME NEW r \in Clusters, NEW n \in Names, v.page = "resource-workloads", v.at = <<r, n>>
        PROVE  h # <<>> /\ resolveHash(h, TRUE) \in {read, Home} /\ resolveHash(h, FALSE) = read
    <3>1. h = <<"resources">> \o <<r, n>>
      BY <2>2 DEF viewToHash, Fixed, Manage, Edit
    <3>2. h # <<>> /\ Len(h) = 3 /\ h[1] = "resources" /\ h[2] = r /\ h[3] = n
      BY <3>1, Address2
    <3> HIDE DEF h
    <3>3. OfResource(h, FALSE) = read /\ OfResource(h, TRUE) = read
      BY <2>2, <3>2 DEF OfResource
    <3> QED BY <3>2, <3>3, Resolvers
  <2>3. ASSUME NEW r \in Clusters \cup Storages, NEW n \in Names \cup {"deployment"},
               v.page = "resource-storage-console", v.at = <<r, n>>
        PROVE  h # <<>> /\ resolveHash(h, TRUE) \in {read, Home} /\ resolveHash(h, FALSE) = read
    <3>1. h = <<"resources", r, "object", n>>
      BY <2>3 DEF viewToHash, Fixed, Manage, Edit
    <3>2. h # <<>> /\ Len(h) = 4 /\ h[1] = "resources" /\ h[2] = r /\ h[3] = "object" /\ h[4] = n
      BY <3>1
    <3> HIDE DEF h
    <3>3. OfResource(h, TRUE) = Home
      BY <3>2 DEF OfResource
    <3>4. OfResource(h, FALSE) = read
      BY <2>3, <3>2 DEF OfResource
    <3> QED BY <3>2, <3>3, <3>4, Resolvers
  <2> QED BY <2>1, <2>2, <2>3
<1>7. read.page = v.page /\ read.at = v.at
  BY DEF View
<1>8. Known(v)
  BY DEF Known, Place
<1> HIDE DEF read, h
<1>9. Known(read) /\ SamePage(read, v)
  BY <1>7, <1>8, KnownAlike DEF SamePage
<1> QED BY <1>1, <1>9, OnceRead DEF h

LEMMA ResourceConsoleReads ==
  ASSUME NEW v, NEW lost \in BOOLEAN, NEW r \in Clusters, NEW n \in Names, NEW m \in Names,
         v.page = "resource-console", v.at = <<r, n, "deployment", m>>
  PROVE  Reads(v, lost)
<1> DEFINE h == viewToHash(v)
           read == IF n = "object" THEN View("resource-storage-console", <<r, "deployment">>)
                   ELSE View("resource-console", <<r, n, "deployment", m>>)
<1>1. h = <<"resources">> \o <<r, n, "deployment", m>>
  BY DEF viewToHash, Fixed, Manage, Edit
<1> HIDE DEF h
<1>2. /\ h # <<>> /\ Len(h) = 5 /\ h[1] = "resources" /\ h[2] = r /\ h[3] = n /\ h[4] = "deployment"
      /\ SubSeq(h, 2, 5) = <<r, n, "deployment", m>>
  <2>1. PICK d, x : d = "deployment" /\ x = "resources"
    OBVIOUS
  <2> DEFINE names == <<r, n, d, m>>
             W     == {x, r, n, d, m}
             rest    == SubSeq(h, 2, 5)
  <2>2. /\ names \in Seq(W) /\ Len(names) = 4 /\ x \in W
        /\ names[1] = r /\ names[2] = n /\ names[3] = d /\ names[4] = m
    OBVIOUS
  <2>3. h = <<x>> \o names
    BY <1>1, <2>1
  <2> HIDE DEF names, W
  <2>4. /\ h \in Seq(W) /\ Len(h) = 5 /\ h[1] = x
        /\ \A j \in 1..4 : h[j + 1] = names[j]
    BY ONLY <2>2, <2>3, Prefixed, SMTT(20)
  <2>5. h[2] = r /\ h[3] = n /\ h[4] = d /\ h[5] = m
    <3>1. h[1 + 1] = r /\ h[2 + 1] = n /\ h[3 + 1] = d /\ h[4 + 1] = m
      BY <2>2, <2>4
    <3> QED BY <3>1
  <2>6. rest \in Seq(W) /\ Len(rest) = 4 /\ \A i \in 1..4 : rest[i] = h[2 + i - 1]
    <3>1. 2 \in 1..(Len(h) + 1) /\ 5 \in 1..Len(h) /\ 5 - 2 + 1 = 4
      BY <2>4
    <3>2. /\ SubSeq(h, 2, 5) \in Seq(W) /\ Len(SubSeq(h, 2, 5)) = 5 - 2 + 1
          /\ \A i \in 1..(5 - 2 + 1) : SubSeq(h, 2, 5)[i] = h[2 + i - 1]
      BY ONLY <2>4, <3>1, SubSeqProperties
    <3> QED BY <3>1, <3>2
  <2> HIDE DEF rest
  <2>7. rest[1] = h[2] /\ rest[2] = h[3] /\ rest[3] = h[4] /\ rest[4] = h[5]
    BY <2>6
  <2>8. \A i \in 1..4 : rest[i] = names[i]
    <3>1. \A i \in 1..4 : i = 1 \/ i = 2 \/ i = 3 \/ i = 4
      OBVIOUS
    <3> QED BY <2>2, <2>5, <2>7, <3>1
  <2>9. rest = names
    BY <2>2, <2>6, <2>8, SeqEqual
  <2>10. h # <<>>
    BY <2>4
  <2> QED BY <2>1, <2>4, <2>5, <2>9, <2>10 DEF rest, names
<1>3. resolveHash(h, TRUE) \in {read, Home} /\ resolveHash(h, FALSE) = read
  <2>1. CASE n = "object"
    <3>1. OfResource(h, TRUE) = Home
      BY <1>2, <2>1 DEF OfResource
    <3>2. OfResource(h, FALSE) = View("resource-storage-console", <<r, "deployment">>)
      BY <1>2, <2>1 DEF OfResource
    <3> QED BY <1>2, <2>1, <3>1, <3>2, Resolvers
  <2>2. CASE n # "object"
    <3>1. /\ OfResource(h, TRUE) = View("resource-console", <<r, n, "deployment", m>>)
          /\ OfResource(h, FALSE) = View("resource-console", <<r, n, "deployment", m>>)
      <4>1. Len(h) = 5 /\ h[3] # "object" /\ SubSeq(h, 2, 5) = <<r, n, "deployment", m>>
        BY <1>2, <2>2
      <4>2. /\ OfResource(h, TRUE) = View("resource-console", SubSeq(h, 2, 5))
            /\ OfResource(h, FALSE) = View("resource-console", SubSeq(h, 2, 5))
        BY ONLY <4>1 DEF OfResource
      <4> QED BY <4>1, <4>2
    <3> QED BY <1>2, <2>2, <3>1, Resolvers
  <2> QED BY <2>1, <2>2
<1>4. Known(read)
  <2>1. CASE n = "object"
    BY <2>1 DEF Known, Place, View
  <2>2. CASE n # "object"
    BY <2>2 DEF Known, Place, View
  <2> QED BY <2>1, <2>2
<1>5. ~Ambiguous(v) => SamePage(read, v)
  BY DEF Ambiguous, SamePage, View
<1> HIDE DEF read
<1> QED BY <1>3, <1>4, <1>5, OnceRead DEF h

(* Whatever is shown, its address leads back to it. *)
LEMMA AddressesAreRead ==
  ASSUME NEW v, Known(v), NEW lost \in BOOLEAN
  PROVE  Reads(v, lost)
<1>1. CASE v.page \in Fixed \cup Manage \cup {"workspaces"}
  <2>1. v.at = <<>>
    BY <1>1 DEF Known, Place, Fixed, Manage
  <2> QED BY <1>1, <2>1, PlainReads
<1>2. CASE v.page \in Edit
  BY <1>2, EditReads
<1>3. CASE v.page \in {"environments", "workspace-services"}
  <2>1. PICK w \in Workspaces : v.at = <<w>>
    BY <1>3 DEF Known, Place, Fixed, Manage
  <2> QED BY <1>3, <2>1, WorkspaceReads
<1>4. CASE v.page = "services"
  <2>1. PICK w \in Workspaces, e \in Environments : v.at = <<w, e>>
    BY <1>4 DEF Known, Place, Fixed, Manage
  <2> QED BY <1>4, <2>1, ServicesRead
<1>5. CASE v.page \in {"console", "files"}
  <2>1. PICK w \in Workspaces, e \in Environments, s \in Services : v.at = <<w, e, s>>
    BY <1>5 DEF Known, Place, Fixed, Manage
  <2> QED BY <1>5, <2>1, ConsoleReads
<1>6. CASE v.page \in {"service-environments", "sf-console", "sf-files"}
  <2>1. PICK w \in Workspaces, s \in Services :
          \/ v.page = "service-environments" /\ v.at = <<w, s>>
          \/ \E e \in Environments : v.page \in {"sf-console", "sf-files"} /\ v.at = <<w, s, e>>
    BY <1>6 DEF Known, Place, Fixed, Manage
  <2> QED BY <2>1, OfServiceReads
<1>7. CASE v.page \in {"service-storage", "service-storage-console"}
  <2>1. PICK w \in Workspaces, s \in Services :
          \/ v.page = "service-storage" /\ v.at = <<w, s>>
          \/ \E n \in Names : v.page = "service-storage-console" /\ v.at = <<w, s, n>>
    BY <1>7 DEF Known, Place, Fixed, Manage
  <2> QED BY <2>1, OfStorageReads
<1>8. CASE v.page \in {"standalone-env-services", "standalone-env-console", "standalone-svc-console"}
  <2>1. \/ \E e \in StandaloneEnvs : v.page = "standalone-env-services" /\ v.at = <<e>>
        \/ \E e \in StandaloneEnvs, s \in Services :
             v.page = "standalone-env-console" /\ v.at = <<e, s>>
        \/ \E s \in StandaloneServices : v.page = "standalone-svc-console" /\ v.at = <<s>>
    BY <1>8 DEF Known, Place, Fixed, Manage
  <2> QED BY <2>1, StandaloneReads
<1>9. CASE v.page \in {"resource-namespaces", "resource-workloads", "resource-storage-console"}
  <2>1. \/ \E r \in Clusters \cup Storages : v.page = "resource-namespaces" /\ v.at = <<r>>
        \/ \E r \in Clusters, n \in Names : v.page = "resource-workloads" /\ v.at = <<r, n>>
        \/ \E r \in Clusters \cup Storages, n \in Names \cup {"deployment"} :
             v.page = "resource-storage-console" /\ v.at = <<r, n>>
    BY <1>9 DEF Known, Place, Fixed, Manage
  <2> QED BY <2>1, ResourceReads
<1>10. CASE v.page = "resource-console"
  <2>1. PICK r \in Clusters, n \in Names, m \in Names : v.at = <<r, n, "deployment", m>>
    BY <1>10 DEF Known, Place, Fixed, Manage
  <2> QED BY <1>10, <2>1, ResourceConsoleReads
<1>11. \/ v.page \in Fixed \cup Manage \cup {"workspaces"} \cup Edit
       \/ v.page \in {"environments", "workspace-services", "services", "console", "files",
                      "service-environments", "sf-console", "sf-files",
                      "service-storage", "service-storage-console",
                      "standalone-env-services", "standalone-env-console", "standalone-svc-console",
                      "resource-namespaces", "resource-workloads", "resource-console",
                      "resource-storage-console"}
  BY DEF Known, Place, Edit
<1> QED BY <1>1, <1>2, <1>3, <1>4, <1>5, <1>6, <1>7, <1>8, <1>9, <1>10, <1>11
LEMMA ViewKnown ==
  ASSUME NEW page, NEW names, Place(page, names)
  PROVE  Known(View(page, names))
BY DEF Known, View

LEMMA OfKnown ==
  ASSUME NEW page, NEW S, \A names \in S : Place(page, names), NEW w \in Of(page, S)
  PROVE  Known(w)
BY ViewKnown DEF Of

LEMMA WorkspaceKnown ==
  ASSUME NEW w \in Workspaces
  PROVE  Known(SelectWorkspace(w))
BY DEF SelectWorkspace, View, Known, Place

LEMMA ViewsKnown ==
  ASSUME NEW v \in Views
  PROVE  Known(v)
<1>1. CASE v \in {Home} \cup {View(p, <<>>) : p \in Fixed \cup Manage}
  BY <1>1, HomeKnown, ViewKnown DEF Place
<1>2. CASE v \in {SelectWorkspace(w) : w \in Workspaces}
  BY <1>2, WorkspaceKnown
<1>3. CASE \/ v \in Of("edit-workspace", {<<w>> : w \in Workspaces})
           \/ v \in Of("edit-service", {<<s>> : s \in StandaloneServices})
           \/ v \in Of("edit-environment", {<<e>> : e \in StandaloneEnvs})
  <2>1. /\ \A names \in {<<w>> : w \in Workspaces} : Place("edit-workspace", names)
        /\ \A names \in {<<s>> : s \in StandaloneServices} : Place("edit-service", names)
        /\ \A names \in {<<e>> : e \in StandaloneEnvs} : Place("edit-environment", names)
    BY DEF Place
  <2> QED BY <1>3, <2>1, OfKnown
<1>4. CASE \/ v \in Of("services", Workspaces \X Environments)
           \/ v \in Of("console", Workspaces \X Environments \X Services)
           \/ v \in Of("files", Workspaces \X Environments \X Services)
  <2>1. /\ \A names \in Workspaces \X Environments : Place("services", names)
        /\ \A names \in Workspaces \X Environments \X Services : Place("console", names)
        /\ \A names \in Workspaces \X Environments \X Services : Place("files", names)
    BY DEF Place
  <2> QED BY <1>4, <2>1, OfKnown
<1>5. CASE \/ v \in Of("service-environments", Workspaces \X Services)
           \/ v \in Of("sf-console", Workspaces \X Services \X Environments)
           \/ v \in Of("sf-files", Workspaces \X Services \X Environments)
  <2>1. /\ \A names \in Workspaces \X Services : Place("service-environments", names)
        /\ \A names \in Workspaces \X Services \X Environments : Place("sf-console", names)
        /\ \A names \in Workspaces \X Services \X Environments : Place("sf-files", names)
    BY DEF Place
  <2> QED BY <1>5, <2>1, OfKnown
<1>6. CASE \/ v \in Of("service-storage", Workspaces \X Services)
           \/ v \in Of("service-storage-console", Workspaces \X Services \X Names)
  <2>1. /\ \A names \in Workspaces \X Services : Place("service-storage", names)
        /\ \A names \in Workspaces \X Services \X Names : Place("service-storage-console", names)
    BY DEF Place
  <2> QED BY <1>6, <2>1, OfKnown
<1>7. CASE \/ v \in Of("standalone-env-services", {<<e>> : e \in StandaloneEnvs})
           \/ v \in Of("standalone-env-console", StandaloneEnvs \X Services)
           \/ v \in Of("standalone-svc-console", {<<s>> : s \in StandaloneServices})
  <2>1. /\ \A names \in {<<e>> : e \in StandaloneEnvs} : Place("standalone-env-services", names)
        /\ \A names \in StandaloneEnvs \X Services : Place("standalone-env-console", names)
        /\ \A names \in {<<s>> : s \in StandaloneServices} : Place("standalone-svc-console", names)
    BY DEF Place
  <2> QED BY <1>7, <2>1, OfKnown
<1>8. CASE \/ v \in Of("resource-namespaces", {<<r>> : r \in Clusters \cup Storages})
           \/ v \in Of("resource-workloads", Clusters \X Names)
           \/ v \in Of("resource-console", Clusters \X Names \X {"deployment"} \X Names)
           \/ v \in Of("resource-storage-console", Storages \X Names)
  <2>1. /\ \A names \in {<<r>> : r \in Clusters \cup Storages} : Place("resource-namespaces", names)
        /\ \A names \in Clusters \X Names : Place("resource-workloads", names)
        /\ \A names \in Clusters \X Names \X {"deployment"} \X Names : Place("resource-console", names)
        /\ \A names \in Storages \X Names : Place("resource-storage-console", names)
    BY DEF Place
  <2> QED BY <1>8, <2>1, OfKnown
<1> QED BY <1>1, <1>2, <1>3, <1>4, <1>5, <1>6, <1>7, <1>8 DEF Views

-----------------------------------------------------------------------------
(* The links of a page lead to pages. *)
LEMMA EntriesKnown ==
  ASSUME NEW w \in Entries
  PROVE  Known(w)
<1>1. CASE w \in {Home, View("logs", <<>>)}
  BY <1>1, HomeKnown, ViewKnown DEF Place, Fixed
<1>2. CASE w \in {SelectWorkspace(x) : x \in Workspaces}
  BY <1>2, WorkspaceKnown
<1>3. CASE \/ w \in Of("standalone-env-services", {<<e>> : e \in StandaloneEnvs})
           \/ w \in Of("standalone-svc-console", {<<s>> : s \in StandaloneServices})
           \/ w \in Of("resource-namespaces", {<<r>> : r \in Clusters \cup Storages})
  <2>1. /\ \A names \in {<<e>> : e \in StandaloneEnvs} : Place("standalone-env-services", names)
        /\ \A names \in {<<s>> : s \in StandaloneServices} : Place("standalone-svc-console", names)
        /\ \A names \in {<<r>> : r \in Clusters \cup Storages} : Place("resource-namespaces", names)
    BY DEF Place
  <2> QED BY <1>3, <2>1, OfKnown
<1>4. CASE w \in {View(p, <<>>) : p \in Manage \cup {"admin"}}
  BY <1>4, ViewKnown DEF Place, Fixed
<1> QED BY <1>1, <1>2, <1>3, <1>4 DEF Entries

LEMMA FormsKnown ==
  ASSUME NEW page, NEW w \in FormsOf(page)
  PROVE  Known(w)
<1>1. /\ \A names \in {<<x>> : x \in Workspaces} : Place("edit-workspace", names)
      /\ \A names \in {<<s>> : s \in StandaloneServices} : Place("edit-service", names)
      /\ \A names \in {<<e>> : e \in StandaloneEnvs} : Place("edit-environment", names)
  BY DEF Place
<1>2. /\ Known(View("create-workspace", <<>>)) /\ Known(View("create-service", <<>>))
      /\ Known(View("create-environment", <<>>))
  BY ViewKnown DEF Place, Fixed
<1>3. \/ w \in {View("create-workspace", <<>>)} \cup Of("edit-workspace", {<<x>> : x \in Workspaces})
      \/ w \in {View("create-service", <<>>)} \cup Of("edit-service", {<<s>> : s \in StandaloneServices})
      \/ w \in {View("create-environment", <<>>)}
                 \cup Of("edit-environment", {<<e>> : e \in StandaloneEnvs})
  <2>1. page \in {"manage-workspaces", "manage-services", "manage-environments"}
    BY DEF FormsOf
  <2> QED BY <2>1 DEF FormsOf
<1> QED BY <1>1, <1>2, <1>3, OfKnown

(* "Back". *)
LEMMA UpKnown ==
  ASSUME NEW v, Known(v)
  PROVE  Known(Up(v))
<1> DEFINE a == v.at
<1>1. CASE v.page \in {"console", "files", "sf-console", "sf-files"}
  <2>1. PICK w \in Workspaces, e \in Environments, s \in Services :
           \/ v.page \in {"console", "files"} /\ a = <<w, e, s>>
           \/ v.page \in {"sf-console", "sf-files"} /\ a = <<w, s, e>>
    BY <1>1 DEF Known, Place, Fixed, Manage
  <2>2. CASE v.page = "console"
    <3>1. Up(v) = View("services", <<w, e>>)
      BY <2>1, <2>2 DEF Up
    <3> QED BY <3>1, ViewKnown DEF Place
  <2>3. CASE v.page = "files"
    <3>1. Up(v) = View("console", <<w, e, s>>)
      BY <2>1, <2>3 DEF Up
    <3> QED BY <3>1, ViewKnown DEF Place
  <2>4. CASE v.page = "sf-console"
    <3>1. Up(v) = View("service-environments", <<w, s>>)
      BY <2>1, <2>4 DEF Up
    <3> QED BY <3>1, ViewKnown DEF Place
  <2>5. CASE v.page = "sf-files"
    <3>1. Up(v) = View("sf-console", <<w, s, e>>)
      BY <2>1, <2>5 DEF Up
    <3> QED BY <3>1, ViewKnown DEF Place
  <2> QED BY <1>1, <2>2, <2>3, <2>4, <2>5
<1>2. CASE v.page = "standalone-env-console"
  <2>1. PICK e \in StandaloneEnvs, s \in Services : a = <<e, s>>
    BY <1>2 DEF Known, Place, Fixed, Manage
  <2>2. Up(v) = View("standalone-env-services", <<e>>)
    BY <1>2, <2>1 DEF Up
  <2> QED BY <2>2, ViewKnown DEF Place
<1>3. CASE v.page = "resource-console"
  <2>1. PICK r \in Clusters, n \in Names, m \in Names : a = <<r, n, "deployment", m>>
    BY <1>3 DEF Known, Place, Fixed, Manage
  <2>2. Up(v) = View("resource-workloads", <<r, n>>)
    BY <1>3, <2>1 DEF Up
  <2> QED BY <2>2, ViewKnown DEF Place
<1>4. CASE v.page = "resource-storage-console"
  <2>1. PICK r \in Clusters \cup Storages : \E n : a = <<r, n>>
    BY <1>4 DEF Known, Place, Fixed, Manage
  <2>2. Up(v).page = "resource-namespaces" /\ Up(v).at = <<r>>
    BY <1>4, <2>1 DEF Up, In, View
  <2> QED BY <2>2 DEF Known, Place
<1>5. CASE v.page = "service-storage-console"
  <2>1. PICK w \in Workspaces, s \in Services, n \in Names : a = <<w, s, n>>
    BY <1>5 DEF Known, Place, Fixed, Manage
  <2>2. Up(v) = View("service-storage", <<w, s>>)
    BY <1>5, <2>1 DEF Up
  <2> QED BY <2>2, ViewKnown DEF Place
<1>6. CASE v.page \notin {"console", "files", "sf-console", "sf-files", "standalone-env-console",
                          "resource-console", "resource-storage-console", "service-storage-console"}
  BY <1>6, HomeKnown DEF Up
<1> QED BY <1>1, <1>2, <1>3, <1>4, <1>5, <1>6

(* The names of a page and those of what is on it. *)
LEMMA Joined ==
  ASSUME NEW x, NEW y, NEW z, NEW names, NEW all, names = <<x, y>>, all = names \o <<z>>
  PROVE  all = <<x, y, z>>
<1> DEFINE W == {x, y, z}
           t == <<x, y, z>>
           l == <<z>>
<1>1. names \in Seq(W) /\ Len(names) = 2 /\ names[1] = x /\ names[2] = y
  OBVIOUS
<1>2. l \in Seq(W) /\ Len(l) = 1 /\ l[1] = z
  OBVIOUS
<1>3. t \in Seq(W) /\ Len(t) = 3 /\ t[1] = x /\ t[2] = y /\ t[3] = z
  OBVIOUS
<1>4. all = names \o l
  OBVIOUS
<1> HIDE DEF W, t, l
<1>5. /\ all \in Seq(W) /\ Len(all) = 3
      /\ \A i \in 1..3 : all[i] = IF i <= 2 THEN names[i] ELSE l[i - 2]
  <2>1. /\ names \o l \in Seq(W) /\ Len(names \o l) = Len(names) + Len(l)
        /\ \A i \in 1..(Len(names) + Len(l)) :
             (names \o l)[i] = IF i <= Len(names) THEN names[i] ELSE l[i - Len(names)]
    BY ONLY <1>1, <1>2, ConcatProperties
  <2> QED BY ONLY <1>1, <1>2, <1>4, <2>1
<1>6. all[1] = names[1] /\ all[2] = names[2] /\ all[3] = l[3 - 2]
  <2>1. \A i \in 1..2 : all[i] = names[i]
    BY ONLY <1>5
  <2>2. 3 \in 1..3 /\ ~(3 <= 2)
    OBVIOUS
  <2> QED BY ONLY <1>5, <2>1, <2>2
<1>7. all[1] = t[1] /\ all[2] = t[2] /\ all[3] = t[3]
  BY ONLY <1>1, <1>2, <1>3, <1>6
<1>8. \A i \in 1..Len(all) : all[i] = t[i]
  <2>1. \A i \in 1..3 : i = 1 \/ i = 2 \/ i = 3
    OBVIOUS
  <2> QED BY ONLY <1>5, <1>7, <2>1
<1>9. all = t
  BY ONLY <1>3, <1>5, <1>8, SeqEqual
<1> QED BY <1>9 DEF t

LEMMA JoinedTwo ==
  ASSUME NEW x, NEW y, NEW d, NEW z, NEW names, NEW all, names = <<x, y>>, all = names \o <<d, z>>
  PROVE  all = <<x, y, d, z>>
<1> DEFINE W == {x, y, d, z}
           t == <<x, y, d, z>>
           l == <<d, z>>
<1>1. names \in Seq(W) /\ Len(names) = 2 /\ names[1] = x /\ names[2] = y
  OBVIOUS
<1>2. l \in Seq(W) /\ Len(l) = 2 /\ l[1] = d /\ l[2] = z
  OBVIOUS
<1>3. t \in Seq(W) /\ Len(t) = 4 /\ t[1] = x /\ t[2] = y /\ t[3] = d /\ t[4] = z
  OBVIOUS
<1>4. all = names \o l
  OBVIOUS
<1> HIDE DEF W, t, l
<1>5. /\ all \in Seq(W) /\ Len(all) = 4
      /\ \A i \in 1..4 : all[i] = IF i <= 2 THEN names[i] ELSE l[i - 2]
  <2>1. /\ names \o l \in Seq(W) /\ Len(names \o l) = Len(names) + Len(l)
        /\ \A i \in 1..(Len(names) + Len(l)) :
             (names \o l)[i] = IF i <= Len(names) THEN names[i] ELSE l[i - Len(names)]
    BY ONLY <1>1, <1>2, ConcatProperties
  <2> QED BY ONLY <1>1, <1>2, <1>4, <2>1
<1>6. all[1] = names[1] /\ all[2] = names[2] /\ all[3] = l[3 - 2] /\ all[4] = l[4 - 2]
  BY ONLY <1>5
<1>7. all[1] = t[1] /\ all[2] = t[2] /\ all[3] = t[3] /\ all[4] = t[4]
  BY ONLY <1>1, <1>2, <1>3, <1>6
<1>8. \A i \in 1..Len(all) : all[i] = t[i]
  <2>1. \A i \in 1..4 : i = 1 \/ i = 2 \/ i = 3 \/ i = 4
    OBVIOUS
  <2> QED BY ONLY <1>5, <1>7, <2>1
<1>9. all = t
  BY ONLY <1>3, <1>5, <1>8, SeqEqual
<1> QED BY <1>9 DEF t

(* The rows and cards of a page.  A folder makes no difference. *)
LEMMA FolderKnown ==
  ASSUME NEW f, NEW page, NEW names, Place(page, names)
  PROVE  Known(In(f, View(page, names)))
BY DEF Known, In, View

LEMMA DrillDownKnown ==
  ASSUME NEW v, Known(v), NEW w \in DrillDown(v)
  PROVE  Known(w)
<1> DEFINE a == v.at
<1>1. CASE v.page = "environments"
  <2>1. PICK x \in Workspaces : a = <<x>>
    BY <1>1 DEF Known, Place, Fixed, Manage
  <2>2. w \in Of("services", {<<x, e>> : e \in Environments})
    BY <1>1, <2>1 DEF DrillDown
  <2>3. \A names \in {<<x, e>> : e \in Environments} : Place("services", names)
    BY DEF Place
  <2> QED BY <2>2, <2>3, OfKnown
<1>2. CASE v.page = "services"
  <2>1. PICK x \in Workspaces, e \in Environments : a = <<x, e>>
    BY <1>2 DEF Known, Place, Fixed, Manage
  <2>2. ASSUME NEW s PROVE a \o <<s>> = <<x, e, s>>
    <3> DEFINE all == a \o <<s>>
    <3>1. all = a \o <<s>>
      OBVIOUS
    <3> HIDE DEF all
    <3>2. all = <<x, e, s>>
      BY ONLY <2>1, <3>1, Joined
    <3> QED BY <3>1, <3>2
  <2>3. \/ w \in Of("console", {a \o <<s>> : s \in Services})
        \/ w \in Of("files", {a \o <<s>> : s \in Services})
        \/ w \in Of("service-storage", {<<x, s>> : s \in Services})
    BY <1>2, <2>1 DEF DrillDown
  <2>4. /\ \A names \in {a \o <<s>> : s \in Services} : Place("console", names) /\ Place("files", names)
        /\ \A names \in {<<x, s>> : s \in Services} : Place("service-storage", names)
    BY <2>2 DEF Place
  <2> QED BY <2>3, <2>4, OfKnown
<1>3. CASE v.page = "console"
  <2>1. PICK x \in Workspaces, e \in Environments, s \in Services : a = <<x, e, s>>
    BY <1>3 DEF Known, Place, Fixed, Manage
  <2>2. w \in Of("files", {a})
    BY <1>3 DEF DrillDown
  <2>3. \A names \in {a} : Place("files", names)
    BY <2>1 DEF Place
  <2> QED BY <2>2, <2>3, OfKnown
<1>4. CASE v.page = "workspace-services"
  <2>1. PICK x \in Workspaces : a = <<x>>
    BY <1>4 DEF Known, Place, Fixed, Manage
  <2>2. w \in Of("service-environments", {<<x, s>> : s \in Services})
    BY <1>4, <2>1 DEF DrillDown
  <2>3. \A names \in {<<x, s>> : s \in Services} : Place("service-environments", names)
    BY DEF Place
  <2> QED BY <2>2, <2>3, OfKnown
<1>5. CASE v.page = "service-environments"
  <2>1. PICK x \in Workspaces, s \in Services : a = <<x, s>>
    BY <1>5 DEF Known, Place, Fixed, Manage
  <2>2. ASSUME NEW e PROVE a \o <<e>> = <<x, s, e>>
    <3> DEFINE all == a \o <<e>>
    <3>1. all = a \o <<e>>
      OBVIOUS
    <3> HIDE DEF all
    <3>2. all = <<x, s, e>>
      BY ONLY <2>1, <3>1, Joined
    <3> QED BY <3>1, <3>2
  <2>3. w \in Of("sf-console", {a \o <<e>> : e \in Environments})
    BY <1>5, <2>1 DEF DrillDown
  <2>4. \A names \in {a \o <<e>> : e \in Environments} : Place("sf-console", names)
    BY <2>2 DEF Place
  <2> QED BY <2>3, <2>4, OfKnown
<1>6. CASE v.page = "standalone-env-services"
  <2>1. PICK e \in StandaloneEnvs : a = <<e>>
    BY <1>6 DEF Known, Place, Fixed, Manage
  <2>2. w \in Of("standalone-env-console", {<<e, s>> : s \in Services})
    BY <1>6, <2>1 DEF DrillDown
  <2>3. \A names \in {<<e, s>> : s \in Services} : Place("standalone-env-console", names)
    BY DEF Place
  <2> QED BY <2>2, <2>3, OfKnown
<1>7. CASE v.page = "service-storage"
  <2>1. PICK x \in Workspaces, s \in Services : a = <<x, s>>
    BY <1>7 DEF Known, Place, Fixed, Manage
  <2>2. PICK n \in Names : \E f : w = In(f, View("service-storage-console", a \o <<n>>))
    BY <1>7, SMTT(20) DEF DrillDown
  <2>3. a \o <<n>> = <<x, s, n>>
    <3> DEFINE all == a \o <<n>>
    <3>1. all = a \o <<n>>
      OBVIOUS
    <3> HIDE DEF all
    <3>2. all = <<x, s, n>>
      BY ONLY <2>1, <3>1, Joined
    <3> QED BY <3>1, <3>2
  <2>4. Place("service-storage-console", a \o <<n>>)
    BY <2>3 DEF Place
  <2> QED BY <2>2, <2>4, FolderKnown
<1>8. CASE v.page = "resource-namespaces"
  <2>1. PICK r \in Clusters \cup Storages : a = <<r>>
    BY <1>8 DEF Known, Place, Fixed, Manage
  <2>2. \/ r \in Clusters /\ w \in Of("resource-workloads", {<<r, n>> : n \in Names})
        \/ \E f, n : n \in Names /\ w = In(f, View("resource-storage-console", <<r, n>>))
    <3>1. CASE r \in Clusters /\ r \notin Storages
      BY <1>8, <2>1, <3>1 DEF DrillDown
    <3>2. CASE r \in Storages /\ r \notin Clusters
      BY <1>8, <2>1, <3>2, SMTT(20) DEF DrillDown
    <3> QED BY <2>1, <3>1, <3>2, ResourcesAssumption
  <2>3. r \in Clusters => \A names \in {<<r, n>> : n \in Names} : Place("resource-workloads", names)
    BY DEF Place
  <2>4. \A n \in Names : Place("resource-storage-console", <<r, n>>)
    BY DEF Place
  <2> QED BY <2>2, <2>3, <2>4, OfKnown, FolderKnown
<1>9. CASE v.page = "resource-workloads"
  <2>1. PICK r \in Clusters, n \in Names : a = <<r, n>>
    BY <1>9 DEF Known, Place, Fixed, Manage
  <2>2. ASSUME NEW m PROVE a \o <<"deployment", m>> = <<r, n, "deployment", m>>
    <3>1. PICK d : d = "deployment"
      OBVIOUS
    <3> DEFINE all == a \o <<d, m>>
    <3>2. all = a \o <<d, m>>
      OBVIOUS
    <3> HIDE DEF all
    <3>3. all = <<r, n, d, m>>
      BY ONLY <2>1, <3>2, JoinedTwo
    <3> QED BY <3>1, <3>2, <3>3
  <2>3. w \in Of("resource-console", {a \o <<"deployment", m>> : m \in Names})
    BY <1>9 DEF DrillDown
  <2>4. \A names \in {a \o <<"deployment", m>> : m \in Names} : Place("resource-console", names)
    BY <2>2 DEF Place
  <2> QED BY <2>3, <2>4, OfKnown
<1> QED
  <2>1. v.page \in {"environments", "services", "console", "workspace-services",
                    "service-environments", "standalone-env-services", "service-storage",
                    "resource-namespaces", "resource-workloads"}
    BY DEF DrillDown
  <2> QED BY <2>1, <1>1, <1>2, <1>3, <1>4, <1>5, <1>6, <1>7, <1>8, <1>9

LEMMA BreadcrumbsKnown ==
  ASSUME NEW v, Known(v), NEW w \in breadcrumbs(v)
  PROVE  Known(w)
<1> DEFINE a == v.at
<1>1. Known(Up(v)) /\ Known(Up(Up(v)))
  BY UpKnown
<1>2. CASE v.page \in {"services", "service-storage", "console", "files", "service-environments",
                       "sf-console", "sf-files", "service-storage-console"}
  <2>1. \E x \in Workspaces : a[1] = x
    BY <1>2 DEF Known, Place, Fixed, Manage
  <2>2. v.page = "files" => Place("services", <<a[1], a[2]>>)
    BY DEF Known, Place, Fixed, Manage
  <2>3. Known(View("environments", <<a[1]>>)) /\ Known(View("workspace-services", <<a[1]>>))
    BY <2>1, ViewKnown DEF Place
  <2>4. \/ w \in {View("environments", <<a[1]>>), View("workspace-services", <<a[1]>>),
                  Up(v), Up(Up(v))}
        \/ v.page = "files" /\ w = View("services", <<a[1], a[2]>>)
    BY <1>2 DEF breadcrumbs
  <2> QED BY <1>1, <2>2, <2>3, <2>4, ViewKnown
<1>3. CASE v.page \in {"resource-workloads", "resource-console", "standalone-env-console",
                       "resource-storage-console"}
  <2>1. v.page \in {"resource-workloads", "resource-console"} => \E r \in Clusters : a[1] = r
    BY DEF Known, Place, Fixed, Manage
  <2>2. v.page \in {"resource-workloads", "resource-console"}
          => Known(View("resource-namespaces", <<a[1]>>))
    BY <2>1, ViewKnown DEF Place
  <2>3. \/ v.page \in {"resource-workloads", "resource-console"}
             /\ w = View("resource-namespaces", <<a[1]>>)
        \/ w = Up(v)
    BY <1>3 DEF breadcrumbs
  <2> QED BY <1>1, <2>2, <2>3
<1> QED
  <2>1. \/ v.page \in {"services", "service-storage", "console", "files", "service-environments",
                       "sf-console", "sf-files", "service-storage-console"}
        \/ v.page \in {"resource-workloads", "resource-console", "standalone-env-console",
                       "resource-storage-console"}
    BY DEF breadcrumbs
  <2> QED BY <2>1, <1>2, <1>3

LEMMA LinksKnown ==
  ASSUME NEW v, Known(v), NEW w \in Links(v)
  PROVE  Known(w)
<1>1. w \in FromDashboard => Known(w)
  BY FormsKnown DEF FromDashboard
<1>2. \/ w \in Entries \cup DrillDown(v) \cup breadcrumbs(v) \cup {Up(v)} \cup FormsOf(v.page)
      \/ w \in FromDashboard
  BY DEF Links
<1> QED BY <1>1, <1>2, EntriesKnown, DrillDownKnown, BreadcrumbsKnown, UpKnown, FormsKnown
-----------------------------------------------------------------------------
(* The history and the addresses that are being resolved are those of      *)
(* pages, and so is what will be shown.                                    *)
OfPage(h) == \A lost \in BOOLEAN : Known(resolveHash(h, lost))

HistoryOk ==
  /\ \E S : history \in Seq(S)
  /\ here \in 1..Len(history) /\ (loading => here = 1)
  /\ \A i \in 1..Len(history) : OfPage(history[i])
ResolvingOk ==
  /\ \E S : resolving \in Seq(S)
  /\ \A i \in 1..Len(resolving) : OfPage(resolving[i].hash)
PagesKnown == Known(view) /\ Known(importing)

Starting == loading => resolving = <<>> /\ importing = Home

RouterInv == HistoryOk /\ ResolvingOk /\ PagesKnown /\ Starting /\ AddressShowsView

LEMMA HashOfPage ==
  ASSUME NEW v, Known(v)
  PROVE  OfPage(viewToHash(v))
BY AddressesAreRead DEF Reads, OfPage

(* A page is shown and its address is the last of the history. *)
LEMMA NavigateKeeps ==
  ASSUME HistoryOk, NEW w, Known(w), navigate(w), ~loading, UNCHANGED loading
  PROVE  HistoryOk' /\ Known(view') /\ AddressShowsView'
<1> DEFINE hash == viewToHash(w)
           m    == IF here < MaxEntries THEN 1 ELSE 2
           kept == SubSeq(history, m, here)
<1>1. PICK S : history \in Seq(S)
  BY DEF HistoryOk
<1> DEFINE T == S \cup {hash}
<1>2. OfPage(hash)
  BY HashOfPage
<1>3. view' = w /\ history' = Append(kept, hash) /\ here' = Len(kept) + 1 /\ ~unsure'
  BY DEF navigate
<1>4. SamePage(resolveHash(hash, FALSE), w) \/ Ambiguous(w)
  BY AddressesAreRead DEF Reads
<1>5. m \in 1..2 /\ here \in 1..Len(history) /\ Len(history) \in Nat
  BY <1>1 DEF HistoryOk
<1>6. \A i \in 1..Len(history) : history[i] \in T /\ OfPage(history[i])
  BY <1>1 DEF HistoryOk
<1> HIDE DEF m, hash, T
<1>7. /\ kept \in Seq(T) /\ Len(kept) \in Nat
      /\ \A i \in 1..Len(kept) : OfPage(kept[i])
  <2>1. m \in Int /\ here \in Int /\ \A i \in m..here : history[i] \in T
    BY <1>5, <1>6
  <2>2. /\ kept \in Seq(T)
        /\ Len(kept) = IF m <= here THEN here - m + 1 ELSE 0
        /\ \A i \in 1..(here - m + 1) : kept[i] = history[m + i - 1]
    BY ONLY <2>1, SubSeqProperties
  <2> HIDE DEF kept
  <2>3. \A i \in 1..Len(kept) : kept[i] = history[m + i - 1] /\ m + i - 1 \in 1..Len(history)
    BY <1>5, <2>2
  <2>4. \A i \in 1..Len(kept) : OfPage(kept[i])
    BY <1>6, <2>3
  <2> QED BY <2>2, <2>4
<1> HIDE DEF kept
<1>8. hash \in T
  BY DEF T
<1>9. /\ history' \in Seq(T) /\ Len(history') = Len(kept) + 1
      /\ \A i \in 1..Len(kept) : history'[i] = kept[i]
      /\ history'[Len(kept) + 1] = hash
  BY <1>3, <1>7, <1>8, AppendProperties
<1>10. here' \in 1..Len(history') /\ history'[here'] = hash
  BY <1>3, <1>7, <1>9
<1>11. \A i \in 1..Len(history') : OfPage(history'[i])
  BY <1>2, <1>7, <1>9
<1>12. HistoryOk'
  BY <1>9, <1>10, <1>11 DEF HistoryOk, OfPage
<1>13. AddressShowsView'
  BY <1>3, <1>4, <1>10 DEF AddressShowsView
<1> QED BY <1>3, <1>12, <1>13

(* A page is shown at the address where the browser is. *)
LEMMA ReplaceKeeps ==
  ASSUME HistoryOk, NEW w, Known(w), view' = w, replaceState(w), loading' = FALSE
  PROVE  HistoryOk' /\ Known(view') /\ AddressShowsView'
<1> DEFINE hash == viewToHash(w)
<1>1. PICK S : history \in Seq(S)
  BY DEF HistoryOk
<1>2. OfPage(hash)
  BY HashOfPage
<1>3. history' = [history EXCEPT ![here] = hash] /\ here' = here
  BY DEF replaceState
<1>4. SamePage(resolveHash(hash, FALSE), w) \/ Ambiguous(w)
  BY AddressesAreRead DEF Reads
<1> HIDE DEF hash
<1>5. /\ history' \in Seq(S \cup {hash}) /\ Len(history') = Len(history)
      /\ here' \in 1..Len(history') /\ history'[here'] = hash
      /\ \A i \in 1..Len(history) : i # here => history'[i] = history[i]
  BY <1>1, <1>3 DEF HistoryOk
<1>6. \A i \in 1..Len(history') : OfPage(history'[i])
  BY <1>2, <1>3, <1>5 DEF HistoryOk
<1>7. HistoryOk'
  BY <1>5, <1>6 DEF HistoryOk, OfPage
<1>8. AddressShowsView'
  BY <1>4, <1>5 DEF AddressShowsView
<1> QED BY <1>7, <1>8

LEMMA SamePageAsItself == ASSUME NEW v PROVE SamePage(v, v)
BY DEF SamePage

(* An answer is taken out, the others are kept. *)
LEMMA AnswerTaken ==
  ASSUME ResolvingOk, NEW i \in 1..Len(resolving), resolving' = RemoveAt(resolving, i)
  PROVE  ResolvingOk'
<1>1. PICK S : resolving \in Seq(S)
  BY DEF ResolvingOk
<1> DEFINE a == SubSeq(resolving, 1, i - 1)
           b == SubSeq(resolving, i + 1, Len(resolving))
<1>2. resolving' = a \o b
  BY DEF RemoveAt
<1>3. /\ a \in Seq(S) /\ Len(a) = i - 1
      /\ \A j \in 1..(i - 1) : a[j] = resolving[j]
  BY <1>1
<1>4. /\ b \in Seq(S) /\ Len(b) = Len(resolving) - i
      /\ \A j \in 1..(Len(resolving) - i) : b[j] = resolving[i + j]
  BY <1>1
<1>5. Len(resolving) \in Nat
  BY <1>1
<1> HIDE DEF a, b
<1>6. \A j \in 1..Len(a) : OfPage(a[j].hash)
  BY <1>3, <1>5 DEF ResolvingOk
<1>7. \A j \in 1..Len(b) : OfPage(b[j].hash)
  BY <1>4, <1>5 DEF ResolvingOk
<1>8. /\ resolving' \in Seq(S) /\ Len(resolving') = Len(a) + Len(b)
      /\ \A j \in 1..(Len(a) + Len(b)) :
           resolving'[j] = IF j <= Len(a) THEN a[j] ELSE b[j - Len(a)]
  <2>1. /\ a \o b \in Seq(S) /\ Len(a \o b) = Len(a) + Len(b)
        /\ \A j \in 1..(Len(a) + Len(b)) :
             (a \o b)[j] = IF j <= Len(a) THEN a[j] ELSE b[j - Len(a)]
    BY ONLY <1>3, <1>4, ConcatProperties
  <2> QED BY <1>2, <2>1
<1>9. ASSUME NEW j \in 1..Len(resolving') PROVE OfPage(resolving'[j].hash)
  <2>1. CASE j <= Len(a)
    BY <1>3, <1>5, <1>6, <1>8, <2>1
  <2>2. CASE ~(j <= Len(a))
    <3>1. j - Len(a) \in 1..Len(b) /\ resolving'[j] = b[j - Len(a)]
      BY <1>3, <1>4, <1>5, <1>8, <2>2
    <3> QED BY <1>7, <3>1
  <2> QED BY <2>1, <2>2
<1> QED BY <1>8, <1>9 DEF ResolvingOk, OfPage

(* An address is asked for. *)
LEMMA ResolveKeeps ==
  ASSUME ResolvingOk, NEW hash, NEW by, OfPage(hash), Resolve(hash, by)
  PROVE  ResolvingOk' /\ resolving' # <<>>
<1>1. PICK S : resolving \in Seq(S)
  BY DEF ResolvingOk
<1> DEFINE e == [hash |-> hash, by |-> by]
           T == S \cup {e}
<1>2. resolving \in Seq(T) /\ e \in T /\ e.hash = hash
  BY <1>1
<1>3. resolving' = Append(resolving, e)
  BY DEF Resolve
<1> HIDE DEF e, T
<1>4. /\ resolving' \in Seq(T) /\ resolving' # <<>>
      /\ Len(resolving') = Len(resolving) + 1 /\ resolving'[Len(resolving) + 1] = e
      /\ \A i \in 1..Len(resolving) : resolving'[i] = resolving[i]
  BY <1>2, <1>3, AppendProperties
<1>5. \A i \in 1..Len(resolving') : i \in 1..Len(resolving) \/ i = Len(resolving) + 1
  BY <1>1, <1>4
<1>6. \A i \in 1..Len(resolving') : OfPage(resolving'[i].hash)
  BY <1>2, <1>4, <1>5 DEF ResolvingOk
<1> QED BY <1>4, <1>6 DEF ResolvingOk, OfPage
LEMMA SignInKnown == Known(SignIn)
BY ViewKnown DEF SignIn, Place, Fixed

LEMMA WayKnown ==
  ASSUME NEW v, Known(v)
  PROVE  Known(IF Outside(v) THEN Home ELSE v)
BY HomeKnown

LEMMA ListKnown ==
  ASSUME NEW page, page \in {"create-workspace", "create-environment", "create-service"} \cup Edit
  PROVE  Known(ListOf(page))
<1>1. \E p \in Manage : ListOf(page) = View(p, <<>>)
  BY DEF ListOf, Manage, Edit
<1> QED BY <1>1, ViewKnown DEF Place

LEMMA StartKeeps == ASSUME RouterInv, Start PROVE RouterInv'
<1> USE DEF RouterInv
<1>1. ResolvingOk' /\ Known(importing')
  BY DEF Start, ResolvingOk, OfPage, PagesKnown
<1>2. loading /\ loading' = FALSE /\ here = 1 /\ OfPage(history[1])
  BY DEF Start, HistoryOk
<1>3. PICK lost \in BOOLEAN :
        LET restored == resolveHash(history[1], lost)
            way      == IF Outside(restored) THEN Home ELSE restored
        IN  \/ view' = way /\ replaceState(way)
            \/ view' = SignIn /\ replaceState(SignIn)
            \/ unsure' = TRUE /\ UNCHANGED <<view, history, here>>
            \/ view' = restored /\ replaceState(restored)
  BY DEF Start
<1> DEFINE restored == resolveHash(history[1], lost)
           way      == IF Outside(restored) THEN Home ELSE restored
<1>4. Known(restored)
  BY <1>2 DEF OfPage
<1> HIDE DEF restored
<1>5. Known(way)
  BY <1>4, WayKnown
<1>6. \/ view' = way /\ replaceState(way)
      \/ view' = SignIn /\ replaceState(SignIn)
      \/ unsure' = TRUE /\ UNCHANGED <<view, history, here>>
      \/ view' = restored /\ replaceState(restored)
  BY <1>3 DEF restored
<1> HIDE DEF way
<1>7. CASE unsure' = TRUE /\ UNCHANGED <<view, history, here>>
  BY <1>1, <1>2, <1>7 DEF HistoryOk, OfPage, PagesKnown, Starting, AddressShowsView
<1>8. ASSUME NEW w, Known(w), view' = w, replaceState(w) PROVE RouterInv'
  BY <1>1, <1>2, <1>8, ReplaceKeeps DEF PagesKnown, Starting
<1> QED BY <1>4, <1>5, <1>6, <1>7, <1>8, SignInKnown

(* While only other things change, what is shown stays where it was. *)
LEMMA Undisturbed ==
  ASSUME RouterInv, UNCHANGED <<loading, view, history, here, unsure>>, Known(importing'),
         ResolvingOk', resolving' # <<>> \/ UNCHANGED resolving, Starting'
  PROVE  RouterInv'
BY DEF RouterInv, HistoryOk, OfPage, PagesKnown, AddressShowsView

LEMMA NextKeeps == ASSUME RouterInv, [RouterNext]_routerVars PROVE RouterInv'
<1> USE DEF RouterInv
<1>1. CASE Start
  BY <1>1, StartKeeps
<1>2. ASSUME NEW w, Known(w), navigate(w), ~loading, UNCHANGED loading, ResolvingOk', Known(importing')
      PROVE  RouterInv'
  BY <1>2, NavigateKeeps DEF PagesKnown, Starting
<1>3. UNCHANGED resolving => ResolvingOk'
  BY DEF ResolvingOk, OfPage
<1>4. CASE Registering
  <2>1. ~loading /\ UNCHANGED <<loading, resolving, importing>>
    BY <1>4 DEF Registering, Gate
  <2>2. \/ navigate(SignIn)
        \/ navigate(View("register", <<>>))
    BY <1>4 DEF Registering
  <2>3. Known(View("register", <<>>))
    BY ViewKnown DEF Place, Fixed
  <2> QED BY <1>2, <1>3, <2>1, <2>2, <2>3, SignInKnown DEF PagesKnown
<1>5. CASE handleLogout
  <2>1. /\ loading' = FALSE /\ UNCHANGED <<resolving, importing>>
        /\ view' = SignIn /\ replaceState(SignIn)
    BY <1>5 DEF handleLogout, Inside
  <2> QED BY <1>3, <2>1, SignInKnown, ReplaceKeeps DEF PagesKnown, Starting
<1>6. CASE LeaveBuilder
  <2>1. /\ ~loading /\ UNCHANGED <<loading, resolving, importing>>
        /\ navigate(ListOf(view.page))
        /\ view.page \in {"create-workspace", "create-environment", "create-service"} \cup Edit
    BY <1>6 DEF LeaveBuilder, Building
  <2> QED BY <1>2, <1>3, <2>1, ListKnown DEF PagesKnown
<1>7. CASE onImportToServer
  <2>1. /\ UNCHANGED <<loading, view, history, here, unsure>> /\ UNCHANGED resolving
        /\ importing' = ListOf(view.page)
        /\ view.page \in {"create-workspace", "create-environment", "create-service"} \cup Edit
    BY <1>7 DEF onImportToServer, Building
  <2>2. Starting'
    BY <1>7 DEF onImportToServer, Starting
  <2> QED BY <1>3, <2>1, <2>2, ListKnown, Undisturbed
<1>8. CASE Imported
  <2>1. navigate(importing) /\ importing' = Home /\ UNCHANGED <<loading, resolving>>
    BY <1>8 DEF Imported
  <2>2. ~loading
    BY <1>8 DEF Imported, Starting
  <2> QED BY <1>2, <1>3, <2>1, <2>2, HomeKnown DEF PagesKnown
<1>9. CASE ImportFails
  <2>1. /\ UNCHANGED <<loading, view, history, here, unsure>> /\ UNCHANGED resolving
        /\ importing' = Home
    BY <1>9 DEF ImportFails
  <2>2. Starting'
    BY <2>1 DEF Starting
  <2> QED BY <1>3, <2>1, <2>2, HomeKnown, Undisturbed
<1>10. ASSUME NEW role \in {"reader", "admin"}, onLogin(role) PROVE RouterInv'
  <2>1. /\ UNCHANGED <<loading, view, history, here, unsure>> /\ UNCHANGED importing
        /\ Resolve(history[here], "login")
    BY <1>10 DEF onLogin
  <2>2. OfPage(history[here])
    BY DEF HistoryOk
  <2>3. Starting'
    BY <1>10 DEF onLogin, Gate, Starting
  <2> QED BY <2>1, <2>2, <2>3, ResolveKeeps, Undisturbed DEF PagesKnown
<1>11. ASSUME NEW to \in 1..Len(history), onPopState(to) PROVE RouterInv'
  <2>1. /\ ~loading /\ UNCHANGED <<loading, view, history, importing>> /\ here' = to
        /\ Resolve(history[to], "popstate")
    BY <1>11 DEF onPopState
  <2>2. OfPage(history[to])
    BY DEF HistoryOk
  <2>3. ResolvingOk' /\ resolving' # <<>>
    BY <2>1, <2>2, ResolveKeeps
  <2>4. HistoryOk'
    BY <2>1 DEF HistoryOk, OfPage
  <2> QED BY <2>1, <2>3, <2>4 DEF PagesKnown, Starting, AddressShowsView
<1>12. ASSUME NEW i \in 1..Len(resolving), NEW lost \in BOOLEAN, Restored(i, lost) PROVE RouterInv'
  <2>1. /\ view' = resolveHash(resolving[i].hash, lost)
        /\ unsure' = (lost \/ resolving[i].hash # history[here])
        /\ resolving' = RemoveAt(resolving, i)
        /\ UNCHANGED <<loading, history, here, importing>>
    BY <1>12 DEF Restored
  <2>2. ResolvingOk'
    BY <2>1, AnswerTaken
  <2>3. HistoryOk' /\ PagesKnown'
    BY <2>1 DEF HistoryOk, OfPage, ResolvingOk, PagesKnown
  <2>4. ASSUME ~unsure' PROVE view' = resolveHash(history'[here'], FALSE)
    <3>1. ~lost /\ resolving[i].hash = history[here]
      BY <2>1, <2>4
    <3>2. lost = FALSE
      BY <3>1
    <3> QED BY <2>1, <3>1, <3>2
  <2>5. AddressShowsView'
    BY <2>4, SamePageAsItself DEF AddressShowsView
  <2>6. Starting'
    <3>1. resolving # <<>>
      OBVIOUS
    <3> QED BY <2>1, <3>1 DEF Starting
  <2> QED BY <2>2, <2>3, <2>5, <2>6
<1>13. ASSUME NEW i \in 1..Len(resolving), NEW lost \in BOOLEAN, SignedIn(i, lost) PROVE RouterInv'
  <2> DEFINE restored == resolveHash(resolving[i].hash, lost)
  <2>1. /\ resolving' = RemoveAt(resolving, i) /\ UNCHANGED <<loading, importing>>
        /\ navigate(IF Outside(restored) THEN Home ELSE restored)
    BY <1>13 DEF SignedIn
  <2>2. Known(restored)
    BY DEF ResolvingOk, OfPage
  <2> HIDE DEF restored
  <2>3. ResolvingOk' /\ Known(IF Outside(restored) THEN Home ELSE restored)
    BY <2>1, <2>2, AnswerTaken, WayKnown
  <2>4. ~loading
    BY DEF Starting
  <2> QED BY <1>2, <2>1, <2>3, <2>4 DEF PagesKnown
<1>14. ASSUME Inside, NEW w \in Links(view), Click(w) PROVE RouterInv'
  <2>1. ~loading /\ navigate(w) /\ UNCHANGED <<loading, resolving, importing>>
    BY <1>14 DEF Click, Inside
  <2>2. Known(w)
    BY <1>14, LinksKnown DEF PagesKnown
  <2> QED BY <1>2, <1>3, <2>1, <2>2 DEF PagesKnown
<1>15. CASE UNCHANGED routerVars
  BY <1>3, <1>15, Undisturbed DEF routerVars, PagesKnown, Starting
<1> QED BY <1>1, <1>4, <1>5, <1>6, <1>7, <1>8, <1>9, <1>10, <1>11, <1>12, <1>13, <1>14, <1>15
        DEF RouterNext

LEMMA InitHolds == ASSUME RouterInit PROVE RouterInv
<1>1. PICK v \in Views : history = <<viewToHash(v)>>
  BY DEF RouterInit
<1>2. OfPage(viewToHash(v))
  BY ViewsKnown, HashOfPage
<1> DEFINE hash == viewToHash(v)
<1>3. history \in Seq({hash}) /\ Len(history) = 1 /\ history[1] = hash
  BY <1>1
<1> HIDE DEF hash
<1>4. HistoryOk
  BY <1>2, <1>3 DEF HistoryOk, RouterInit, hash
<1>5. ResolvingOk
  BY DEF ResolvingOk, RouterInit
<1> QED BY <1>4, <1>5, HomeKnown DEF RouterInv, PagesKnown, Starting, AddressShowsView, RouterInit

(* The address in the browser is always that of the page that is shown,    *)
(* whichever pages were visited and in whatever order addresses were read. *)
THEOREM AddressAlwaysShowsView == RouterSpec => []AddressShowsView
<1>1. RouterInit => RouterInv
  BY InitHolds
<1>2. RouterInv /\ [RouterNext]_routerVars => RouterInv'
  BY NextKeeps
<1>3. RouterInv => AddressShowsView
  BY DEF RouterInv
<1> QED BY <1>1, <1>2, <1>3, PTL DEF RouterSpec
=============================================================================
