--------------------------- MODULE StreamAccess ---------------------------
(***************************************************************************)
(* Admission of WebSocket log streams and the re-check of their access     *)
(* (handleWebSocketStream's first lines and stream_access.go).             *)
(*                                                                         *)
(* A handler authenticates, compares the number of open sockets with the   *)
(* limit, upgrades the connection, and only then counts it.  While the     *)
(* socket is open a watcher re-authenticates it every Interval.            *)
(***************************************************************************)
EXTENDS Callers

CONSTANTS
  Conns,      \* stream requests
  Limit,      \* the ws_max_connections setting
  Interval,   \* accessRecheckInterval
  NoToken     \* of a request that has not come

ASSUME AccessAssumption ==
  /\ IsFiniteSet(Conns)
  /\ Limit \in Nat \ {0} /\ Interval \in Nat \ {0}
  /\ NoToken \notin Tokens

VARIABLES
  at,         \* request -> where its handler is
  token,      \* request -> the token it carries
  due,        \* request -> when its watcher's ticker fires next
  active,     \* activeWSConns
  \* history, read by the properties only:
  lostAt,     \* request -> since when its token grants nothing and its socket is open
  raced       \* requests admitted while the limit was reached but not yet counted

stream == <<at, token, due, active, lostAt, raced>>

Points == {"idle", "authorized", "admitted", "open", "revoked", "closed"}
At(p)  == {c \in Conns : at[c] = p}

StreamInit ==
  /\ at = [c \in Conns |-> "idle"]
  /\ token = [c \in Conns |-> NoToken]
  /\ due = [c \in Conns |-> 0]
  /\ lostAt = [c \in Conns |-> 0]
  /\ active = 0
  /\ raced = {}

Goto(c, p) == at' = [at EXCEPT ![c] = p]

(* authMiddleware and the check of the caller's scope. *)
Arrive(c, t) ==
  /\ at[c] = "idle"
  /\ t \in valid
  /\ Goto(c, "authorized")
  /\ token' = [token EXCEPT ![c] = t]
  /\ UNCHANGED <<now, valid, due, active, lostAt, raced>>

(* activeWSConns.Load() against the limit. *)
OverByOne == active <= Limit            \* fault: off by one

BelowLimit == active < Limit

Admit(c) ==
  /\ at[c] = "authorized"
  /\ IF BelowLimit THEN Goto(c, "admitted") ELSE Goto(c, "closed")
  /\ raced' = IF active < Limit /\ active + Cardinality(At("admitted")) >= Limit
              THEN raced \cup {c} ELSE raced
  /\ UNCHANGED <<now, valid, token, due, active, lostAt>>

(* The upgrade succeeds: count the socket, watch its access. *)
LongInterval == 2 * Interval            \* fault: the ticker is too slow

NextCheck == Interval

Accept(c) ==
  /\ at[c] = "admitted"
  /\ Goto(c, "open")
  /\ active' = active + 1
  /\ due' = [due EXCEPT ![c] = now + NextCheck]
  /\ lostAt' = [lostAt EXCEPT ![c] = now]
  /\ UNCHANGED <<now, valid, token, raced>>

AcceptFails(c) ==
  /\ at[c] = "admitted"
  /\ Goto(c, "closed")
  /\ raced' = raced \ {c}
  /\ UNCHANGED <<now, valid, token, due, active, lostAt>>

(* The watcher's ticker fires: re-authenticate and re-apply the rule. *)
Recheck(c) ==
  /\ at[c] = "open" /\ now >= due[c]
  /\ IF token[c] \in valid
     THEN due' = [due EXCEPT ![c] = @ + NextCheck] /\ UNCHANGED at
     ELSE Goto(c, "revoked") /\ UNCHANGED due
  /\ UNCHANGED <<now, valid, token, active, lostAt, raced>>

(* The store cannot be asked: the watcher treats that as a loss of access. *)
RecheckFails(c) ==
  /\ at[c] = "open" /\ now >= due[c]
  /\ Goto(c, "revoked")
  /\ UNCHANGED <<now, valid, token, due, active, lostAt, raced>>

(* The handler returns: the stream ended, the client left or access was lost. *)
KeptCount == active                     \* fault: the socket stays counted

Uncounted == active - 1

Leave(c) ==
  /\ at[c] \in {"open", "revoked"}
  /\ Goto(c, "closed")
  /\ active' = Uncounted
  /\ raced' = raced \ {c}
  /\ UNCHANGED <<now, valid, token, due, lostAt>>

(* A ticker that is due fires before time goes on: the watcher does nothing
   else, and a check takes no time worth modelling. *)
Punctual == \A c \in At("open") : now < due[c]

StreamStep(c) ==
  \/ \E t \in Tokens : Arrive(c, t)
  \/ Admit(c) \/ Accept(c) \/ AcceptFails(c)
  \/ Recheck(c) \/ RecheckFails(c)
  \/ Leave(c)

(* What a change of the callers' access means for the open streams: the time
   from which a stream is owed its end starts when its token stops counting. *)
Note == lostAt' = [c \in Conns |->
                     IF at[c] = "open" /\ token[c] \in valid THEN now ELSE lostAt[c]]
-----------------------------------------------------------------------------
StreamTypeOK ==
  /\ now \in 0..Horizon /\ valid \subseteq Tokens
  /\ at \in [Conns -> Points]
  /\ token \in [Conns -> Tokens \cup {NoToken}]
  /\ due \in [Conns -> 0..(Horizon + Interval)]
  /\ lostAt \in [Conns -> 0..Horizon]
  /\ active = Cardinality(At("open") \cup At("revoked"))
  /\ raced \subseteq Conns

(* rbac.md: open streams re-check the user every 30 seconds.  A stream whose
   caller has lost access, and has not regained it, is closed within Interval
   of the loss, or of its opening if access was lost while it was opening. *)
LossClosesInTime ==
  \A c \in At("open") : token[c] \notin valid => now <= lostAt[c] + Interval

(* The limit is checked before a socket is counted, so it can be exceeded, but
   only by as many sockets as were checked while others were being opened. *)
OverLimitOnlyByRace == active <= Limit + Cardinality(raced)

(* settings.md: ws_max_connections is the "Maximum number of concurrent
   WebSocket connections the server accepts". *)
WithinLimit == active <= Limit

(* Who may keep a stream, and how many may (watchAccess, activeWSConns). *)
StreamsStayAdmitted == LossClosesInTime /\ OverLimitOnlyByRace
=============================================================================
