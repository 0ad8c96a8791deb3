SPECIFICATION Spec
CHECK_DEADLOCK FALSE
CONSTANTS
  t1 = t1
  c1 = c1
  c2 = c2
  k1 = k1
  p1 = p1
  p2 = p2
  d1 = d1
  d2 = d2
  Tokens = {t1}
  Conns = {c1, c2}
  Tickets = {k1}
  Paths = {p1, p2}
  Downloads = {d1, d2}
  Limit = 1
  Interval = 2
  TTL = 1
  Horizon = 4
  NoToken = NoToken
  NoTicket = NoTicket
INVARIANTS
  StreamsStayAdmitted
  TicketsHold
