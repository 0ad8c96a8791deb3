SPECIFICATION Spec
CONSTANTS
  root = root
  bob = bob
  forever = forever
  p1 = p1
  brief = brief
  Ids = {u0, u1, u2}
  Names = {root, bob}
  Passwords = {p1}
  Grants = {forever, brief}
  Tokens = {t1, t2}
  Requests = {h1, h2}
  NoRow = NoRow
  Nobody = Nobody
  Root = u0
  RootRow <- MCRootRow
  NoGrant = forever
  Lapsing = {brief}
  MaxRequests = 2
  SelfRegistration = TRUE
SYMMETRY Symmetry
INVARIANTS SessionsOwned UniqueNames NoAccessBeforeApproval RevocationIsFinal AdminRemains
PROPERTIES OwnFieldsOnly
CHECK_DEADLOCK FALSE
