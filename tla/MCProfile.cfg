SPECIFICATION Spec
CHECK_DEADLOCK FALSE
CONSTANTS
  a = a
  b = b
  p = p
  q = q
  c1 = c1
  n1 = n1
  n2 = n2
  Root = Root
  NoTab = NoTab
  Nodes <- MCNodes
  Kind <- MCKind
  Parent <- MCParent
  Rows <- MCRows
  LIMITS <- MCLimits
  MaxAsked = 2
  LogServices = {a, b}
  Files = {p, q}
  Pages = {1, 2}
  NoFile = NoFile
  MaxFileAsks = 2
  ServiceEnvs = {a, b}
  ServiceNames = {p, q}
  NoEnv = NoEnv
  MaxChecks = 2
  Entities <- MCEntities
  Imported <- MCImported
  Places = {p, q}
  NoEntity = NoEntity
  MaxLoads = 2
  MaxRemovals = 1
  b2 = b2
  Buckets = {a, b, b2}
  NameOf <- MCNameOf
  Folders = {p, q}
  Top = Top
  MaxListings = 2
  Clusters = {c1}
  Workloads <- MCWorkloads
  Nowhere = Nowhere
  MaxQuestions = 1
  Names = {a, b}
  NoName = NoName
  Unnamed = Unnamed
  Profiles = {p, q}
  FirstProfile = p
  Hosted = {p}
  NoProfile = NoProfile
  Resource = Resource
  NoResource = NoResource
  NoForm = NoForm
  MaxEdits = 3
  MaxServices = 2
INVARIANT ProfileSurvivesSaving
