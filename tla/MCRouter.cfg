SPECIFICATION RouterSpec
CONSTANTS
  NoUser = NoUser
  Top = Top
  Workspaces = {"w1", "w2"}
  ServiceFirst = {"w2"}
  Environments <- MCEnvironments
  Services = {"s1"}
  StandaloneEnvs = {"n1"}
  StandaloneServices = {"t1"}
  Clusters = {"k8s"}
  Storages = {"b1"}
  Names = {"object"}
  Folders = {"logs"}
  MaxEntries = 2
  MaxResolving = 1
INVARIANT AddressShowsView
