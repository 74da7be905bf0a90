SPECIFICATION FairSpec
CONSTANTS
  P = P
  Q = Q
  root = root
  ann = ann
  t = t
  n = n
  c1 = c1
  c2 = c2
  c3 = c3
  h1 = h1
  h2 = h2
  o1 = o1
  o2 = o2
  ghost = ghost
  Processes = {P, Q}
  Accounts = {root, ann}
  Root = root
  RootName = admin
  Names = {admin, n}
  Tenants = {t}
  Strangers = {ghost}
  All = All
  Chats = {c1, c2, c3}
  Patches = {h1, h2}
  Posts = {o1, o2}
  Changes <- MCChanges
  Entries <- MCEntries
  Scenarios <- MCScenarios
  Setups <- MCSetups
  Calls = {c1, c2, c3}
  Instances = {P, Q}
  Keys = {t}
  Trusted = Trusted
  NoAccount = NoAccount
  Nothing = Nothing
  Host <- MCHost
  Redis = Redis
  Limits = {1, 2}
CHECK_DEADLOCK FALSE
INVARIANTS
  Admitted
  ScopeValid
  NamesUnique
  WithinLimit
  WindowEnds
PROPERTY BootEnds
