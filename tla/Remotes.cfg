CONSTANTS
  Parts = {"cloud", "lambda", "mocks"}
  c1 = c1
  c2 = c2
  n1 = n1
  n2 = n2
  f = f
  g = g
  p1 = n1
  p2 = n2
  q1 = c1
  q2 = c2
  h = h
  Clients = {c1, c2}
  Names = {n1, n2}
  None = None
  Torn = Torn
  MaxRuns = 3
  MaxMocks = 2
  DirClean = TRUE
  Directories <- MCDirectories
  Deployers = {c1, c2}
  DeployConfigs <- MCDeployConfigs
  Nothing = Nothing
  Latest = Latest
  MaxCommands = 3
  MockClis = {c1, c2}
  Pids = {p1, p2}
  MockOptions <- MCMockOptions
  Programs <- MCPrograms
  Nobody = Nobody
  MaxStarted = 2
SPECIFICATION Spec
SYMMETRY Symmetry
CHECK_DEADLOCK FALSE
INVARIANTS
  TypeOK
  EndedOwesNothing
  DuplicatesUnseen
  LiveIsWhole
PROPERTIES
  StrangersAreSafe
  DeployMirrors
  MocksRemembered
  DeployDelivers
