SPECIFICATION RequestSpec
CONSTANTS
  r1 = r1
  r2 = r2
  t1 = t1
  t2 = t2
  Worker = Worker
  Torn = Torn
  None = None
  Requests = {r1, r2}
  Tasks = {t1, t2}
  Staff = {r2}
  Providers <- Registered
  MaxBootFailures = 1
  MaxDowns = 1
  MaxJobs = 1
  p1 = p1
  p2 = p2
  p3 = p3
  k1 = k1
  k2 = k2
  k3 = k3
  Callers = {p1, p2, p3}
  HitLimit = 2
  Window = 4
  Second = 2
  MaxClock = 5
  MaxCount = 3
  MaxCrashes = 1
  Calls <- OnePerKey
  MaxTracked = 2
  MaxLogged = 6
  MaxHits = 5
  Tabs = {1, 2}
  Users = {"plain", "guarded"}
  WithSecondFactor = {"guarded"}
  MaxIssued = 2
  MaxTokens = 2
  Callbacks = {1, 2, 3, 4}
  Processes = {1, 2}
  ProcessOf <- ThreeAndOne
  MaxFaults = 1
  Askers = {"q"}
  People = {"u", "v"}
  Gates <- GateSetups
  ExpiresIn = 1
  MaxAge = 2
  MaxChanges = 2
  Arrivals = {1, 2}
  BlanketLimit = 1
  RouteLimit = 1
  MaxVersion = 2
  Uploads = {1, 2, 3}
  MaxFileAge = 1
  Lifetimes = {0}
  Tags <- Languages
  BaseOf <- BaseLanguage
  Headers <- AcceptLanguage
  Catalogs <- FullOrEmpty
  TextKey = "k"
  DefaultTag = "en"
  FallbackTag = "en"
  MaxDeploys = 1
  AppClasses = {"A", "B"}
  AppStrings = {"s"}
  MaxHints = 1
  MaxRebinds = 2
  Defaulting = {"A"}
  Projects = {"a", "b", "c"}
  Holds <- HeldBy
  Tables <- TablesOf
  AppVersions = {"v1", "v2"}
  AppPrefixes <- RootOrV2
  AppTemplates <- ItemOfA
  AppNumbers = {"7"}
  AppPaths <- SomePaths
  MaxRoutes = 2
  MetricNames = {"n"}
  MetricLabels = {"x", "y"}
  MetricBounds <- OneOrTwoBounds
  MetricAmounts <- FallOrRise
  NotFinite = NotFinite
  MaxRecorded = 3
PROPERTY JobsOutsideRequests
CHECK_DEADLOCK FALSE
