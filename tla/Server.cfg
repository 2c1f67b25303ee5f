CONSTANTS
  Users = {"u1", "u2", "u3"}
  NameOf <- NamesOfThree
  Tokens = {t1, t2}
  Keys = {"k"}
  Requests = {r1, r2}
  Passwords = {"p"}
  Roles = {"admin", "viewer"}
  NoOne = NoOne
  MaxRequests = 2
  AttemptKeys = {"account", "device"}
  MaxFailures <- FailuresAllowed
  LockBase <- FirstLock
  LockCap <- LongestLock
  Window = 2
  Escalation = 4
  Checks = {c1, c2}
  NoRow = NoRow
  NoCheck = NoCheck
  LastMoment = 7
  Asks <- AFewAsks
  Callers = {"a", "proxy", "someone"}
  Capacity = 3
  TokenCost = 2
  MaxTracked = 2
  Trusted = {"proxy"}
  NoBucket = NoBucket
  LastTick = 2
  TxnIds = {"x1"}
  Assertions = {"a1", "a2"}
  Callbacks = {b1, b2}
  TxnTtl = 2
  Validity <- StatedLifetime
  IssueDelay = 1
  Skew = 1
  ReplayFallback = 4
  IdpInitiated = TRUE
  Absent = Absent
  LastInstant = 3
  V4Bits = 2
  V6Bits = 4
  MappedPrefix = 1
  PrivateNets <- SomePrivate
  Arrivals <- SomeArrivals
  Middlewares = {"m1", "m2"}
  WarnEvery = 2
  NoRequest = NoRequest
  LastSecond = 3
  Environments <- SomeEnvironments
  Metadata <- SomeMetadata
  Asserted <- SomeAsserted
  SamlBuilt = TRUE
  NameWords = {"okta", "idp"}
  Blank = Blank
  Nobody = Nobody
  MaxSignIns = 3
  Browsers = {"b1", "b2"}
  SignInIds = {"i1", "i2"}
  NoCookie = NoCookie
  PublicHost = "public"
  RequestHost = "internal"
  Pages = {"public", "internal", "other host", "other site", "unparseable", "absent"}
  AllowInitiated = TRUE
SPECIFICATION ServerSpec
INVARIANTS RevocationIsFinal LadderHolds LoginsHappenOnce CallersAreKnown
PROPERTIES AdminRemains RoomIsMadeFairly
CHECK_DEADLOCK FALSE
SYMMETRY Interchangeable
