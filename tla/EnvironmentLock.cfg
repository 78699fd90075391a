SPECIFICATION EnvSpec
CONSTANTS
  Parts = {"lock"}
  h1 = h1  h2 = h2  h3 = h3  Nil = "nil"
  Clients = {"c1", "c2"}  Keys = {1, 2}  Handles = {h1, h2, h3}
  Charges = {1, 2}  Capacities = {0, 2}  Limit <- OneOfEach
  BufferSize = 2  AppendSizes = {1, 3}
  MaxBytes = 4  MaxFiles = 1  MaxCrashes = 1
  Processes = {"p1", "p2"}  Threads = {1, 2}  Nobody = "nobody"  MaxKills = 1
  Callers = {"a", "b"}  NoCaller = "none"
  MaxPieces = 2  MaxOther = 2  MaxShared = 2  IOErrors = TRUE
INVARIANT LockExcludes
CHECK_DEADLOCK FALSE
