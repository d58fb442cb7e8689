SPECIFICATION MCSpec
CONSTANTS
  c1 = c1
  c2 = c2
  Clients = {c1, c2}
  Requests <- MCRequests
  Setup <- MCSetup
  Middlewares <- MCMiddlewares
  Files <- MCFiles
  Directories <- MCDirectories
  Large <- MCLarge
  Chunk = 2
  Secure = {FALSE, TRUE}
  Nil = Nil
CHECK_DEADLOCK FALSE
INVARIANTS Dispatched
PROPERTIES Served Intact
