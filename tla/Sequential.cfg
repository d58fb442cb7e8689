SPECIFICATION MCSpec
CONSTANTS
  None = None
  Frames = {"a", "b", "c", "d"}
  NoPose = NoPose
  Poses <- MCPoses
  Identity <- MCIdentity
  Compose <- MCCompose
  Inverted <- MCInverse
  Between <- MCBetween
  Inputs <- MCInputs
  Batches <- MCBatches
  Durations = {0, 5}
  Past <- MCPast
  Width = 4
  Height = 3
  Values <- MCValues
  ProbabilityUpdate <- MCUpdated
  Settings <- MCSettings
  Observations <- MCObservations
  Rays <- MCRays
  Copies = {"c"}
  MaxRevision = 3
  Pushed = {1, 2, 3, 4, 5, 6, 7}
  Rank <- MCRank
  ForestInputs <- MCForestInputs
  Declared <- MCDeclared
  MaxNodes = 3
  MaxContexts = 4
  MaxFaults = 2
  Targets = {"s", "t", "u"}
  Key <- MCKey
  MaxItems = 4
  Slots = {"a", "b"}
  MaxTimers = 3
  Unset = Unset
CHECK_DEADLOCK FALSE
INVARIANTS Sound NoLateUse LookupsAgree ReplicasAgree PlansSound HeapSound Partition RobotObeys CallbacksServed
PROPERTIES TargetsFollowed
