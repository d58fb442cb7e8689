SPECIFICATION HeapSpec
CONSTANTS
  Pushed = {1, 2, 3, 4, 5, 6, 7}
  Rank <- MCRank
CHECK_DEADLOCK FALSE
INVARIANT TopIsGreatest
