SPECIFICATION Spec
CONSTANTS
  Graphs <- MCGraphs
  NodesOf <- MCNodesOf
  ParentOf <- MCParentOf
  None = "none"
  EdgesOf <- MCEdgesOf
  FindingsOf <- MCFindingsOf
  Queries = {"", "web"}
  MaxRequests = 3
  MaxOpened = 1
INVARIANT DoubleTapExpands
CHECK_DEADLOCK FALSE
