\* Three data servers register, then one client makes two calls.
CONSTANTS
  Projects = {"miniDFS", "metadata"}
  DataServers = {"d1", "d2", "d3"}
  Files <- MCFiles
  Numbers <- MCNumbers
  MaxCalls = 2
SPECIFICATION Spec
\* The client's calls are bounded and the data servers register once.
CHECK_DEADLOCK FALSE
INVARIANT ReadsWhatWasSent
INVARIANT OwnershipKept
INVARIANT SentComplete
