SPECIFICATION Spec
CONSTANTS
  Words = 3
  Values = 3
  Queries <- MCQueries
  LMax = 8
  Slack = 3
  Calls <- MCCalls
  Watched <- MCWatched
  MaxParts = 3
  MaxFaults = 0
INVARIANT RemovedIsGone
