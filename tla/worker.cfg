SPECIFICATION FairSpec
CONSTANTS
  j1 = j1
  h1 = h1
  h2 = h2
  h3 = h3
  Job <- OneJob
  Hook <- ThreeHooks
  StallLimit = 1
  MaxAttempts = 8
INVARIANTS WorkerTypeOK CopiesAreStalls CompletedMeansDone MissedHookIsExplained RecordsAreRight
PROPERTY EveryJobEnds
