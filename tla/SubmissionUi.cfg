\* Two runs of a user who may be hasty, over a network that may fail; the job of the
\* first may be retried.
SPECIFICATION FairSpec
CONSTANTS
  LastRun = 2
  MaxReads = 2
  RetriedRuns = {1}
INVARIANTS
  UiTypeOK
  PageShowsOneJob
  CompletedIsTrue
PROPERTIES
  OutcomeStays
  UiSettles
CHECK_DEADLOCK FALSE
