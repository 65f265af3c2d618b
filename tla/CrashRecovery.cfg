\* Two jobs, two workers that may crash or be told to stop, one monitor.
SPECIFICATION Spec
CONSTANTS
  j1 = j1  j2 = j2  w1 = w1  w2 = w2  w3 = w3  m1 = m1  m2 = m2  nobody = nobody
  Nobody = nobody
  Jobs <- TwoJobs
  Workers <- TwoWorkers
  Monitors <- OneMonitor
  MaxRetry = 1
  Disruptions = {"worker_crash", "sigterm"}
  MaxDisruptions = 2
SYMMETRY SymmetricAll
INVARIANTS
  AcceptedJobHeld
  SingleExecution
  QueueAgreesWithRows
  ClaimNeverRejected
  ContainerNameFree
  DeadLettersAgree
  MarkerMeansDecided
  OnlyDeadRecovered
PROPERTIES
  TerminalIsFinal
  ImplementsLifecycle
