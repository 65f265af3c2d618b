\* Two monitors and two workers, any of which may die: nothing is lost.
SPECIFICATION Spec
CONSTANTS
  j1 = j1  j2 = j2  w1 = w1  w2 = w2  w3 = w3  m1 = m1  m2 = m2  nobody = nobody
  Nobody = nobody
  Jobs <- OneJob
  Workers <- TwoWorkers
  Monitors <- TwoMonitors
  MaxRetry = 1
  Disruptions = {"worker_crash", "monitor_crash"}
  MaxDisruptions = 3
SYMMETRY SymmetricAll
INVARIANTS
  AcceptedJobHeld
  ScanExclusive
PROPERTIES
  RejectedForAnother
