\* A sandbox that fails on the last attempt, and a crash after the LREM.
SPECIFICATION Spec
CONSTANTS
  j1 = j1  j2 = j2  w1 = w1  w2 = w2  w3 = w3  m1 = m1  m2 = m2  nobody = nobody
  Nobody = nobody
  Jobs <- OneJob
  Workers <- TwoWorkers
  Monitors <- OneMonitor
  MaxRetry = 0
  Disruptions = {"spawn_error", "worker_crash"}
  MaxDisruptions = 2
INVARIANTS
  AcceptedJobHeld
