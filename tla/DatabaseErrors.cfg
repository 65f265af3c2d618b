\* A database that fails, with and without effect, and a gateway that dies.
SPECIFICATION Spec
CONSTANTS
  j1 = j1  j2 = j2  w1 = w1  w2 = w2  w3 = w3  m1 = m1  m2 = m2  nobody = nobody
  Nobody = nobody
  Jobs <- OneJob
  Workers <- TwoWorkers
  Monitors <- OneMonitor
  MaxRetry = 2
  Disruptions = {"db_error", "gateway_crash"}
  MaxDisruptions = 5
SYMMETRY SymmetricAll
INVARIANTS
  QueueAgreesWithRows
  ResultAgreesWithStatus
