\* A Redis error after COMMIT.
SPECIFICATION Spec
CONSTANTS
  j1 = j1  j2 = j2  w1 = w1  w2 = w2  w3 = w3  m1 = m1  m2 = m2  nobody = nobody
  Nobody = nobody
  Jobs <- OneJob
  Workers <- TwoWorkers
  Monitors <- OneMonitor
  MaxRetry = 1
  Disruptions = {"redis_error"}
  MaxDisruptions = 1
PROPERTIES
  TerminalNotRequeued
