\* Sandboxes that fail to start, until the retries are exhausted.
SPECIFICATION FairSpec
CONSTANTS
  j1 = j1  j2 = j2  w1 = w1  w2 = w2  w3 = w3  m1 = m1  m2 = m2  nobody = nobody
  Nobody = nobody
  Jobs <- OneJob
  Workers <- TwoWorkers
  Monitors <- OneMonitor
  MaxRetry = 1
  Disruptions = {"spawn_error"}
  MaxDisruptions = 3
INVARIANTS
  DeadLettersAgree
PROPERTIES
  ImplementsLifecycle
  AcceptedJobDecided
  DecisionAnnounced
