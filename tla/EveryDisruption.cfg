\* Every kind of disruption, one at a time, around two workers.
SPECIFICATION Spec
CONSTANTS
  j1 = j1  j2 = j2  w1 = w1  w2 = w2  w3 = w3  m1 = m1  m2 = m2  nobody = nobody
  Nobody = nobody
  Jobs <- OneJob
  Workers <- TwoWorkers
  Monitors <- OneMonitor
  MaxRetry = 1
  Disruptions = {"worker_crash", "sigterm", "heartbeat_lapse", "monitor_crash", "lock_expiry", "gateway_crash", "redis_error", "db_error", "spawn_error"}
  MaxDisruptions = 1
SYMMETRY SymmetricWorkers
CONSTRAINT ShortQueue
INVARIANTS
  TypeOK
  ResultComesFirst
