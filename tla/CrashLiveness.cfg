\* One job and one worker more than may be lost: what was accepted gets decided.
SPECIFICATION FairSpec
CONSTANTS
  j1 = j1  j2 = j2  w1 = w1  w2 = w2  w3 = w3  m1 = m1  m2 = m2  nobody = nobody
  Nobody = nobody
  Jobs <- OneJob
  Workers <- ThreeWorkers
  Monitors <- OneMonitor
  MaxRetry = 1
  Disruptions = {"worker_crash", "sigterm"}
  MaxDisruptions = 2
PROPERTIES
  AcceptedJobDecided
