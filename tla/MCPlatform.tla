----------------------------- MODULE MCPlatform -----------------------------
(***************************************************************************)
(* Small instances of the platform for TLC.                                *)
(***************************************************************************)
EXTENDS Platform

CONSTANTS j1, j2, w1, w2, w3, m1, m2, nobody

OneJob      == {j1}
TwoJobs     == {j1, j2}
OneWorker   == {w1}
TwoWorkers  == {w1, w2}
ThreeWorkers == {w1, w2, w3}
OneMonitor  == {m1}
TwoMonitors == {m1, m2}

\* A heartbeat that stays lapsed for scan after scan has the reaper copy the
\* same entry each time. States with more than MaxWaiting of them waiting are
\* checked but not extended.
MaxWaiting == 2
ShortQueue == Len(pending) <= MaxWaiting

SymmetricWorkers == Permutations(Workers)
SymmetricAll     == Permutations(Workers) \union Permutations(Jobs) \union Permutations(Monitors)
=============================================================================
