--------------------------- MODULE MCScanService ---------------------------
(* Instances of ScanService for TLC. *)
EXTENDS ScanService, TLC

CONSTANTS c1, c2, w1, w2, d1, d2, o1, o2

\* Two objects with addresses of their own.
TwoAddresses == (o1 :> 1) @@ (o2 :> 2)

\* What every caller uses.
ScanOps == [c \in {c1, c2} |-> {"scanSynch", "scanAsynch", "startScan", "stopScan", "scanEndWait"}]
TimedOps == [c \in {c1, c2} |-> {"scanSynch", "scanAsynch", "scanEndWait"}]
PeriodicOps == (c1 :> {"startPeriodicScan", "stopScan"})

Sym == Permutations({c1, c2}) \cup Permutations({w1, w2})
=============================================================================
