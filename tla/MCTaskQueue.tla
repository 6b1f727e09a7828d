---------------------------- MODULE MCTaskQueue ----------------------------
(* TaskQueue with two runs of one payload, and a scan beside them.         *)
EXTENDS TaskQueue
CONSTANTS t1, t2, t3, run1, scan1
TwoRuns == {t1, t2}
ThreeRuns == {t1, t2, t3}
TwinKey == [t \in {t1, t2} |-> run1]
MixedKeys == [t \in ThreeRuns |-> IF t = t3 THEN scan1 ELSE run1]
=============================================================================
