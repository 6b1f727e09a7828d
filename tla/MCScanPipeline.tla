--------------------------- MODULE MCScanPipeline ---------------------------
(* scan_project_async with one consumer that fails.  The pipelines that    *)
(* end are instances of MCMachines.                                        *)
EXTENDS ScanPipeline

CONSTANTS c1, c2, c3

FailingConsumer == {[gathers |-> TRUE, mayFail |-> {c1}]}
=============================================================================
