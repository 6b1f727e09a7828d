--------------------------- MODULE MCProjectLock ---------------------------
(* ProjectLock with three operations on a pool of two connections.         *)
EXTENDS ProjectLock

CONSTANTS o1, o2, o3, c1, c2
=============================================================================
