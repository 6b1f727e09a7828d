--------------------------- MODULE MCSnapshotStore ---------------------------
(* Small instances of SnapshotStore: two jobs upload the same archive, the *)
(* first of them may be delivered twice.                                   *)
EXTENDS SnapshotStore, TLC

CONSTANTS j1, j2, a1, a2, a3, sha, oldName, newName

MCJobOf == a1 :> j1 @@ a2 :> j1 @@ a3 :> j2
MCSingleJobOf == a1 :> j1 @@ a3 :> j2
MCReplayJobOf == a1 :> j1 @@ a2 :> j1
MCShaOf == j1 :> sha @@ j2 :> sha
MCNameOf == j1 :> oldName @@ j2 :> newName
=============================================================================
