-------------------------- MODULE ScanIndexProofs --------------------------
(***************************************************************************)
(* Theorems about ScanIndex, for every set of paths, edits and imports and *)
(* every number of failures: what is written to the index is what is on    *)
(* the disk, a scan that succeeds has left nothing behind, and what is     *)
(* stale when everything is at rest has an explanation.                    *)
(***************************************************************************)
EXTENDS ScanIndex, TLAPS

(* What a job's write does to the rows of one path: it brings them up to    *)
(* date, or, when the file could not be read, only says so.                *)
LEMMA CommitRows ==
    ASSUME NEW j, Verified(j), WriteIndex(j), NEW p \in Paths
    PROVE  /\ p \notin Targets(j) =>
                  node'[p] = node[p] /\ api'[p] = api[p] /\ how'[p] = how[p]
           /\ p \in Targets(j) =>
                  \/ node'[p] = disk[p] /\ api'[p] = node'[p]
                  \/ node'[p] = node[p] /\ api'[p] = none /\ how'[p] = "unread"
<1>1. CASE p \notin Targets(j)
  BY <1>1 DEF WriteIndex, Gone, Cleared, Present
<1>2. CASE p \in Gone(j)
  <2>1. p \in Targets(j) /\ stat[j][p] = none /\ disk[p] = none /\ p \notin Present(j)
    BY <1>2 DEF Gone, Present, Verified
  <2>2. node'[p] = none /\ api'[p] = none
    BY <1>2, <2>1 DEF WriteIndex, Cleared
  <2> QED BY <2>1, <2>2
<1>3. CASE p \in Present(j) /\ text[j][p] # unread
  <2>1. p \in Targets(j) /\ p \notin Gone(j) /\ text[j][p] = disk[p]
    BY <1>3 DEF Gone, Present, Verified
  <2>2. node'[p] = text[j][p] /\ api'[p] = text[j][p]
    BY <1>3, <2>1 DEF WriteIndex
  <2> QED BY <2>1, <2>2
<1>4. CASE p \in Present(j) /\ text[j][p] = unread
  <2>1. p \in Targets(j) /\ p \notin Gone(j)
    BY <1>4 DEF Gone, Present
  <2>2. node'[p] = node[p] /\ api'[p] = none /\ how'[p] = "unread"
    BY <1>4, <2>1 DEF WriteIndex, Cleared
  <2> QED BY <2>1, <2>2
<1> QED BY <1>1, <1>2, <1>3, <1>4 DEF Gone

(* What a scan's removal does to them. *)
LEMMA RemovalRows ==
    ASSUME RemoveRows, NEW p \in Paths
    PROVE  /\ p \in Removed => node'[p] = none /\ disk[p] = none /\ how'[p] = "removed"
           /\ p \notin Removed => node'[p] = node[p] /\ how'[p] = how[p]
BY DEF RemoveRows

(* Every other step leaves the index alone. *)
LEMMA OthersKeepIndex ==
    ASSUME Next, ~RemoveRows, \A j \in Jobs : ~Commit(j)
    PROVE  UNCHANGED indexVars
<1>1. ASSUME NEW e \in Edits, EditStep(e) PROVE UNCHANGED indexVars
  BY <1>1 DEF EditStep, UpdateFile, CreateFile, RenameFile, DeleteFile, ApplyPatch,
              Change, SubmitIndexing, SubmitFails, noJobVars
<1>2. ASSUME ScanStep PROVE UNCHANGED indexVars
  BY <1>2 DEF ScanStep, BeginScan, List, EndList, RemovalAborts, Judge, VerifyHash,
              notListing
<1>3. ASSUME NEW j \in Jobs, JobStep(j) PROVE UNCHANGED indexVars
  BY <1>3 DEF JobStep, BeginIndexing, Resolve, Stat, Read, Retry, Abort, Finish, JobFails,
              JobDies, Stop, noJobVars, notPreparing
<1> QED BY <1>1, <1>2, <1>3 DEF Next

(* A row of the index only ever changes to what the file holds at that      *)
(* moment (_verify_scan_snapshot_async under the project lock).            *)
THEOREM IndexFollowsDisk == Spec => WritesWhatIsThere
<1> DEFINE A == \A p \in Paths : node'[p] # node[p] => node'[p] = disk[p]
<1>1. ASSUME NEW j \in Jobs, Commit(j) PROVE A
  BY <1>1, CommitRows DEF Commit
<1>2. ASSUME RemoveRows PROVE A
  BY <1>2, RemovalRows
<1>3. ASSUME Next, ~RemoveRows, \A j \in Jobs : ~Commit(j) PROVE A
  BY <1>3, OthersKeepIndex DEF indexVars
<1>4. [Next]_vars => [A]_vars
  BY <1>1, <1>2, <1>3
<1> QED BY <1>4, PTL DEF Spec, WritesWhatIsThere

(* The API rows of a path and its file row come from one content, but for   *)
(* those that a scan or an unreadable file has parted.                     *)
THEOREM ApiRowsFollow == Spec => []ApiFollowsNode
<1>1. Init => ApiFollowsNode
  BY DEF Init, ApiFollowsNode
<1>2. ASSUME ApiFollowsNode, NEW j \in Jobs, Commit(j) PROVE ApiFollowsNode'
  BY <1>2, CommitRows DEF Commit, ApiFollowsNode
<1>3. ASSUME ApiFollowsNode, RemoveRows PROVE ApiFollowsNode'
  BY <1>3, RemovalRows DEF RemoveRows, ApiFollowsNode
<1>4. ASSUME ApiFollowsNode, Next, ~RemoveRows, \A j \in Jobs : ~Commit(j)
      PROVE  ApiFollowsNode'
  BY <1>4, OthersKeepIndex DEF indexVars, ApiFollowsNode
<1>5. ApiFollowsNode /\ UNCHANGED vars => ApiFollowsNode'
  BY DEF ApiFollowsNode, vars, indexVars
<1>6. ApiFollowsNode /\ [Next]_vars => ApiFollowsNode'
  BY <1>2, <1>3, <1>4, <1>5
<1> QED BY <1>1, <1>6, PTL DEF Spec
-----------------------------------------------------------------------------
(* Type correctness.                                                       *)

(* A call that changes files records what it changed. *)
LEMMA ChangeType ==
    ASSUME TypeOK, NEW e \in Edits, NEW op \in Ops, NEW file \in Paths \cup {none},
           NEW new \in [Paths -> Contents], Change(e, op, file, new)
    PROVE  /\ disk' \in [Paths -> Contents]
           /\ edit' \in [Edits -> {Unasked} \cup
                            [op : Ops, paths : SUBSET Paths, file : Paths \cup {none}]]
           /\ last' \in [Paths -> Edits \cup {none}]
           /\ stale' \in [Jobs -> SUBSET Paths] /\ touched' \subseteq Paths
           /\ UNCHANGED <<indexVars, stat, text, links, tries, existing, mark, want, faults>>
<1> DEFINE changed == {p \in Paths : new[p] # disk[p]}
<1>1. disk' = new
  BY DEF Change
<1>2. edit' \in [Edits -> {Unasked} \cup
                     [op : Ops, paths : SUBSET Paths, file : Paths \cup {none}]]
  <2>1. edit' = [edit EXCEPT ![e] = [op |-> op, paths |-> changed, file |-> file]]
    BY DEF Change
  <2>2. [op |-> op, paths |-> changed, file |-> file]
            \in [op : Ops, paths : SUBSET Paths, file : Paths \cup {none}]
    OBVIOUS
  <2> QED BY <2>1, <2>2 DEF TypeOK
<1>3. last' \in [Paths -> Edits \cup {none}]
  <2>1. last' = [p \in Paths |-> IF p \in changed THEN e ELSE last[p]]
    BY DEF Change
  <2> QED BY <2>1 DEF TypeOK
<1>4. stale' \in [Jobs -> SUBSET Paths]
  <2>1. ComeOrGo(new) \subseteq Paths
    BY IndexAssumption DEF ComeOrGo
  <2>2. stale' = [j \in Jobs |-> IF pc[j] = "lock" THEN stale[j] \cup ComeOrGo(new)
                                  ELSE stale[j]]
    BY DEF Change
  <2> QED BY <2>1, <2>2 DEF TypeOK
<1>5. touched' \subseteq Paths
  BY DEF Change, TypeOK
<1>6. UNCHANGED <<indexVars, stat, text, links, tries, existing, mark, want, faults>>
  BY DEF Change
<1> QED BY <1>1, <1>2, <1>3, <1>4, <1>5, <1>6

(* A call that changes files and is to submit a job keeps the types. *)
LEMMA SavedType ==
    ASSUME TypeOK, NEW e \in Edits, NEW op \in Ops, NEW file \in Paths \cup {none},
           NEW new \in [Paths -> Contents], Change(e, op, file, new), Saved(e)
    PROVE  TypeOK'
<1>1. /\ answer' \in [Edits -> {"none", "saved", "pending", "running", "error"}]
      /\ UNCHANGED <<job, pc>>
  BY DEF Saved, TypeOK
<1> QED BY <1>1, ChangeType DEF TypeOK, indexVars

(* The steps of edits keep the types. *)
LEMMA EditTypes ==
    ASSUME TypeOK, NEW e \in Edits, EditStep(e)
    PROVE  TypeOK'
<1> USE DEF Ops
<1>1. CASE UpdateFile(e)
  <2> PICK p \in Paths : /\ Change(e, "update", p, [disk EXCEPT ![p] = e])
                         /\ Saved(e)
    BY <1>1 DEF UpdateFile
  <2>1. [disk EXCEPT ![p] = e] \in [Paths -> Contents]
    BY DEF TypeOK, Contents
  <2> QED BY <2>1, SavedType
<1>2. CASE CreateFile(e)
  <2> PICK p \in Paths : /\ Change(e, "create", p, [disk EXCEPT ![p] = e])
                         /\ Saved(e)
    BY <1>2 DEF CreateFile
  <2>1. [disk EXCEPT ![p] = e] \in [Paths -> Contents]
    BY DEF TypeOK, Contents
  <2> QED BY <2>1, SavedType
<1>3. CASE RenameFile(e)
  <2> PICK p, q \in Paths :
          /\ Change(e, "rename", p, [disk EXCEPT ![p] = none, ![q] = disk[p]])
          /\ Saved(e)
    BY <1>3 DEF RenameFile
  <2>1. [disk EXCEPT ![p] = none, ![q] = disk[p]] \in [Paths -> Contents]
    BY DEF TypeOK, Contents
  <2> QED BY <2>1, SavedType
<1>4. CASE DeleteFile(e)
  <2> PICK p \in Paths : /\ Change(e, "delete", p, [disk EXCEPT ![p] = none])
                         /\ Saved(e)
    BY <1>4 DEF DeleteFile
  <2>1. [disk EXCEPT ![p] = none] \in [Paths -> Contents]
    BY DEF TypeOK, Contents
  <2> QED BY <2>1, SavedType
<1>5. CASE ApplyPatch(e)
  <2> PICK d \in Patches :
          Change(e, "patch", none,
                 [p \in Paths |-> IF p \in d.rewrites THEN e
                                  ELSE IF p \in d.removes THEN none ELSE disk[p]])
    BY <1>5 DEF ApplyPatch
  <2>1. [p \in Paths |-> IF p \in d.rewrites THEN e
                         ELSE IF p \in d.removes THEN none ELSE disk[p]]
            \in [Paths -> Contents]
    BY DEF TypeOK, Contents
  <2>2. /\ answer' = [answer EXCEPT ![e] = "pending"]
        /\ job' = [job EXCEPT ![e] = e]
        /\ pc' = [pc EXCEPT ![e] = "stat"]
    BY <1>5 DEF ApplyPatch
  <2>3. /\ answer' \in [Edits -> {"none", "saved", "pending", "running", "error"}]
        /\ job' \in [Edits -> Edits \cup {none}]
        /\ pc' \in [Jobs -> Running \cup Ended \cup {"none", "pending", "dead"}]
    BY <2>2 DEF TypeOK, Running
  <2>4. none \in Paths \cup {none} /\ "patch" \in Ops
    OBVIOUS
  <2> QED BY <2>1, <2>3, <2>4, ChangeType DEF TypeOK, indexVars
<1>6. CASE SubmitIndexing(e)
  <2>1. UNCHANGED <<noJobVars, faults>>
    BY <1>6 DEF SubmitIndexing
  <2>2. /\ answer' \in [Edits -> {"none", "saved", "pending", "running", "error"}]
        /\ job' \in [Edits -> Edits \cup {none}]
        /\ pc' \in [Jobs -> Running \cup Ended \cup {"none", "pending", "dead"}]
    <3>1. ASSUME NEW j \in Twins(e), job' = [job EXCEPT ![e] = j],
                 answer' = [answer EXCEPT ![e] = IF pc[j] = "pending" THEN "pending"
                                                                      ELSE "running"],
                 pc' = pc
          PROVE  <2>2!1 /\ <2>2!2 /\ <2>2!3
      BY <3>1 DEF Twins, TypeOK
    <3>2. ASSUME job' = [job EXCEPT ![e] = e], answer' = [answer EXCEPT ![e] = "pending"],
                 pc' = [pc EXCEPT ![e] = "pending"]
          PROVE  <2>2!1 /\ <2>2!2 /\ <2>2!3
      BY <3>2 DEF TypeOK
    <3> QED BY <1>6, <3>1, <3>2 DEF SubmitIndexing
  <2> QED BY <2>1, <2>2 DEF TypeOK, noJobVars, indexVars, prepVars, scanVars
<1>7. CASE SubmitFails(e)
  <2>1. faults' \in 0..MaxFaults /\ UNCHANGED <<noJobVars, job, pc>>
    BY <1>7, IndexAssumption DEF SubmitFails, Fault, TypeOK
  <2>2. answer' \in [Edits -> {"none", "saved", "pending", "running", "error"}]
    BY <1>7 DEF SubmitFails, TypeOK
  <2> QED BY <2>1, <2>2 DEF TypeOK, noJobVars, indexVars, prepVars, scanVars
<1> QED BY <1>1, <1>2, <1>3, <1>4, <1>5, <1>6, <1>7 DEF EditStep

(* The end of a scan leaves its variables as typed. *)
LEMMA ScanForgotten ==
    ASSUME ForgetScan
    PROVE  /\ existing' \in [Paths -> Contents]
           /\ mark' \in [Paths -> {"unlisted", "listed", "verify", "absent", "done"}]
           /\ want' \in [Paths -> Contents \cup {unseen, zero}]
           /\ touched' \subseteq Paths
BY DEF ForgetScan, Unseen, Contents

(* The steps that only the scan takes keep the types. *)
LEMMA ScanTypes ==
    ASSUME TypeOK, ScanStep
    PROVE  TypeOK'
<1> Scan \in Jobs
  BY DEF Jobs
<1>1. CASE BeginScan
  <2>1. existing' \in [Paths -> Contents]
    BY <1>1 DEF BeginScan, TypeOK
  <2>2. pc' \in [Jobs -> Running \cup Ended \cup {"none", "pending", "dead"}]
    BY <1>1 DEF BeginScan, TypeOK, Running
  <2>3. UNCHANGED <<callVars, indexVars, prepVars, mark, want, touched, faults>>
    BY <1>1 DEF BeginScan
  <2> QED BY <2>1, <2>2, <2>3 DEF TypeOK, callVars, indexVars, prepVars
<1>2. CASE List
  <2>1. mark' \in [Paths -> {"unlisted", "listed", "verify", "absent", "done"}]
    BY <1>2 DEF List
  <2>2. UNCHANGED <<notListing, pc, want, faults>>
    BY <1>2 DEF List
  <2> QED BY <2>1, <2>2 DEF TypeOK, notListing, callVars, indexVars, prepVars
<1>3. CASE Judge
  <2>1. mark' \in [Paths -> {"unlisted", "listed", "verify", "absent", "done"}]
    BY <1>3 DEF Judge, TypeOK
  <2>2. want' \in [Paths -> Contents \cup {unseen, zero}]
    BY <1>3 DEF Judge, TypeOK
  <2>3. UNCHANGED <<notListing, pc, faults>>
    BY <1>3 DEF Judge
  <2> QED BY <2>1, <2>2, <2>3 DEF TypeOK, notListing, callVars, indexVars, prepVars
<1>4. ASSUME NEW p \in Paths, VerifyHash(p) PROVE TypeOK'
  <2>1. mark' \in [Paths -> {"unlisted", "listed", "verify", "absent", "done"}]
    BY <1>4 DEF VerifyHash, TypeOK
  <2>2. want' \in [Paths -> Contents \cup {unseen, zero}]
    BY <1>4 DEF VerifyHash, TypeOK
  <2>3. faults' \in 0..MaxFaults
    BY <1>4, IndexAssumption DEF VerifyHash, Fault, TypeOK
  <2>4. UNCHANGED <<notListing, pc>>
    BY <1>4 DEF VerifyHash
  <2> QED BY <2>1, <2>2, <2>3, <2>4 DEF TypeOK, notListing, callVars, indexVars, prepVars
<1>5. CASE EndList
  <2>1. pc' \in [Jobs -> Running \cup Ended \cup {"none", "pending", "dead"}]
    BY <1>5 DEF EndList, TypeOK, Running
  <2>2. UNCHANGED <<notListing, mark, want, faults>>
    BY <1>5 DEF EndList
  <2> QED BY <2>1, <2>2 DEF TypeOK, notListing, callVars, indexVars, prepVars
<1>6. CASE RemoveRows
  <2>1. node' \in [Paths -> Contents] /\ edges' \subseteq Imports
    BY <1>6 DEF RemoveRows, TypeOK, Contents
  <2>2. how' \in [Paths -> {"fresh", "unread", "removed"}]
    BY <1>6 DEF RemoveRows, TypeOK
  <2>3. pc' \in [Jobs -> Running \cup Ended \cup {"none", "pending", "dead"}]
    BY <1>6 DEF RemoveRows, TypeOK, Ended
  <2>4. ForgetScan /\ UNCHANGED <<callVars, api, missed, prepVars, faults>>
    BY <1>6 DEF RemoveRows
  <2> QED BY <2>1, <2>2, <2>3, <2>4, ScanForgotten DEF TypeOK, callVars, prepVars
<1>7. CASE RemovalAborts
  <2>1. pc' \in [Jobs -> Running \cup Ended \cup {"none", "pending", "dead"}]
    BY <1>7 DEF RemovalAborts, TypeOK, Ended
  <2>2. ForgetScan /\ UNCHANGED <<callVars, indexVars, prepVars, faults>>
    BY <1>7 DEF RemovalAborts
  <2> QED BY <2>1, <2>2, ScanForgotten DEF TypeOK, callVars, indexVars, prepVars
<1> QED BY <1>1, <1>2, <1>3, <1>4, <1>5, <1>6, <1>7 DEF ScanStep

(* The end of scan_files_async leaves what it prepared as typed. *)
LEMMA Forgotten ==
    ASSUME TypeOK, NEW j \in Jobs, Forget(j)
    PROVE  /\ stat' \in [Jobs -> [Paths -> Contents \cup {unseen, zero}]]
           /\ text' \in [Jobs -> [Paths -> Contents \cup {unseen, unread}]]
           /\ links' \in [Jobs -> SUBSET Imports] /\ stale' \in [Jobs -> SUBSET Paths]
           /\ tries' \in [Jobs -> 0..1]
BY DEF Forget, TypeOK, Unseen

(* The paths that a job scans, what it takes their stats to be, and the     *)
(* imports that it finds.                                                  *)
LEMMA Prepared ==
    ASSUME TypeOK, NEW j \in Jobs
    PROVE  /\ Targets(j) \subseteq Paths
           /\ \A p \in Paths : StatOf(j, p) \in Contents \cup {unseen, zero}
           /\ \A txt : LinksOf(j, txt) \subseteq Imports
<1>1. Targets(j) \subseteq Paths
  BY DEF Targets, Jobs, TypeOK, Unasked
<1>2. ASSUME NEW p \in Paths PROVE StatOf(j, p) \in Contents \cup {unseen, zero}
  BY DEF StatOf, TypeOK, Contents
<1> QED BY <1>1, <1>2 DEF LinksOf

(* What a job writes has the types of the index. *)
LEMMA WriteTypes ==
    ASSUME TypeOK, NEW j \in Jobs, Commit(j)
    PROVE  /\ node' \in [Paths -> Contents] /\ api' \in [Paths -> Contents]
           /\ edges' \subseteq Imports /\ how' \in [Paths -> {"fresh", "unread", "removed"}]
           /\ missed' \in [Paths -> SUBSET Paths]
<1> WriteIndex(j) /\ Verified(j)
  BY DEF Commit
<1>1. ASSUME NEW p \in Paths
      PROVE  node'[p] \in Contents /\ api'[p] \in Contents
             /\ how'[p] \in {"fresh", "unread", "removed"}
  <2>1. none \in Contents /\ disk[p] \in Contents /\ node[p] \in Contents
        /\ api[p] \in Contents
    BY DEF TypeOK, Contents
  <2>2. how'[p] \in {"fresh", "unread", "removed"}
    BY DEF WriteIndex, TypeOK
  <2> QED BY <2>1, <2>2, CommitRows
<1>2. /\ node' = [p \in Paths |-> node'[p]] /\ api' = [p \in Paths |-> api'[p]]
      /\ how' = [p \in Paths |-> how'[p]]
  BY DEF WriteIndex
<1>3. edges' \subseteq Imports
  BY DEF WriteIndex, OldEdges, TypeOK
<1>4. missed' \in [Paths -> SUBSET Paths]
  BY DEF WriteIndex, TypeOK
<1> QED BY <1>1, <1>2, <1>3, <1>4

(* The steps of jobs keep the types. *)
LEMMA JobTypes ==
    ASSUME TypeOK, NEW j \in Jobs, JobStep(j)
    PROVE  TypeOK'
<1>1. CASE BeginIndexing(j)
  <2>1. pc' \in [Jobs -> Running \cup Ended \cup {"none", "pending", "dead"}]
    BY <1>1 DEF BeginIndexing, TypeOK, Running
  <2>2. UNCHANGED <<noJobVars, answer, job, faults>>
    BY <1>1 DEF BeginIndexing
  <2> QED BY <2>1, <2>2 DEF TypeOK, noJobVars, indexVars, prepVars, scanVars
<1>2. CASE Resolve(j)
  <2>1. pc' \in [Jobs -> Running \cup Ended \cup {"none", "pending", "dead"}]
    BY <1>2 DEF Resolve, TypeOK, Running
  <2>2. links' \in [Jobs -> SUBSET Imports]
    BY <1>2, Prepared DEF Resolve, TypeOK
  <2>3. stale' \in [Jobs -> SUBSET Paths]
    BY <1>2 DEF Resolve, TypeOK
  <2>4. UNCHANGED <<notPreparing, stat, text, tries, faults>>
    BY <1>2 DEF Resolve
  <2> QED BY <2>1, <2>2, <2>3, <2>4 DEF TypeOK, notPreparing, callVars, indexVars, scanVars
<1>3. ASSUME NEW p \in Paths, Stat(j, p) PROVE TypeOK'
  <2>1. pc' \in [Jobs -> Running \cup Ended \cup {"none", "pending", "dead"}]
    BY <1>3 DEF Stat, TypeOK, Running
  <2>2. stat' \in [Jobs -> [Paths -> Contents \cup {unseen, zero}]]
    BY <1>3, Prepared DEF Stat, TypeOK
  <2>3. UNCHANGED <<notPreparing, text, links, stale, tries, faults>>
    BY <1>3 DEF Stat
  <2> QED BY <2>1, <2>2, <2>3 DEF TypeOK, notPreparing, callVars, indexVars, scanVars
<1>4. ASSUME NEW p \in Paths, Read(j, p) PROVE TypeOK'
  <2>1. text' \in [Jobs -> [Paths -> Contents \cup {unseen, unread}]]
    <3>1. \E t \in Contents \cup {unseen, unread} : text' = [text EXCEPT ![j][p] = t]
      BY <1>4 DEF Read, TypeOK
    <3> QED BY <3>1 DEF TypeOK
  <2>2. faults' \in 0..MaxFaults
    BY <1>4, IndexAssumption DEF Read, Fault, TypeOK
  <2>3. UNCHANGED <<notPreparing, pc, stat, links, stale, tries>>
    BY <1>4 DEF Read
  <2> QED BY <2>1, <2>2, <2>3 DEF TypeOK, notPreparing, callVars, indexVars, scanVars
<1>5. CASE Commit(j)
  <2>1. pc' \in [Jobs -> Running \cup Ended \cup {"none", "pending", "dead"}]
    BY <1>5 DEF Commit, TypeOK, Running
  <2>2. Forget(j) /\ UNCHANGED <<callVars, scanVars, faults>>
    BY <1>5 DEF Commit
  <2> QED BY <1>5, <2>1, <2>2, WriteTypes, Forgotten DEF TypeOK, callVars, scanVars
<1>6. CASE Retry(j)
  <2> DEFINE st == [p \in Paths |-> IF p \in Targets(j) THEN StatOf(j, p) ELSE unseen]
             tx == [p \in Paths |-> IF p \in Targets(j) /\ disk[p] # none THEN disk[p]
                                    ELSE unseen]
  <2>1. /\ tries' = [tries EXCEPT ![j] = 1] /\ stat' = [stat EXCEPT ![j] = st]
        /\ text' = [text EXCEPT ![j] = tx] /\ links' = [links EXCEPT ![j] = LinksOf(j, tx)]
        /\ stale' = [stale EXCEPT ![j] = {}] /\ UNCHANGED <<notPreparing, pc, faults>>
    BY <1>6 DEF Retry
  <2>2. st \in [Paths -> Contents \cup {unseen, zero}]
    BY Prepared
  <2>3. tx \in [Paths -> Contents \cup {unseen, unread}]
    BY DEF TypeOK
  <2>4. LinksOf(j, tx) \subseteq Imports
    BY Prepared
  <2> HIDE DEF st, tx
  <2>5. stat' \in [Jobs -> [Paths -> Contents \cup {unseen, zero}]]
    BY <2>1, <2>2 DEF TypeOK
  <2>6. text' \in [Jobs -> [Paths -> Contents \cup {unseen, unread}]]
    BY <2>1, <2>3 DEF TypeOK
  <2>7. /\ links' \in [Jobs -> SUBSET Imports] /\ stale' \in [Jobs -> SUBSET Paths]
        /\ tries' \in [Jobs -> 0..1]
    BY <2>1, <2>4 DEF TypeOK
  <2> QED BY <2>1, <2>5, <2>6, <2>7 DEF TypeOK, notPreparing, callVars, indexVars, scanVars
<1>7. CASE Abort(j)
  <2>1. pc' \in [Jobs -> Running \cup Ended \cup {"none", "pending", "dead"}]
    <3>1. pc' = [pc EXCEPT ![j] = "partial"] \/ pc' = [pc EXCEPT ![j] = "failed"]
      BY <1>7 DEF Abort
    <3> QED BY <3>1 DEF TypeOK, Ended
  <2>2. Forget(j) /\ UNCHANGED <<callVars, indexVars, faults>>
        /\ (ForgetScan \/ UNCHANGED scanVars)
    BY <1>7 DEF Abort
  <2> QED BY <2>1, <2>2, Forgotten, ScanForgotten DEF TypeOK, callVars, indexVars, scanVars
<1>8. CASE Finish(j)
  <2>1. pc' \in [Jobs -> Running \cup Ended \cup {"none", "pending", "dead"}]
    BY <1>8 DEF Finish, TypeOK, Ended
  <2>2. UNCHANGED <<notPreparing, prepVars, faults>>
    BY <1>8 DEF Finish
  <2> QED BY <2>1, <2>2 DEF TypeOK, notPreparing, callVars, indexVars, prepVars, scanVars
<1>9. CASE JobFails(j) \/ JobDies(j)
  <2>1. pc' \in [Jobs -> Running \cup Ended \cup {"none", "pending", "dead"}]
    BY <1>9 DEF JobFails, JobDies, TypeOK, Ended
  <2>2. Stop(j)
    BY <1>9 DEF JobFails, JobDies
  <2>3. faults' \in 0..MaxFaults
    BY <2>2, IndexAssumption DEF Stop, Fault, TypeOK
  <2>4. Forget(j) /\ UNCHANGED <<callVars, indexVars>> /\ (ForgetScan \/ UNCHANGED scanVars)
    BY <2>2 DEF Stop
  <2> QED BY <2>1, <2>3, <2>4, Forgotten, ScanForgotten
          DEF TypeOK, callVars, indexVars, scanVars
<1> QED BY <1>1, <1>2, <1>3, <1>4, <1>5, <1>6, <1>7, <1>8, <1>9 DEF JobStep

(* The state is what its declarations say. *)
THEOREM TypeCorrect == Spec => []TypeOK
<1>1. Init => TypeOK
  <2> SUFFICES ASSUME Init PROVE TypeOK
    OBVIOUS
  <2>1. disk \in [Paths -> Contents]
    BY DEF Init, Contents
  <2>2. /\ node \in [Paths -> Contents] /\ api = node /\ edges \subseteq Imports
        /\ how \in [Paths -> {"fresh", "unread", "removed"}]
        /\ missed \in [Paths -> SUBSET Paths]
    BY <2>1 DEF Init, Contents, EdgesBetween
  <2>3. /\ edit \in [Edits -> {Unasked}]
        /\ answer \in [Edits -> {"none", "saved", "pending", "running", "error"}]
        /\ job \in [Edits -> Edits \cup {none}] /\ last \in [Paths -> Edits \cup {none}]
        /\ pc \in [Jobs -> Running \cup Ended \cup {"none", "pending", "dead"}]
    BY DEF Init
  <2>4. /\ stat \in [Jobs -> [Paths -> Contents \cup {unseen, zero}]]
        /\ text \in [Jobs -> [Paths -> Contents \cup {unseen, unread}]]
    BY DEF Init, Unseen
  <2>5. /\ links \in [Jobs -> SUBSET Imports] /\ stale \in [Jobs -> SUBSET Paths]
        /\ tries \in [Jobs -> 0..1]
    BY DEF Init
  <2>6. /\ existing \in [Paths -> Contents]
        /\ mark \in [Paths -> {"unlisted", "listed", "verify", "absent", "done"}]
        /\ want \in [Paths -> Contents \cup {unseen, zero}] /\ touched \subseteq Paths
    BY DEF Init, Unseen, Contents
  <2>7. faults \in 0..MaxFaults
    BY IndexAssumption DEF Init
  <2> QED BY <2>1, <2>2, <2>3, <2>4, <2>5, <2>6, <2>7 DEF TypeOK
<1>2. TypeOK /\ UNCHANGED vars => TypeOK'
  BY DEF TypeOK, vars, indexVars, callVars, prepVars, scanVars
<1>3. TypeOK /\ [Next]_vars => TypeOK'
  BY <1>2, EditTypes, ScanTypes, JobTypes DEF Next
<1> QED BY <1>1, <1>3, PTL DEF Spec

-----------------------------------------------------------------------------
(* A scan that succeeds has left nothing behind.                           *)

\* The row of a path that nobody has changed since the scan began is the one
\* that the scan knows, or another job has brought it up to date.
Steady == \A p \in Paths \ touched : node[p] = existing[p] \/ node[p] = disk[p]

\* Such a path is not there, is a candidate, or is what its row says.
Marked ==
    \A p \in Paths \ touched :
        /\ mark[p] = "absent" => disk[p] = none
        /\ mark[p] = "done" => want[p] # unseen \/ existing[p] = disk[p]

\* The candidates are scanned when each path has been looked at.
Walked == pc[Scan] # "list" => \A p \in Paths : mark[p] \in {"absent", "done"}

\* When they are, their rows are up to date, but for those that no one could read.
Written ==
    pc[Scan] = "remove" =>
        \A p \in Paths \ touched : want[p] # unseen => node[p] = disk[p] \/ how[p] = "unread"

ScanInv ==
    /\ pc[Scan] = "none" => \A p \in Paths : mark[p] = "unlisted"
    /\ pc[Scan] \in Running => Steady /\ Marked /\ Walked /\ Written

(* Edits disturb only the paths that they change, and these are marked as   *)
(* touched.                                                                *)
LEMMA EditFacts ==
    ASSUME TypeOK, NEW e \in Edits, EditStep(e)
    PROVE  /\ pc'[Scan] = pc[Scan] /\ UNCHANGED <<node, how, existing, mark, want>>
           /\ pc[Scan] \in Running => /\ touched \subseteq touched'
                                      /\ \A p \in Paths \ touched' : disk'[p] = disk[p]
<1> Scan \in Jobs /\ e # Scan
  BY IndexAssumption DEF Jobs
<1>1. pc'[Scan] = pc[Scan]
  BY DEF EditStep, UpdateFile, CreateFile, RenameFile, DeleteFile, ApplyPatch, Saved,
         SubmitIndexing, SubmitFails, TypeOK
<1>2. ASSUME NEW op, NEW file, NEW new, Change(e, op, file, new)
      PROVE  /\ UNCHANGED <<node, how, existing, mark, want>>
             /\ pc[Scan] \in Running => /\ touched \subseteq touched'
                                        /\ \A p \in Paths \ touched' : disk'[p] = disk[p]
  BY <1>2 DEF Change, indexVars
<1>3. ASSUME SubmitIndexing(e) \/ SubmitFails(e)
      PROVE  UNCHANGED <<node, how, existing, mark, want, touched, disk>>
  BY <1>3 DEF SubmitIndexing, SubmitFails, noJobVars, indexVars, scanVars
<1> QED BY <1>1, <1>2, <1>3 DEF EditStep, UpdateFile, CreateFile, RenameFile, DeleteFile,
                                ApplyPatch

(* The edits keep the invariant of the scan. *)
LEMMA EditsKeepScan ==
    ASSUME TypeOK, ScanInv, NEW e \in Edits, EditStep(e)
    PROVE  ScanInv'
BY EditFacts DEF ScanInv, Steady, Marked, Walked, Written

(* Jobs change the rows only to bring them up to date, or say that a file   *)
(* could not be read.                                                      *)
LEMMA JobFacts ==
    ASSUME TypeOK, NEW j \in Jobs, JobStep(j)
    PROVE  /\ UNCHANGED disk
           /\ \A p \in Paths : \/ node'[p] = disk[p]
                               \/ node'[p] = node[p] /\ how'[p] \in {how[p], "unread"}
           /\ j # Scan => pc'[Scan] = pc[Scan] /\ UNCHANGED scanVars
<1> Scan \in Jobs
  BY DEF Jobs
<1>1. CASE Commit(j)
  <2>1. UNCHANGED <<callVars, scanVars>> /\ Verified(j) /\ WriteIndex(j)
        /\ pc' = [pc EXCEPT ![j] = IF j = Scan THEN "remove" ELSE "metrics"]
    BY <1>1 DEF Commit
  <2> QED BY <2>1, CommitRows DEF callVars, TypeOK
<1>2. CASE ~Commit(j)
  <2>1. UNCHANGED <<disk, node, how>>
    BY <1>2 DEF JobStep, BeginIndexing, Resolve, Stat, Read, Retry, Abort, Finish, JobFails,
                JobDies, Stop, noJobVars, notPreparing, callVars, indexVars
  <2>2. \/ \E v : pc' = [pc EXCEPT ![j] = v]
        \/ pc' = pc
    BY <1>2 DEF JobStep, BeginIndexing, Resolve, Stat, Read, Retry, Abort, Finish, JobFails,
                JobDies, notPreparing
  <2>3. j # Scan => UNCHANGED scanVars
    BY <1>2 DEF JobStep, BeginIndexing, Resolve, Stat, Read, Retry, Abort, Finish, JobFails,
                JobDies, Stop, noJobVars, notPreparing
  <2> QED BY <2>1, <2>2, <2>3 DEF TypeOK
<1> QED BY <1>1, <1>2

(* The other jobs keep it. *)
LEMMA OthersKeepScan ==
    ASSUME TypeOK, ScanInv, NEW j \in Jobs \ {Scan}, JobStep(j)
    PROVE  ScanInv'
BY JobFacts DEF ScanInv, Steady, Marked, Walked, Written, scanVars

(* The scan's own scan_files_async keeps it. *)
LEMMA ScanJobKeepsScan ==
    ASSUME TypeOK, ScanInv, JobStep(Scan)
    PROVE  ScanInv'
<1> Scan \in Jobs
  BY DEF Jobs
<1>1. CASE Commit(Scan)
  <2>1. /\ pc[Scan] = "lock" /\ pc'[Scan] = "remove"
        /\ UNCHANGED <<disk, existing, mark, want, touched>>
        /\ Verified(Scan) /\ WriteIndex(Scan)
    BY <1>1 DEF Commit, TypeOK, callVars, scanVars
  <2>2. Steady' /\ Marked' /\ Walked'
    BY <2>1, JobFacts DEF ScanInv, Steady, Marked, Walked, Running
  <2>3. Written'
    BY <2>1, CommitRows DEF Written, Targets
  <2> QED BY <2>1, <2>2, <2>3 DEF ScanInv
<1>2. CASE Resolve(Scan) \/ (\E p \in Paths : Stat(Scan, p) \/ Read(Scan, p)) \/ Retry(Scan)
  <2>1. /\ pc[Scan] \in {"stat", "read", "lock"} /\ pc'[Scan] \in {"stat", "read", "lock"}
        /\ UNCHANGED notPreparing
    BY <1>2 DEF Resolve, Stat, Read, Retry, TypeOK
  <2> QED BY <2>1 DEF ScanInv, Steady, Marked, Walked, Written, Running, notPreparing,
                      callVars, indexVars, scanVars
<1>3. CASE Abort(Scan) \/ Finish(Scan) \/ JobFails(Scan) \/ JobDies(Scan)
  <2>1. pc'[Scan] \in {"partial", "succeeded", "failed", "dead"}
    BY <1>3 DEF Abort, Finish, JobFails, JobDies, TypeOK
  <2> QED BY <2>1 DEF ScanInv, Running
<1>4. ~BeginIndexing(Scan)
  BY IndexAssumption DEF BeginIndexing
<1> QED BY <1>1, <1>2, <1>3, <1>4 DEF JobStep

(* The listing, the judging and the removal keep it. *)
LEMMA ScanStepKeepsScan ==
    ASSUME TypeOK, ScanInv, ScanStep
    PROVE  ScanInv'
<1> Scan \in Jobs
  BY DEF Jobs
<1>0. unseen \notin Contents /\ unseen # zero
  BY IndexAssumption DEF Contents, unseen, old, none, zero
<1>1. CASE BeginScan
  <2>1. /\ pc[Scan] = "none" /\ pc'[Scan] = "list" /\ existing' = node
        /\ UNCHANGED <<disk, node, how, mark, want, touched>>
    BY <1>1 DEF BeginScan, TypeOK, callVars, indexVars
  <2> QED BY <2>1 DEF ScanInv, Steady, Marked, Walked, Written
<1>2. CASE List
  <2>1. /\ pc[Scan] = "list"
        /\ mark' = [p \in Paths |-> IF disk[p] = none THEN "absent" ELSE "listed"]
        /\ UNCHANGED <<disk, node, how, existing, want, touched, pc>>
    BY <1>2 DEF List, notListing, callVars, indexVars
  <2> QED BY <2>1 DEF ScanInv, Steady, Marked, Walked, Written, Running
<1>3. CASE Judge
  <2>1. /\ pc[Scan] = "list"
        /\ UNCHANGED <<disk, node, how, existing, touched, pc>>
    BY <1>3 DEF Judge, notListing, callVars, indexVars
  <2>2. ASSUME NEW p \in Paths
        PROVE  \/ mark'[p] = mark[p] /\ want'[p] = want[p]
               \/ mark'[p] = "verify"
               \/ mark'[p] = "done" /\ want'[p] # unseen
    BY <1>0, <1>3 DEF Judge, TypeOK
  <2> QED BY <2>1, <2>2 DEF ScanInv, Steady, Marked, Walked, Written, Running
<1>4. ASSUME NEW p \in Paths, VerifyHash(p) PROVE ScanInv'
  <2>1. /\ pc[Scan] = "list" /\ mark' = [mark EXCEPT ![p] = "done"]
        /\ UNCHANGED <<disk, node, how, existing, touched, pc>>
    BY <1>4 DEF VerifyHash, notListing, callVars, indexVars
  <2>2. \/ want' = want /\ disk[p] = existing[p]
        \/ want' = [want EXCEPT ![p] = existing[p]] /\ existing[p] # unseen
    BY <1>0, <1>4 DEF VerifyHash, TypeOK
  <2>3. Marked'
    BY <2>1, <2>2 DEF ScanInv, Marked, TypeOK, Running
  <2> QED BY <2>1, <2>3 DEF ScanInv, Steady, Walked, Written, Running
<1>5. CASE EndList
  <2>1. /\ pc[Scan] = "list" /\ \A p \in Paths : mark[p] \in {"absent", "done"}
        /\ pc'[Scan] = IF Targets(Scan) = {} THEN "remove" ELSE "stat"
        /\ UNCHANGED <<disk, node, how, existing, mark, want, touched>>
    BY <1>5 DEF EndList, TypeOK, notListing, callVars, indexVars
  <2>2. Written'
    BY <2>1 DEF Written, Targets
  <2> QED BY <2>1, <2>2 DEF ScanInv, Steady, Marked, Walked, Running
<1>6. CASE RemoveRows \/ RemovalAborts
  <2>1. pc'[Scan] \in {"succeeded", "partial"}
    BY <1>6 DEF RemoveRows, RemovalAborts, TypeOK
  <2> QED BY <2>1 DEF ScanInv, Running
<1> QED BY <1>1, <1>2, <1>3, <1>4, <1>5, <1>6 DEF ScanStep

(* What the scan knows of an untouched path is right, at every stage of it. *)
THEOREM ScanInvariant == Spec => []ScanInv
<1>1. Init => ScanInv
  BY DEF Init, ScanInv, Running, Jobs
<1>2. TypeOK /\ ScanInv /\ UNCHANGED vars => ScanInv'
  BY DEF ScanInv, Steady, Marked, Walked, Written, vars, indexVars, callVars, scanVars
<1>3. TypeOK /\ ScanInv /\ [Next]_vars => ScanInv'
  BY <1>2, EditsKeepScan, ScanStepKeepsScan, ScanJobKeepsScan, OthersKeepScan DEF Next
<1> QED BY <1>1, <1>3, TypeCorrect, PTL DEF Spec

(* A scan that ends with success has brought the row of every file up to    *)
(* date that was not changed since it began and could be read              *)
(* (scan_project_async), whatever the edits and other jobs do meanwhile.   *)
THEOREM ScanLeavesNothing == Spec => ScanCatchesUp
<1> DEFINE A == pc[Scan] = "remove" /\ pc'[Scan] = "succeeded" =>
                    \A p \in Paths \ touched : node'[p] = disk[p] \/ how[p] = "unread"
<1> Scan \in Jobs
  BY DEF Jobs
<1>1. ASSUME TypeOK, Next, pc[Scan] = "remove", pc'[Scan] = "succeeded" PROVE RemoveRows
  <2>1. ASSUME NEW e \in Edits, EditStep(e) PROVE FALSE
    BY <1>1, <2>1, EditFacts
  <2>2. ASSUME NEW j \in Jobs, JobStep(j) PROVE FALSE
    <3>1. j = Scan
      BY <1>1, <2>2, JobFacts
    <3> QED BY <1>1, <2>2, <3>1
            DEF JobStep, BeginIndexing, Resolve, Stat, Read, Commit, Retry, Abort, Finish,
                JobFails, JobDies, TypeOK, notPreparing
  <2>3. CASE ScanStep
    BY <1>1, <2>3 DEF ScanStep, BeginScan, List, EndList, RemovalAborts, Judge, VerifyHash,
                      TypeOK
  <2> QED BY <1>1, <2>1, <2>2, <2>3 DEF Next
<1>2. ASSUME ScanInv, RemoveRows, NEW p \in Paths \ touched
      PROVE  node'[p] = disk[p] \/ how[p] = "unread"
  <2>1. pc[Scan] = "remove" /\ Steady /\ Marked /\ Walked /\ Written
    BY <1>2 DEF RemoveRows, ScanInv, Running
  <2>2. CASE p \in Removed
    BY <1>2, <2>2, RemovalRows
  <2>3. CASE p \notin Removed
    <3>1. node'[p] = node[p]
      BY <1>2, <2>3, RemovalRows
    <3>2. CASE mark[p] = "absent"
      BY <2>1, <2>3, <3>1, <3>2 DEF Removed, Steady, Marked
    <3>3. CASE mark[p] = "done"
      BY <2>1, <3>1, <3>3 DEF Steady, Marked, Written
    <3> QED BY <2>1, <3>2, <3>3 DEF Walked
  <2> QED BY <2>2, <2>3
<1>3. TypeOK /\ ScanInv /\ [Next]_vars => [A]_vars
  BY <1>1, <1>2
<1> QED BY <1>3, TypeCorrect, ScanInvariant, PTL DEF Spec, ScanCatchesUp

-----------------------------------------------------------------------------
(***************************************************************************)
(* At rest.  That a stale row or an edge to a vanished file is explained   *)
(* when everything is quiet follows from what holds on the way there: whom *)
(* the last change of a path waits for, and what its job has done by then. *)
(***************************************************************************)

Stages == {"none", "pending", "stat", "read", "lock", "metrics", "succeeded", "failed", "dead"}

\* An edit that waits for a job waits for one on its own paths.
Asked ==
    \A e \in Edits :
        /\ pc[e] \in Stages
        /\ pc[e] # "none" => answer[e] = "pending"
        /\ answer[e] = "pending" =>
              job[e] \in Edits /\ pc[job[e]] # "none" /\ edit[job[e]] = edit[e]

LastAsked ==
    \A p \in Paths : last[p] # none => answer[last[p]] # "none" /\ p \in edit[last[p]].paths

\* The job that the last change of p waits for has written the index.
Served(p) ==
    /\ last[p] # none /\ answer[last[p]] = "pending"
    /\ pc[job[last[p]]] \in {"metrics", "succeeded"}

\* The imports that a job has resolved lead to files, or to ones that it is
\* known to have missed.
Resolved ==
    \A j \in Jobs :
        /\ pc[j] # "lock" => links[j] = {}
        /\ \A i \in links[j] : i[1] \in Targets(j) /\ (disk[i[2]] # none \/ i[2] \in stale[j])

RowsServed == \A p \in Paths : Served(p) => node[p] = disk[p] \/ how[p] = "unread"

EdgesServed ==
    \A i \in edges :
        disk[i[2]] = none => i[2] \in missed[i[1]] \/ (last[i[2]] # none /\ ~Served(i[2]))

RestInv == Asked /\ LastAsked /\ Resolved /\ RowsServed /\ EdgesServed

(* What a call or a run does that changes files: it does so once.           *)
Writes(e) ==
    /\ answer[e] = "none"
    /\ stale' = [j \in Jobs |-> IF pc[j] = "lock" THEN stale[j] \cup ComeOrGo(disk')
                                ELSE stale[j]]
    /\ \A p \in Paths : /\ disk'[p] = disk[p] => last'[p] = last[p]
                        /\ disk'[p] # disk[p] => last'[p] = e /\ p \in edit'[e].paths
    /\ \/ answer'[e] = "saved" /\ pc'[e] = pc[e]
       \/ answer'[e] = "pending" /\ job'[e] = e /\ pc'[e] = "stat"

(* What it does that asks for its job: it waits for one on its own paths,   *)
(* or is given up.                                                          *)
Asks(e) ==
    /\ answer[e] = "saved" /\ UNCHANGED <<disk, stale, last, edit>>
    /\ \/ answer'[e] \in {"error", "running"} /\ pc' = pc
       \/ /\ answer'[e] = "pending" /\ job'[e] \in Edits /\ edit[job'[e]] = edit[e]
          /\ pc'[job'[e]] = "pending" /\ (pc' = pc \/ job'[e] = e)

(* It leaves everyone else alone, and the index. *)
AloneIn(e) ==
    /\ UNCHANGED <<indexVars, links, want>>
    /\ \A x \in Edits \ {e} :
          answer'[x] = answer[x] /\ job'[x] = job[x] /\ edit'[x] = edit[x]
    /\ \A j \in Jobs \ {e} : pc'[j] = pc[j]

(* A call or a run writes, and then asks. *)
LEMMA EditSteps ==
    ASSUME TypeOK, NEW e \in Edits, EditStep(e)
    PROVE  AloneIn(e) /\ (Writes(e) \/ Asks(e))
<1> e \in Jobs
  BY DEF Jobs
<1>1. ASSUME NEW op, NEW file, NEW new, Change(e, op, file, new),
             \/ Saved(e)
             \/ /\ answer' = [answer EXCEPT ![e] = "pending"] /\ job' = [job EXCEPT ![e] = e]
                /\ pc' = [pc EXCEPT ![e] = "stat"]
      PROVE  AloneIn(e) /\ Writes(e)
  <2>1. /\ answer[e] = "none" /\ UNCHANGED <<indexVars, links, want>>
        /\ stale' = [j \in Jobs |-> IF pc[j] = "lock" THEN stale[j] \cup ComeOrGo(disk')
                                    ELSE stale[j]]
    BY <1>1 DEF Change
  <2>2. /\ \A p \in Paths : /\ disk'[p] = disk[p] => last'[p] = last[p]
                            /\ disk'[p] # disk[p] => last'[p] = e /\ p \in edit'[e].paths
        /\ \A x \in Edits \ {e} : edit'[x] = edit[x]
    BY <1>1 DEF Change, TypeOK
  <2>3. /\ \A x \in Edits \ {e} : answer'[x] = answer[x] /\ job'[x] = job[x]
        /\ \A j \in Jobs \ {e} : pc'[j] = pc[j]
        /\ \/ answer'[e] = "saved" /\ pc'[e] = pc[e]
           \/ answer'[e] = "pending" /\ job'[e] = e /\ pc'[e] = "stat"
    BY <1>1 DEF Saved, TypeOK
  <2> QED BY <2>1, <2>2, <2>3 DEF AloneIn, Writes
<1>2. CASE UpdateFile(e) \/ CreateFile(e) \/ RenameFile(e) \/ DeleteFile(e) \/ ApplyPatch(e)
  <2>1. \E op, file, new :
           /\ Change(e, op, file, new)
           /\ \/ Saved(e)
              \/ /\ answer' = [answer EXCEPT ![e] = "pending"] /\ job' = [job EXCEPT ![e] = e]
                 /\ pc' = [pc EXCEPT ![e] = "stat"]
    BY <1>2, Zenon DEF UpdateFile, CreateFile, RenameFile, DeleteFile, ApplyPatch
  <2> QED BY <1>1, <2>1
<1>3. CASE SubmitIndexing(e)
  <2>1. /\ answer[e] = "saved"
        /\ UNCHANGED <<indexVars, links, want, disk, stale, last, edit>>
    BY <1>3 DEF SubmitIndexing, noJobVars, prepVars, scanVars
  <2>2. ASSUME NEW j \in Twins(e), job' = [job EXCEPT ![e] = j], pc' = pc,
               answer' = [answer EXCEPT ![e] = IF pc[j] = "pending" THEN "pending"
                                                                    ELSE "running"]
        PROVE  AloneIn(e) /\ Asks(e)
    <3>1. \A x \in Edits \ {e} : answer'[x] = answer[x] /\ job'[x] = job[x]
      BY <2>2 DEF TypeOK
    <3>2. \/ answer'[e] = "running"
          \/ /\ answer'[e] = "pending" /\ job'[e] \in Edits /\ edit[job'[e]] = edit[e]
             /\ pc'[job'[e]] = "pending"
      BY <2>2 DEF Twins, TypeOK
    <3> QED BY <2>1, <2>2, <3>1, <3>2 DEF AloneIn, Asks
  <2>3. ASSUME job' = [job EXCEPT ![e] = e], answer' = [answer EXCEPT ![e] = "pending"],
               pc' = [pc EXCEPT ![e] = "pending"]
        PROVE  AloneIn(e) /\ Asks(e)
    <3>1. /\ \A x \in Edits \ {e} : answer'[x] = answer[x] /\ job'[x] = job[x]
          /\ \A j \in Jobs \ {e} : pc'[j] = pc[j]
          /\ answer'[e] = "pending" /\ job'[e] = e /\ pc'[e] = "pending"
      BY <2>3 DEF TypeOK
    <3> QED BY <2>1, <3>1 DEF AloneIn, Asks
  <2> QED BY <1>3, <2>2, <2>3 DEF SubmitIndexing
<1>4. CASE SubmitFails(e)
  <2>1. /\ answer[e] = "saved" /\ pc' = pc /\ job' = job
        /\ UNCHANGED <<indexVars, links, want, disk, stale, last, edit>>
    BY <1>4 DEF SubmitFails, noJobVars, prepVars, scanVars
  <2>2. answer'[e] = "error" /\ \A x \in Edits \ {e} : answer'[x] = answer[x]
    BY <1>4 DEF SubmitFails, TypeOK
  <2> QED BY <2>1, <2>2 DEF AloneIn, Asks
<1> QED BY <1>2, <1>3, <1>4 DEF EditStep

(* What a job of an edit does to its own progress. *)
LEMMA JobMoves ==
    ASSUME TypeOK, NEW j \in Jobs, JobStep(j)
    PROVE  /\ UNCHANGED callVars /\ pc[j] # "none"
           /\ \A k \in Jobs \ {j} : pc'[k] = pc[k]
           /\ j \in Edits /\ pc[j] \in Stages => pc'[j] \in Stages \ {"none"}
           /\ \/ Commit(j)
              \/ UNCHANGED indexVars /\ (pc'[j] \in {"metrics", "succeeded"} => pc[j] = "metrics")
<1>1. CASE Commit(j)
  BY <1>1, IndexAssumption DEF Commit, TypeOK, Stages
<1>2. CASE \/ BeginIndexing(j) \/ Resolve(j) \/ Retry(j)
           \/ \E p \in Paths : Stat(j, p) \/ Read(j, p)
  BY <1>2 DEF BeginIndexing, Resolve, Stat, Read, Retry, notPreparing, noJobVars, callVars,
     indexVars, TypeOK, Stages
<1>3. CASE Abort(j) \/ Finish(j) \/ JobFails(j) \/ JobDies(j)
  BY <1>3, IndexAssumption
    DEF Abort, Finish, JobFails, JobDies, Stop, notPreparing, TypeOK, Stages,
     Running
<1> QED BY <1>1, <1>2, <1>3 DEF JobStep

(* The scan's own steps are about no edit. *)
LEMMA ScanMoves ==
    ASSUME TypeOK, ScanStep
    PROVE  /\ UNCHANGED <<callVars, prepVars, missed>> /\ edges' \subseteq edges
           /\ \A e \in Edits : pc'[e] = pc[e]
           /\ pc[Scan] \in {"none", "list", "remove"} /\ pc'[Scan] # "lock"
           /\ \A p \in Paths : \/ node'[p] = disk[p]
                               \/ node'[p] = node[p] /\ how'[p] = how[p]
<1> Scan \in Jobs /\ Scan \notin Edits
  BY IndexAssumption DEF Jobs
<1>1. CASE BeginScan \/ List \/ Judge \/ (\E p \in Paths : VerifyHash(p)) \/ EndList
  BY <1>1 DEF BeginScan, List, Judge, VerifyHash, EndList, notListing, indexVars, TypeOK, Jobs
<1>2. CASE RemoveRows
  BY <1>2, RemovalRows DEF RemoveRows, TypeOK, Jobs
<1>3. CASE RemovalAborts
  BY <1>3 DEF RemovalAborts, TypeOK, indexVars, Jobs
<1> QED BY <1>1, <1>2, <1>3 DEF ScanStep

(* Who waits for whom, after every step. *)
LEMMA AskedStep ==
    ASSUME TypeOK, Asked, LastAsked, Next
    PROVE  Asked' /\ LastAsked'
<1> Edits \subseteq Jobs
  BY DEF Jobs
<1>1. ASSUME NEW e \in Edits, EditStep(e) PROVE Asked' /\ LastAsked'
  <2>1. pc[e] = "none"
    BY <1>1, EditSteps DEF AloneIn, Writes, Asks, Asked
  <2>2. \A x \in Edits : /\ x # e => answer'[x] = answer[x] /\ job'[x] = job[x]
                                     /\ edit'[x] = edit[x] /\ pc'[x] = pc[x]
                         /\ pc[x] # "none" => x # e
    BY <1>1, <2>1, EditSteps DEF AloneIn, Writes, Asks
  <2>3. \A x \in Edits \ {e} :
           answer[x] = "pending" => pc'[job[x]] = pc[job[x]] /\ edit'[job[x]] = edit[job[x]]
    BY <2>2 DEF Asked
  <2>4. /\ pc'[e] \in {"none", "stat", "pending"} /\ answer'[e] # "none"
        /\ pc'[e] # "none" => answer'[e] = "pending"
        /\ answer'[e] = "pending" =>
              job'[e] \in Edits /\ pc'[job'[e]] # "none" /\ edit'[job'[e]] = edit'[e]
    <3>1. CASE Writes(e)
      BY <2>1, <3>1 DEF Writes
    <3>2. CASE Asks(e)
      BY <2>1, <3>2 DEF Asks
    <3> QED BY <1>1, <3>1, <3>2, EditSteps
  <2>5. Asked'
    BY <2>2, <2>3, <2>4 DEF Asked, Stages
  <2>6. LastAsked'
    <3> SUFFICES ASSUME NEW p \in Paths, last'[p] # none
                 PROVE  answer'[last'[p]] # "none" /\ p \in edit'[last'[p]].paths
      BY DEF LastAsked
    <3>1. CASE disk'[p] # disk[p]
      BY <3>1, <1>1, <2>4, EditSteps DEF AloneIn, Writes, Asks
    <3>2. CASE last'[p] = last[p]
      <4>1. last[p] \in Edits /\ answer[last[p]] # "none" /\ p \in edit[last[p]].paths
        BY <3>2 DEF LastAsked, TypeOK
      <4>2. edit'[last[p]] = edit[last[p]]
        BY <4>1, <1>1, EditSteps DEF AloneIn, Writes, Asks
      <4> QED BY <3>2, <4>1, <4>2, <2>2, <2>4
    <3> QED BY <3>1, <3>2, <1>1, EditSteps DEF AloneIn, Writes, Asks
  <2> QED BY <2>5, <2>6
<1>2. ASSUME UNCHANGED callVars,
             \A e \in Edits : \/ pc'[e] = pc[e]
                              \/ pc'[e] \in Stages \ {"none"} /\ pc[e] # "none"
      PROVE  Asked' /\ LastAsked'
  <2>1. LastAsked'
    BY <1>2 DEF LastAsked, callVars
  <2> QED BY <1>2, <2>1 DEF Asked, callVars
<1>3. ASSUME ScanStep PROVE Asked' /\ LastAsked'
  BY <1>3, <1>2, ScanMoves
<1>4. ASSUME NEW j \in Jobs, JobStep(j) PROVE Asked' /\ LastAsked'
  BY <1>4, <1>2, JobMoves DEF Asked
<1> QED BY <1>1, <1>3, <1>4 DEF Next

(* What a job has resolved, after every step. *)
LEMMA ResolvedStep ==
    ASSUME TypeOK, Asked, Resolved, Next
    PROVE  Resolved'
<1> Edits \subseteq Jobs /\ Scan \in Jobs /\ Scan \notin Edits
  BY IndexAssumption DEF Jobs
<1>1. ASSUME NEW e \in Edits, EditStep(e) PROVE Resolved'
  <2>1. pc[e] = "none" /\ links[e] = {} /\ links' = links
    BY <1>1, EditSteps DEF AloneIn, Writes, Asks, Asked, Resolved
  <2>2. \A j \in Jobs \ {e} : pc'[j] = pc[j] /\ Targets(j)' = Targets(j)
    <3>1. want' = want /\ \A x \in Edits \ {e} : edit'[x] = edit[x]
      BY <1>1, EditSteps DEF AloneIn, Writes, Asks
    <3>2. \A j \in Jobs \ {e} : pc'[j] = pc[j]
      BY <1>1, EditSteps DEF AloneIn, Writes, Asks
    <3> QED BY <3>1, <3>2 DEF Targets, Jobs
  <2>3. ASSUME NEW j \in Jobs \ {e}, NEW i \in links[j]
        PROVE  disk'[i[2]] # none \/ i[2] \in stale'[j]
    <3>1. pc[j] = "lock" /\ i \in Imports /\ (disk[i[2]] # none \/ i[2] \in stale[j])
      BY DEF Resolved, TypeOK
    <3>2. CASE Asks(e)
      BY <3>1, <3>2 DEF Asks
    <3>3. CASE Writes(e)
      <4>1. stale'[j] = stale[j] \cup ComeOrGo(disk')
        BY <3>1, <3>3 DEF Writes
      <4>2. i[2] \in Paths
        BY <3>1, IndexAssumption
      <4> QED BY <3>1, <4>1, <4>2 DEF ComeOrGo
    <3> QED BY <3>2, <3>3, <1>1, EditSteps
  <2> QED BY <2>1, <2>2, <2>3 DEF Resolved
<1>2. ASSUME ScanStep PROVE Resolved'
  <2>1. links[Scan] = {} /\ UNCHANGED <<links, stale, disk, edit>>
    BY <1>2, ScanMoves DEF Resolved, prepVars, callVars
  <2>2. \A j \in Jobs \ {Scan} : pc'[j] = pc[j] /\ Targets(j)' = Targets(j)
    BY <1>2, <2>1, ScanMoves DEF Targets, Jobs
  <2> QED BY <2>1, <2>2 DEF Resolved
<1>3. ASSUME NEW j \in Jobs, JobStep(j) PROVE Resolved'
  <2>1. UNCHANGED <<disk, edit>> /\ \A k \in Jobs \ {j} : pc'[k] = pc[k]
    BY <1>3, JobMoves DEF callVars
  <2>2. \A k \in Jobs \ {j} : Targets(k)' = Targets(k)
    <3>1. j # Scan => want' = want
      BY <1>3, JobFacts DEF scanVars
    <3> QED BY <2>1, <3>1 DEF Targets
  <2>3. \A k \in Jobs \ {j} : links'[k] = links[k] /\ stale'[k] = stale[k]
    BY <1>3
      DEF JobStep, BeginIndexing, Resolve, Stat, Read, Commit, Retry, Abort, Finish, JobFails,
       JobDies, Stop, Forget, noJobVars, notPreparing, prepVars, TypeOK
  <2>4. CASE Forget(j)
    <3>1. links'[j] = {}
      BY <2>4 DEF Forget, TypeOK
    <3> QED BY <3>1, <2>1, <2>2, <2>3 DEF Resolved
  <2>5. CASE BeginIndexing(j) \/ Finish(j) \/ \E p \in Paths : Stat(j, p) \/ Read(j, p)
    <3>1. links'[j] = {}
      BY <2>5 DEF BeginIndexing, Finish, Stat, Read, noJobVars, prepVars, Resolved
    <3> QED BY <3>1, <2>1, <2>2, <2>3 DEF Resolved
  <2>6. CASE Resolve(j) \/ Retry(j)
    <3>1. Targets(j)' = Targets(j)
      BY <2>6 DEF Resolve, Retry, notPreparing, callVars, scanVars, Targets
    <3>4. pc'[j] = "lock"
      BY <2>6 DEF Resolve, Retry, TypeOK
    <3>2. \E txt : links'[j] = LinksOf(j, txt)
      BY <2>6 DEF Resolve, Retry, TypeOK
    <3>3. \A i \in links'[j] : i[1] \in Targets(j) /\ disk[i[2]] # none
      BY <3>2 DEF LinksOf
    <3> QED BY <3>1, <3>3, <3>4, <2>1, <2>2, <2>3 DEF Resolved
  <2> QED BY <1>3, <2>4, <2>5, <2>6 DEF JobStep, Commit, Abort, JobFails, JobDies, Stop
<1> QED BY <1>1, <1>2, <1>3 DEF Next

(* Only the write of its job serves a change of a path. *)
LEMMA EditsServe ==
    ASSUME TypeOK, Asked, LastAsked, NEW e \in Edits, EditStep(e), NEW p \in Paths, Served(p)'
    PROVE  Served(p) /\ disk'[p] = disk[p] /\ last'[p] = last[p]
<1> Edits \subseteq Jobs
  BY DEF Jobs
<1>1. pc[e] = "none" /\ last'[p] \in Edits
  <2>1. last'[p] \in {last[p], e}
    BY EditSteps DEF AloneIn, Writes, Asks
  <2> QED BY <2>1, EditSteps DEF AloneIn, Writes, Asks, Asked, Served, TypeOK
<1>2. last'[p] # e
  BY <1>1, EditSteps DEF AloneIn, Writes, Asks, Served
<1>3. disk'[p] = disk[p] /\ last'[p] = last[p]
  BY <1>2, EditSteps DEF AloneIn, Writes, Asks
<1>4. answer[last[p]] = "pending" /\ job'[last[p]] = job[last[p]]
  BY <1>1, <1>2, <1>3, EditSteps DEF AloneIn, Writes, Asks, Served
<1>5. job[last[p]] \in Edits \ {e}
  BY <1>1, <1>3, <1>4 DEF Asked
<1>6. pc'[job[last[p]]] = pc[job[last[p]]]
  BY <1>5, EditSteps DEF AloneIn, Writes, Asks
<1> QED BY <1>3, <1>4, <1>6 DEF Served

(* The steps of the scan and of the jobs leave the waiting as it is. *)
LEMMA JobsServe ==
    ASSUME TypeOK, Asked, LastAsked, NEW j \in Jobs, JobStep(j), NEW p \in Paths, Served(p)'
    PROVE  \/ Served(p)
           \/ Commit(j) /\ p \in Targets(j)
<1>1. UNCHANGED callVars
  BY JobMoves
<1>2. /\ last[p] \in Edits /\ last[p] # none /\ answer[last[p]] = "pending"
      /\ pc'[job[last[p]]] \in {"metrics", "succeeded"}
  BY <1>1 DEF callVars, Served, TypeOK
<1>3. job[last[p]] \in Edits /\ p \in edit[job[last[p]]].paths
  BY <1>2 DEF Asked, LastAsked, TypeOK
<1>4. CASE job[last[p]] = j
  <2>1. p \in Targets(j)
    BY <1>3, <1>4, IndexAssumption DEF Targets
  <2> QED BY <2>1, <1>1, <1>2, <1>4, JobMoves DEF Served, callVars
<1>5. CASE job[last[p]] # j
  BY <1>1, <1>2, <1>3, <1>5, JobMoves DEF Served, callVars, Jobs
<1> QED BY <1>4, <1>5

(* A served path has an up-to-date row, unless no one could read it. *)
LEMMA RowsServedStep ==
    ASSUME TypeOK, Asked, LastAsked, RowsServed, Next
    PROVE  RowsServed'
<1> SUFFICES ASSUME NEW p \in Paths, Served(p)' PROVE node'[p] = disk'[p] \/ how'[p] = "unread"
  BY DEF RowsServed, Served
<1>1. ASSUME NEW e \in Edits, EditStep(e) PROVE node'[p] = disk'[p] \/ how'[p] = "unread"
  BY <1>1, EditsServe, EditSteps DEF AloneIn, Writes, Asks, RowsServed, indexVars
<1>2. ASSUME ScanStep PROVE node'[p] = disk'[p] \/ how'[p] = "unread"
  <2>1. Served(p)
    BY <1>2, ScanMoves DEF Served, callVars, Asked, TypeOK
  <2> QED BY <1>2, <2>1, ScanMoves DEF RowsServed, callVars
<1>3. ASSUME NEW j \in Jobs, JobStep(j) PROVE node'[p] = disk'[p] \/ how'[p] = "unread"
  <2>1. CASE Served(p)
    BY <1>3, <2>1, JobFacts DEF RowsServed
  <2>2. CASE Commit(j) /\ p \in Targets(j)
    BY <1>3, <2>2, CommitRows, JobFacts DEF Commit
  <2> QED BY <1>3, <2>1, <2>2, JobsServe
<1> QED BY <1>1, <1>2, <1>3 DEF Next

(* An edge to a vanished file was missed, or the deletion is not served yet. *)
LEMMA EdgesServedStep ==
    ASSUME TypeOK, Asked, LastAsked, Resolved, EdgesServed, Next
    PROVE  EdgesServed'
<1> SUFFICES ASSUME NEW i \in edges', disk'[i[2]] = none
             PROVE  i[2] \in missed'[i[1]] \/ (last'[i[2]] # none /\ ~Served(i[2])')
  BY DEF EdgesServed, Served
<1>1. ASSUME NEW e \in Edits, EditStep(e)
      PROVE  i[2] \in missed'[i[1]] \/ (last'[i[2]] # none /\ ~Served(i[2])')
  <2>1. i \in edges /\ missed' = missed
    BY <1>1, EditSteps DEF AloneIn, Writes, Asks, indexVars
  <2>2. i[2] \in Paths
    BY <2>1, IndexAssumption DEF TypeOK
  <2>3. CASE disk'[i[2]] # disk[i[2]]
    <3>1. last'[i[2]] = e /\ e # none
      BY <1>1, <2>2, <2>3, EditSteps, IndexAssumption DEF AloneIn, Writes, Asks
    <3> QED BY <1>1, <2>2, <2>3, <3>1, EditsServe
  <2>4. CASE disk'[i[2]] = disk[i[2]]
    <3>1. last'[i[2]] = last[i[2]]
      BY <1>1, <2>2, <2>4, EditSteps DEF AloneIn, Writes, Asks
    <3> QED BY <1>1, <2>1, <2>2, <2>4, <3>1, EditsServe DEF EdgesServed
  <2> QED BY <2>3, <2>4
<1>2. ASSUME ScanStep
      PROVE  i[2] \in missed'[i[1]] \/ (last'[i[2]] # none /\ ~Served(i[2])')
  <2>1. i \in edges /\ UNCHANGED <<missed, callVars>>
    BY <1>2, ScanMoves
  <2>2. i[2] \in Paths
    BY <2>1, IndexAssumption DEF TypeOK
  <2>3. Served(i[2])' => Served(i[2])
    BY <1>2, <2>2, ScanMoves DEF Served, callVars, Asked, TypeOK
  <2> QED BY <2>1, <2>3 DEF EdgesServed, callVars
<1>3. ASSUME NEW j \in Jobs, JobStep(j), ~Commit(j)
      PROVE  i[2] \in missed'[i[1]] \/ (last'[i[2]] # none /\ ~Served(i[2])')
  <2>1. i \in edges /\ UNCHANGED <<missed, callVars>>
    BY <1>3, JobMoves DEF indexVars
  <2>2. i[2] \in Paths
    BY <2>1, IndexAssumption DEF TypeOK
  <2>3. Served(i[2])' => Served(i[2])
    BY <1>3, <2>2, JobsServe
  <2> QED BY <2>1, <2>3 DEF EdgesServed, callVars
<1>4. ASSUME NEW j \in Jobs, JobStep(j), Commit(j)
      PROVE  i[2] \in missed'[i[1]] \/ (last'[i[2]] # none /\ ~Served(i[2])')
  <2>1. UNCHANGED callVars /\ Verified(j) /\ WriteIndex(j)
    BY <1>4 DEF Commit
  <2>2. i \in Imports
    BY <1>4, WriteTypes
  <2>3. i[1] \in Paths /\ i[2] \in Paths
    BY <2>2, IndexAssumption
  <2>4. CASE i \in links[j]
    <3>1. i[1] \in Targets(j) /\ i[2] \in stale[j]
      BY <2>1, <2>4 DEF Resolved, callVars
    <3> QED BY <2>1, <2>3, <3>1 DEF WriteIndex
  <2>5. CASE i \in edges /\ i[1] \notin Targets(j) /\ i[2] \notin Gone(j)
    <3>1. missed'[i[1]] = missed[i[1]]
      BY <2>1, <2>3, <2>5 DEF WriteIndex
    <3>2. i[2] \notin Targets(j)
      BY <2>1, <2>5 DEF Verified, Gone, Present, callVars
    <3>3. Served(i[2])' => Served(i[2])
      BY <1>4, <2>3, <3>2, JobsServe
    <3> QED BY <2>1, <2>5, <3>1, <3>3 DEF EdgesServed, callVars
  <2> QED BY <2>1, <2>4, <2>5 DEF WriteIndex, OldEdges
<1> QED BY <1>1, <1>2, <1>3, <1>4 DEF Next

(* Who waits for whom, and what the index owes them, in every state. *)
THEOREM RestInvariant == Spec => []RestInv
<1>1. Init => RestInv
  <2> SUFFICES ASSUME Init PROVE RestInv
    OBVIOUS
  <2>1. Asked /\ LastAsked /\ RowsServed
    BY DEF Init, Asked, LastAsked, RowsServed, Served, Stages, Jobs
  <2>2. Resolved
    BY DEF Init, Resolved
  <2>3. EdgesServed
    BY IndexAssumption DEF Init, EdgesServed, EdgesBetween
  <2> QED BY <2>1, <2>2, <2>3 DEF RestInv
<1>2. TypeOK /\ RestInv /\ UNCHANGED vars => RestInv'
  BY DEF RestInv, Asked, LastAsked, Resolved, RowsServed, EdgesServed, Served, Targets, vars,
     indexVars, callVars, prepVars, scanVars
<1>3. TypeOK /\ RestInv /\ [Next]_vars => RestInv'
  BY <1>2, AskedStep, ResolvedStep, RowsServedStep, EdgesServedStep DEF RestInv
<1> QED BY <1>1, <1>3, TypeCorrect, PTL DEF Spec

(* When all is quiet, a change that was not served never will be. *)
LEMMA NotServedAtRest ==
    ASSUME TypeOK, Asked, LastAsked, Quiet, NEW p \in Paths, last[p] # none, ~Served(p)
    PROVE  Unserved(p)
<1>1. last[p] \in Edits /\ answer[last[p]] \in {"pending", "running", "error"}
  BY DEF TypeOK, LastAsked, Quiet
<1>2. CASE answer[last[p]] = "pending"
  <2>1. job[last[p]] \in Edits /\ pc[job[last[p]]] \in Stages \ {"none", "metrics", "succeeded"}
    BY <1>1, <1>2 DEF Asked, Served
  <2> QED BY <2>1 DEF Quiet, Unserved, Stages, Ended, Jobs
<1> QED BY <1>1, <1>2 DEF Unserved

(* At rest a row is stale only where nobody answered for the last change of *)
(* its file: its job was never queued, failed or died, or was running       *)
(* already; or the file could not be read (scan_files_async and the         *)
(* mutation jobs of project_service.py).                                    *)
THEOREM StaleRowsExplained == Spec => []StaleExplained
<1>1. TypeOK /\ RestInv => StaleExplained
  BY NotServedAtRest DEF RestInv, RowsServed, StaleExplained
<1> QED BY <1>1, TypeCorrect, RestInvariant, PTL

(* At rest an edge leads to a vanished file only where its job had resolved *)
(* the import before the file went, or nobody answered for the deletion.    *)
THEOREM DanglingEdgesExplained == Spec => []DanglingEdgeExplained
<1>1. ASSUME TypeOK, RestInv PROVE DanglingEdgeExplained
  <2> SUFFICES ASSUME NEW i \in edges, Quiet, disk[i[2]] = none
               PROVE  i[2] \in missed[i[1]] \/ Unserved(i[2])
    BY DEF DanglingEdgeExplained
  <2>1. i[2] \in Paths
    BY <1>1, IndexAssumption DEF TypeOK
  <2> QED BY <1>1, <2>1, NotServedAtRest DEF RestInv, EdgesServed
<1> QED BY <1>1, TypeCorrect, RestInvariant, PTL
=============================================================================
