---------------------------- MODULE TaskRunsProofs ----------------------------
(***************************************************************************)
(* For any number of runs, users and crashes: the quota of a day holds,     *)
(* what is on record of a patch is true of the files, the index and the     *)
(* blobs, and the retries of an agentic run come to no more than they may.  *)
(*                                                                         *)
(* The quota first.  What is committed and what is still open are told      *)
(* apart: one run at most has an open charge, since the row of the day is   *)
(* locked until its commit, and that charge fits under the limit.  That a   *)
(* stored run was charged is followed along the steps of the run.           *)
(* AgenticLoop follows, and last what holds of members, runs and the loop   *)
(* side by side.                                                            *)
(***************************************************************************)
EXTENDS MCTasks, AccountsProofs, FiniteSetTheorems

Steps == {"start", "charge", "triage", "ask", "impact", "store", "row", "apply", "done", "failed"}
Modes == {"auto", "analyze", "fix", "impact"}
Statuses == {None, "success", "partial", "failed"}
Asked == [mode : Modes, agentic : BOOLEAN, apply : BOOLEAN, anywhere : BOOLEAN]
Rows == [patch : Texts \cup {None}, allowed : BOOLEAN, stored : BOOLEAN, applied : Statuses]
Applies == [run : Runs \cup {None}, text : Texts \cup {None},
            step : {"idle", "lock", "scan", "record"}, status : Statuses]
DraftTypes == draft \in [Runs -> [text : Texts \cup {None}, inside : BOOLEAN]]

Types ==
  /\ at \in [Runs -> Steps] /\ req \in [Runs -> Asked]
  /\ limit \in Nat /\ usage \in Nat /\ charge \in [Runs -> {"none", "open", "kept"}]
  /\ row \in [Runs -> Rows] /\ applying \in [Actors -> Applies] /\ DraftTypes

Kept == {r \in Runs : charge[r] = "kept"}

QuotaPart ==
  /\ usage = Cardinality(Kept) /\ usage <= limit
  /\ \A r \in Runs : charge[r] = "open" => usage + 1 <= limit
  /\ \A r, o \in Runs : charge[r] = "open" /\ charge[o] = "open" => r = o

\* what a run has been charged by the step it is in
RunPart(r) ==
  /\ charge[r] = "open" => at[r] \in {"triage", "ask", "impact", "store", "row"}
  /\ at[r] \in {"start", "charge"} => charge[r] = "none"
  /\ at[r] \in {"triage", "ask"} => charge[r] # "none"
  /\ at[r] \in {"impact", "store", "row"} /\ req[r].mode # "impact" => charge[r] # "none"
  /\ row[r].stored => /\ at[r] \in {"apply", "done", "failed"}
                      /\ req[r].mode # "impact" => charge[r] = "kept"
  /\ applying[r].step # "idle" => at[r] = "apply"

IInv == Types /\ QuotaPart /\ \A r \in Runs : RunPart(r)

-----------------------------------------------------------------------------
\* The charges that are kept can be counted.
LEMMA KeptIsFinite ==
  ASSUME RunsAssumption
  PROVE  IsFiniteSet(Kept) /\ Cardinality(Kept) \in Nat
BY FS_Subset, FS_CardinalityType DEF RunsAssumption, Kept

\* At first nothing is charged and nothing stored.
LEMMA InitEstablishes == RunsAssumption /\ Init => IInv
<1> SUFFICES ASSUME RunsAssumption, Init PROVE IInv OBVIOUS
<1> USE DEF Init
<1>1. at \in [Runs -> Steps] /\ charge \in [Runs -> {"none", "open", "kept"}] /\ usage \in Nat
  BY DEF Steps
<1>2. req \in [Runs -> Asked] BY DEF RunsAssumption, Asked, Modes
<1>3. limit \in Nat BY DEF RunsAssumption
<1>4. row \in [Runs -> Rows] BY DEF NoRow, Rows, Statuses
<1>5. applying \in [Actors -> Applies] BY DEF Idle, Applies, Statuses
<1>6. DraftTypes BY DEF DraftTypes, NoDraft
<1>7. QuotaPart
  <2>1. Kept = {} BY DEF Kept
  <2>2. Cardinality({}) = 0 BY FS_EmptySet
  <2>3. \A r \in Runs : charge[r] # "open" OBVIOUS
  <2>4. usage = 0 OBVIOUS
  <2> QED BY <2>1, <2>2, <2>3, <2>4, <1>3 DEF QuotaPart
<1>8. ASSUME NEW r \in Runs PROVE RunPart(r)
  <2>1. r \in Actors BY DEF Actors
  <2>2. /\ at[r] = "start" /\ charge[r] = "none" /\ row[r].stored = FALSE
        /\ applying[r].step = "idle"
    BY <2>1 DEF NoRow, Idle
  <2> QED BY <2>2 DEF RunPart
<1> QED BY <1>1, <1>2, <1>3, <1>4, <1>5, <1>6, <1>7, <1>8 DEF IInv, Types

\* A rollback takes an open charge back; the others stay as they are.
LEMMA RollbackKeeps ==
  ASSUME Types, QuotaPart, NEW r \in Runs, Rollback(r), UNCHANGED <<limit, usage>>
  PROVE  /\ QuotaPart' /\ charge' \in [Runs -> {"none", "open", "kept"}]
         /\ charge'[r] # "open" /\ (charge[r] # "open" => charge'[r] = charge[r])
         /\ \A o \in Runs \ {r} : charge'[o] = charge[o]
<1>1. charge' = [charge EXCEPT ![r] = IF @ = "open" THEN "none" ELSE @] BY DEF Rollback
<1>2. charge \in [Runs -> {"none", "open", "kept"}] BY DEF Types
<1>3. Kept' = Kept BY <1>1, <1>2 DEF Kept
<1>4. \A o \in Runs : charge'[o] = "open" => charge[o] = "open" BY <1>1, <1>2
<1> QED BY <1>1, <1>2, <1>3, <1>4 DEF QuotaPart

\* A commit keeps the open charge, of which there is no other.
LEMMA CommitKeeps ==
  ASSUME RunsAssumption, Types, QuotaPart, NEW r \in Runs, Commit(r)
  PROVE  /\ QuotaPart' /\ charge' \in [Runs -> {"none", "open", "kept"}]
         /\ usage' \in Nat /\ limit' = limit
         /\ charge'[r] = IF charge[r] = "none" THEN "none" ELSE "kept"
         /\ \A o \in Runs \ {r} : charge'[o] = charge[o]
<1>1. /\ charge' = [charge EXCEPT ![r] = IF @ = "open" THEN "kept" ELSE @]
      /\ usage' = IF charge[r] = "open" THEN usage + 1 ELSE usage
      /\ limit' = limit
  BY DEF Commit
<1>2. charge \in [Runs -> {"none", "open", "kept"}] /\ usage \in Nat /\ limit \in Nat BY DEF Types
<1>3. /\ charge'[r] = IF charge[r] = "none" THEN "none" ELSE "kept"
      /\ \A o \in Runs \ {r} : charge'[o] = charge[o]
      /\ charge' \in [Runs -> {"none", "open", "kept"}] /\ usage' \in Nat
  BY <1>1, <1>2
<1>4. CASE charge[r] = "open"
  <2>1. Kept' = Kept \cup {r} /\ r \notin Kept BY <1>1, <1>2, <1>4 DEF Kept
  <2>2. Cardinality(Kept \cup {r}) = Cardinality(Kept) + 1
    BY <2>1, KeptIsFinite, FS_AddElement
  <2>3. \A o \in Runs : charge'[o] # "open" BY <1>1, <1>2, <1>4 DEF QuotaPart
  <2>4. usage' = Cardinality(Kept') /\ usage' <= limit'
    BY <2>1, <2>2, <1>1, <1>4 DEF QuotaPart
  <2> QED BY <2>3, <2>4, <1>3, <1>1 DEF QuotaPart
<1>5. CASE charge[r] # "open"
  <2>1. charge' = charge /\ usage' = usage BY <1>1, <1>2, <1>5
  <2>2. Kept' = Kept BY <2>1 DEF Kept
  <2> QED BY <2>1, <2>2, <1>1, <1>3 DEF QuotaPart
<1> QED BY <1>4, <1>5

\* What a run has been charged is as true as before where the run itself does
\* nothing: its row may go, and its apply end.
LEMMA ElsewhereKept ==
  ASSUME NEW o \in Runs, RunPart(o), at'[o] = at[o], charge'[o] = charge[o], req'[o] = req[o],
         row'[o].stored => row[o].stored, applying'[o].step # "idle" => applying[o].step # "idle"
  PROVE  RunPart(o)'
BY DEF RunPart

\* The steps of a run that change neither its charge nor rows and patches.
LEMMA QuietStep ==
  ASSUME RunsAssumption, IInv, NEW r \in Runs, UNCHANGED <<quotaVars, row, applying>>,
         NEW s \in Steps, Goto(r, s), DraftTypes',
         req' \in [Runs -> Asked], \A o \in Runs \ {r} : req'[o] = req[o], RunPart(r)'
  PROVE  IInv'
<1>1. at' = [at EXCEPT ![r] = s] /\ at \in [Runs -> Steps] BY DEF Goto, IInv, Types
<1>2. at' \in [Runs -> Steps] /\ \A o \in Runs \ {r} : at'[o] = at[o] BY <1>1
<1>3. UNCHANGED <<limit, usage, charge, row, applying>> BY DEF quotaVars
<1>4. Types' BY <1>2, <1>3 DEF IInv, Types
<1>5. QuotaPart' BY <1>3 DEF IInv, QuotaPart, Kept
<1>6. \A o \in Runs \ {r} : RunPart(o)' BY <1>2, <1>3, ElsewhereKept DEF IInv
<1> QED BY <1>4, <1>5, <1>6 DEF IInv

\* A run that fails, or dies, leaves nothing charged that was not committed.
LEMMA FailKeeps ==
  ASSUME RunsAssumption, IInv, NEW r \in Runs, Goto(r, "failed"), Rollback(r), Forget(r),
         UNCHANGED <<req, limit, usage, row>>,
         applying' = applying \/ applying' = [applying EXCEPT ![r] = Idle],
         at[r] # "apply" \/ applying' = [applying EXCEPT ![r] = Idle]
  PROVE  IInv'
<1>1. /\ at' = [at EXCEPT ![r] = "failed"] /\ at \in [Runs -> Steps]
      /\ draft' = [draft EXCEPT ![r] = NoDraft] /\ r \in Actors
      /\ applying \in [Actors -> Applies]
  BY DEF Goto, Forget, IInv, Types, Actors
<1>2. at' \in [Runs -> Steps] /\ at'[r] = "failed" /\ \A o \in Runs \ {r} : at'[o] = at[o]
  BY <1>1 DEF Steps
<1>3. /\ QuotaPart' /\ charge' \in [Runs -> {"none", "open", "kept"}]
      /\ charge'[r] # "open" /\ (charge[r] # "open" => charge'[r] = charge[r])
      /\ \A o \in Runs \ {r} : charge'[o] = charge[o]
  BY RollbackKeeps DEF IInv
<1>4. DraftTypes' BY <1>1 DEF IInv, Types, DraftTypes, NoDraft
<1>5. applying' \in [Actors -> Applies] BY <1>1 DEF Idle, Applies, Statuses
<1>6. Types' BY <1>2, <1>3, <1>4, <1>5 DEF IInv, Types
<1>7. \A o \in Runs \ {r} : applying'[o] = applying[o] BY <1>1 DEF Actors
<1>8. \A o \in Runs \ {r} : RunPart(o)' BY <1>2, <1>3, <1>7, ElsewhereKept DEF IInv
<1>9. RunPart(r)'
  <2>1. applying'[r].step = "idle"
    BY <1>1 DEF IInv, RunPart, Idle
  <2>2. row'[r].stored /\ req'[r].mode # "impact" => charge'[r] = "kept"
    BY <1>3 DEF IInv, RunPart
  <2> QED BY <1>2, <1>3, <2>1, <2>2 DEF RunPart
<1> QED BY <1>3, <1>6, <1>8, <1>9 DEF IInv

\* A charge is opened only when no other is open and one more fits.
LEMMA ChargeKeeps ==
  ASSUME RunsAssumption, IInv, NEW r \in Runs, Charge(r), ~Fail(r)
  PROVE  IInv'
<1> DEFINE s == IF req[r].mode = "auto" THEN "triage" ELSE "ask"
<1>1. /\ at[r] = "charge" /\ QuotaFree(r) /\ ~(usage + 1 > limit)
      /\ charge' = [charge EXCEPT ![r] = "open"] /\ Goto(r, s)
      /\ UNCHANGED <<req, draft, retry, limit, usage, rowVars, patchVars, crashes>>
  BY DEF Charge
<1>2. at' = [at EXCEPT ![r] = s] /\ at \in [Runs -> Steps] /\ s \in Steps
  BY <1>1 DEF Goto, IInv, Types, Steps
<1>3. /\ charge \in [Runs -> {"none", "open", "kept"}] /\ usage \in Nat /\ limit \in Nat
      /\ UNCHANGED <<req, draft, limit, usage, row, applying>>
  BY <1>1 DEF IInv, Types, rowVars, patchVars
<1>4. charge[r] = "none" /\ ~row[r].stored /\ applying[r].step = "idle"
  BY <1>1 DEF IInv, RunPart
<1>5. Types' BY <1>1, <1>2, <1>3 DEF IInv, Types, DraftTypes
<1>6. QuotaPart'
  <2>1. Kept' = Kept BY <1>1, <1>3, <1>4 DEF Kept
  <2>2. \A o \in Runs : charge'[o] = "open" => o = r BY <1>1, <1>3 DEF QuotaFree
  <2>3. usage + 1 <= limit BY <1>1, <1>3
  <2> QED BY <2>1, <2>2, <2>3, <1>3 DEF IInv, QuotaPart
<1>7. \A o \in Runs \ {r} : RunPart(o)' BY <1>1, <1>2, <1>3, ElsewhereKept DEF IInv
<1>8. RunPart(r)' BY <1>1, <1>2, <1>3, <1>4 DEF RunPart
<1> QED BY <1>5, <1>6, <1>7, <1>8 DEF IInv

\* The row is stored in the commit that keeps the charge.
LEMMA StoreKeeps ==
  ASSUME RunsAssumption, IInv, NEW r \in Runs, StoreRow(r)
  PROVE  IInv'
<1> DEFINE new == [patch |-> draft[r].text, allowed |-> draft[r].inside,
                   applied |-> None, stored |-> TRUE]
           goes == [run |-> r, text |-> draft[r].text, step |-> "lock", status |-> None]
<1>1. /\ at[r] = "row" /\ row' = [row EXCEPT ![r] = new] /\ Commit(r) /\ Forget(r)
      /\ \/ Goto(r, "apply") /\ applying' = [applying EXCEPT ![r] = goes]
         \/ Goto(r, "done") /\ applying' = applying
      /\ req' = req
  BY DEF StoreRow
<1>2. /\ QuotaPart' /\ charge' \in [Runs -> {"none", "open", "kept"}]
      /\ usage' \in Nat /\ limit' = limit
      /\ charge'[r] = IF charge[r] = "none" THEN "none" ELSE "kept"
      /\ \A o \in Runs \ {r} : charge'[o] = charge[o]
  BY <1>1, CommitKeeps DEF IInv
<1>3. /\ at \in [Runs -> Steps] /\ row \in [Runs -> Rows] /\ applying \in [Actors -> Applies]
      /\ draft \in [Runs -> [text : Texts \cup {None}, inside : BOOLEAN]] /\ r \in Actors
  BY DEF IInv, Types, DraftTypes, Actors
<1>4. draft' = [draft EXCEPT ![r] = NoDraft] BY <1>1 DEF Forget
<1>5. DraftTypes' BY <1>3, <1>4 DEF DraftTypes, NoDraft
<1>6. row' \in [Runs -> Rows] /\ \A o \in Runs \ {r} : row'[o] = row[o]
  <2>1. new \in Rows BY <1>3 DEF Rows, Statuses
  <2> QED BY <2>1, <1>1, <1>3
<1>7. /\ applying' \in [Actors -> Applies]
      /\ \A o \in Runs \ {r} : applying'[o] = applying[o]
  <2>1. goes \in Applies BY <1>3 DEF Applies, Statuses
  <2> QED BY <2>1, <1>1, <1>3 DEF Actors
<1>8. /\ at' \in [Runs -> Steps] /\ at'[r] \in {"apply", "done"}
      /\ \A o \in Runs \ {r} : at'[o] = at[o]
      /\ applying'[r].step # "idle" => at'[r] = "apply"
  <2>1. applying[r].step = "idle" BY <1>1 DEF IInv, RunPart
  <2> QED BY <2>1, <1>1, <1>3 DEF Goto, Steps
<1>9. Types' BY <1>1, <1>2, <1>5, <1>6, <1>7, <1>8 DEF IInv, Types
<1>10. \A o \in Runs \ {r} : RunPart(o)'
  BY <1>1, <1>2, <1>6, <1>7, <1>8, ElsewhereKept DEF IInv
<1>11. RunPart(r)'
  <2>1. req[r].mode # "impact" => charge[r] # "none" BY <1>1 DEF IInv, RunPart
  <2> QED BY <2>1, <1>1, <1>2, <1>8 DEF RunPart
<1> QED BY <1>2, <1>9, <1>10, <1>11 DEF IInv

\* A contract that is built commits the charge before the run is stored.
LEMMA ContractKeeps ==
  ASSUME RunsAssumption, IInv, NEW r \in Runs, ContractCommits(r)
  PROVE  IInv'
<1>1. at[r] = "ask" /\ charge[r] = "open" /\ Commit(r) /\ UNCHANGED <<runVars, rowVars, patchVars>>
  BY DEF ContractCommits
<1>2. UNCHANGED <<at, req, draft, row, applying>> BY <1>1 DEF runVars, rowVars, patchVars
<1>3. /\ QuotaPart' /\ charge' \in [Runs -> {"none", "open", "kept"}]
      /\ usage' \in Nat /\ limit' = limit /\ charge'[r] = "kept"
      /\ \A o \in Runs \ {r} : charge'[o] = charge[o]
  BY <1>1, CommitKeeps DEF IInv
<1>4. Types' BY <1>2, <1>3 DEF IInv, Types, DraftTypes
<1>5. \A o \in Runs \ {r} : RunPart(o)' BY <1>2, <1>3, ElsewhereKept DEF IInv
<1>6. RunPart(r)' BY <1>1, <1>2, <1>3 DEF IInv, RunPart
<1> QED BY <1>3, <1>4, <1>5, <1>6 DEF IInv

\* Applying a patch moves a run on only when its charge is long committed.
LEMMA ApplyMoves ==
  ASSUME IInv, NEW a \in Actors, applying[a].step # "idle",
         UNCHANGED <<req, draft, quotaVars>>,
         row' \in [Runs -> Rows], \A o \in Runs : row'[o].stored = row[o].stored,
         applying' \in [Actors -> Applies], \A b \in Actors \ {a} : applying'[b] = applying[b],
         \/ at' = at
         \/ /\ applying'[a].step = "idle"
            /\ \E e \in {"done", "failed"} : at' = IF a \in Runs THEN [at EXCEPT ![a] = e] ELSE at
  PROVE  IInv'
<1>1. UNCHANGED <<limit, usage, charge>> BY DEF quotaVars
<1>2. at \in [Runs -> Steps] BY DEF IInv, Types
<1>3. at' \in [Runs -> Steps] /\ \A o \in Runs \ {a} : at'[o] = at[o] BY <1>2 DEF Steps
<1>4. Types' BY <1>1, <1>3 DEF IInv, Types, DraftTypes
<1>5. QuotaPart' BY <1>1 DEF IInv, QuotaPart, Kept
<1>6. \A o \in Runs \ {a} : RunPart(o)'
  BY <1>1, <1>3, ElsewhereKept DEF IInv, Actors
<1>7. ASSUME a \in Runs PROVE RunPart(a)'
  <2>1. RunPart(a) /\ at[a] = "apply" BY <1>7 DEF IInv, RunPart
  <2>2. CASE at' = at BY <1>1, <1>7, <2>1, <2>2 DEF RunPart
  <2>3. CASE at' # at
    <3>1. applying'[a].step = "idle" /\ at'[a] \in {"done", "failed"} BY <1>2, <1>7, <2>3
    <3> QED BY <1>1, <1>7, <2>1, <3>1 DEF RunPart
  <2> QED BY <2>2, <2>3
<1> QED BY <1>4, <1>5, <1>6, <1>7 DEF IInv

\* The first steps of a run, up to its question to the model.
LEMMA EarlyStepsKeep ==
  ASSUME RunsAssumption, IInv, NEW r \in Runs, ~Fail(r), Prepare(r) \/ Triage(r) \/ Impact(r)
  PROVE  IInv'
<1>1. at \in [Runs -> Steps] /\ req \in [Runs -> Asked] BY DEF IInv, Types
<1>2. CASE Prepare(r)
  <2> DEFINE s == IF req[r].mode = "impact" THEN "impact" ELSE "charge"
  <2>1. at[r] = "start" /\ Goto(r, s) /\ UNCHANGED <<req, draft, quotaVars, row, applying>>
    BY <1>2 DEF Prepare, rowVars, patchVars
  <2>2. s \in Steps BY DEF Steps
  <2>3. DraftTypes' BY <2>1 DEF IInv, Types, DraftTypes
  <2>4. RunPart(r)'
    BY <1>1, <2>1, <2>2 DEF IInv, RunPart, Goto, quotaVars
  <2> QED BY <1>1, <2>1, <2>2, <2>3, <2>4, QuietStep
<1>3. CASE Triage(r)
  <2>1. PICK m \in {"analyze", "fix", "impact"} :
          /\ at[r] = "triage" /\ req' = [req EXCEPT ![r].mode = m]
          /\ Goto(r, IF m = "impact" THEN "impact" ELSE "ask")
          /\ UNCHANGED <<draft, quotaVars, row, applying>>
    BY <1>3 DEF Triage, rowVars, patchVars
  <2> DEFINE s == IF m = "impact" THEN "impact" ELSE "ask"
  <2>2. s \in Steps BY DEF Steps
  <2>3. DraftTypes' BY <2>1 DEF IInv, Types, DraftTypes
  <2>4. /\ req' \in [Runs -> Asked] /\ req'[r].mode = m
        /\ \A o \in Runs \ {r} : req'[o] = req[o]
    BY <1>1, <2>1 DEF Asked, Modes
  <2>5. RunPart(r)'
    BY <1>1, <2>1, <2>2, <2>4 DEF IInv, RunPart, Goto, quotaVars
  <2> QED BY <2>1, <2>2, <2>3, <2>4, <2>5, QuietStep
<1>4. CASE Impact(r)
  <2>1. at[r] = "impact" /\ Goto(r, "store") /\ UNCHANGED <<req, draft, quotaVars, row, applying>>
    BY <1>4 DEF Impact, rowVars, patchVars
  <2>2. "store" \in Steps BY DEF Steps
  <2>3. DraftTypes' BY <2>1 DEF IInv, Types, DraftTypes
  <2>4. RunPart(r)'
    BY <1>1, <2>1, <2>2 DEF IInv, RunPart, Goto, quotaVars
  <2> QED BY <1>1, <2>1, <2>2, <2>3, <2>4, QuietStep
<1> QED BY <1>2, <1>3, <1>4

\* What the model may give a run is a draft.
LEMMA DraftsAreDrafts ==
  ASSUME Types, NEW r \in Runs, NEW d \in Drafts(r), draft' = [draft EXCEPT ![r] = d]
  PROVE  DraftTypes'
<1>1. d \in [text : Texts \cup {None}, inside : BOOLEAN]
  <2>1. CASE d \in [text : Texts, inside : BOOLEAN] BY <2>1
  <2>2. CASE d = NoDraft BY <2>2 DEF NoDraft
  <2>3. d \in [text : Texts, inside : BOOLEAN] \/ d = NoDraft
    <3>1. CASE req[r].mode = "fix" BY <3>1 DEF Drafts
    <3>2. CASE req[r].mode # "fix" BY <3>2 DEF Drafts
    <3> QED BY <3>1, <3>2
  <2> QED BY <2>1, <2>2, <2>3
<1> QED BY <1>1 DEF Types, DraftTypes

\* The question to the model, in one call or in the retry loop, and the blob.
LEMMA AskStepsKeep ==
  ASSUME RunsAssumption, IInv, NEW r \in Runs, ~Fail(r), AskPack(r) \/ AskAgentic(r) \/ StoreBlob(r)
  PROVE  IInv'
<1>1. at \in [Runs -> Steps] /\ req \in [Runs -> Asked] BY DEF IInv, Types
<1>2. /\ at[r] = "ask" \/ at[r] = "store"
      /\ \E s \in {"ask", "store", "row"} : Goto(r, s) /\ (s = "ask" => at[r] = "ask")
      /\ UNCHANGED <<req, quotaVars, row, applying>>
      /\ DraftTypes'
  <2>1. CASE AskPack(r)
    <3>1. PICK d \in Drafts(r) : draft' = [draft EXCEPT ![r] = d] BY <2>1 DEF AskPack
    <3>2. DraftTypes' BY <3>1, DraftsAreDrafts DEF IInv
    <3> QED BY <2>1, <3>2 DEF AskPack, rowVars, patchVars
  <2>2. CASE AskAgentic(r)
    <3>1. PICK items \in Missing, d \in Drafts(r) :
            LET stop == StopReason(retry[r], items)
                more == items # {} /\ stop = None
                last == ~more \/ retry[r].index = MaxRetries
            IN /\ draft' = [draft EXCEPT ![r] = d]
               /\ Goto(r, IF last THEN "store" ELSE "ask")
               /\ UNCHANGED <<req, quotaVars, rowVars, patchVars>>
      BY <2>2, Zenon DEF AskAgentic
    <3>2. DraftTypes' BY <3>1, DraftsAreDrafts DEF IInv
    <3>3. Goto(r, "store") \/ Goto(r, "ask") BY <3>1
    <3>4. at[r] = "ask" BY <2>2 DEF AskAgentic
    <3> QED BY <3>1, <3>2, <3>3, <3>4 DEF rowVars, patchVars
  <2>3. CASE StoreBlob(r)
    <3>1. at[r] = "store" /\ Goto(r, "row") /\ UNCHANGED <<req, draft, quotaVars, row, applying>>
      BY <2>3 DEF StoreBlob, patchVars
    <3>2. DraftTypes' BY <3>1 DEF IInv, Types, DraftTypes
    <3> QED BY <3>1, <3>2
  <2> QED BY <2>1, <2>2, <2>3
<1>3. PICK s \in {"ask", "store", "row"} : Goto(r, s) /\ (s = "ask" => at[r] = "ask") BY <1>2
<1>4. s \in Steps BY DEF Steps
<1>5. RunPart(r)'
  BY <1>1, <1>2, <1>3, <1>4 DEF IInv, RunPart, Goto, quotaVars
<1> QED BY <1>1, <1>2, <1>3, <1>4, <1>5, QuietStep

\* A run that fails by itself has not begun to apply.
LEMMA FailedRunKeeps ==
  ASSUME RunsAssumption, IInv, NEW r \in Runs, Fail(r), at[r] # "apply"
  PROVE  IInv'
BY FailKeeps DEF Fail, rowVars, patchVars

\* A run that dies.
LEMMA CrashKeeps ==
  ASSUME RunsAssumption, IInv, NEW r \in Runs, Crash(r)
  PROVE  IInv'
BY FailKeeps DEF Crash, rowVars

\* Every step of a run keeps the invariant.
LEMMA RunStepKeeps ==
  ASSUME RunsAssumption, IInv, NEW r \in Runs, RunStep(r)
  PROVE  IInv'
<1>1. CASE StoreRow(r) BY <1>1, StoreKeeps
<1>2. CASE ~StoreRow(r) /\ Fail(r)
  <2>1. at[r] # "apply"
    BY <1>2 DEF RunStep, Prepare, Charge, Triage, Impact, AskPack, AskAgentic, StoreBlob
  <2> QED BY <1>2, <2>1, FailedRunKeeps
<1>3. CASE ~StoreRow(r) /\ ~Fail(r)
  BY <1>3, ChargeKeeps, EarlyStepsKeep, AskStepsKeep DEF RunStep
<1> QED BY <1>1, <1>2, <1>3

\* Every step of an apply keeps the invariant.
LEMMA ApplyStepKeeps ==
  ASSUME RunsAssumption, IInv, NEW a \in Actors, ApplyStep(a)
  PROVE  IInv'
<1>1. applying \in [Actors -> Applies] /\ row \in [Runs -> Rows]
  BY DEF IInv, Types
<1>2. Idle \in Applies BY DEF Idle, Applies, Statuses
<1>3. ASSUME NEW turn \in {"scan", "record"}, NEW status \in Statuses, Judge(a, turn, status)
      PROVE  /\ applying' \in [Actors -> Applies]
             /\ \A b \in Actors \ {a} : applying'[b] = applying[b]
  <2>1. applying' = [applying EXCEPT ![a] = [@ EXCEPT !.step = turn, !.status = status]]
    BY <1>3 DEF Judge
  <2>2. [applying[a] EXCEPT !.step = turn, !.status = status] \in Applies
    BY <1>1 DEF Applies
  <2> QED BY <1>1, <2>1, <2>2
<1>4. ASSUME applying' = [applying EXCEPT ![a] = Idle]
      PROVE  /\ applying' \in [Actors -> Applies] /\ applying'[a].step = "idle"
             /\ \A b \in Actors \ {a} : applying'[b] = applying[b]
  BY <1>1, <1>2, <1>4 DEF Idle
<1>5. applying[a].step # "idle"
  BY DEF ApplyStep, ApplyLocked, ApplyRefused, ApplyWrites, ApplyBreaks, Reindex, Record
<1>6. /\ UNCHANGED <<req, draft, quotaVars>>
  BY DEF ApplyStep, ApplyLocked, ApplyRefused, ApplyWrites, ApplyBreaks, Reindex, Record, runVars
<1>7. CASE ApplyRefused(a) \/ ApplyWrites(a) \/ Reindex(a) \/ (ApplyBreaks(a) /\ at' = at)
  <2>1. row' = row /\ at' = at
    BY <1>7 DEF ApplyRefused, ApplyWrites, Reindex, ApplyBreaks, runVars, rowVars
  <2>2. CASE ApplyBreaks(a) /\ AbortApply(a)
    <3>1. applying' = [applying EXCEPT ![a] = Idle] BY <2>2 DEF AbortApply
    <3> QED BY <1>1, <1>4, <1>5, <1>6, <2>1, <3>1, ApplyMoves
  <2>3. CASE ~(ApplyBreaks(a) /\ AbortApply(a))
    <3>1. \E turn \in {"scan", "record"}, status \in Statuses : Judge(a, turn, status)
      BY <1>7, <2>3 DEF ApplyRefused, ApplyWrites, Reindex, ApplyBreaks, Statuses
    <3>2. /\ applying' \in [Actors -> Applies]
          /\ \A b \in Actors \ {a} : applying'[b] = applying[b]
      BY <1>3, <3>1
    <3> QED BY <1>1, <1>5, <1>6, <2>1, <3>2, ApplyMoves
  <2> QED BY <2>2, <2>3
<1>8. CASE ApplyLocked(a) \/ (ApplyBreaks(a) /\ at' # at) \/ Record(a)
  <2>1. /\ applying' = [applying EXCEPT ![a] = Idle]
        /\ \E e \in {"done", "failed"} : at' = IF a \in Runs THEN [at EXCEPT ![a] = e] ELSE at
    BY <1>8 DEF ApplyLocked, ApplyBreaks, Record, EndApply, AbortApply
  <2>2. row' \in [Runs -> Rows] /\ \A o \in Runs : row'[o].stored = row[o].stored
    <3>1. CASE row' = row BY <1>1, <3>1
    <3>2. CASE row' # row
      <4> DEFINE n == applying[a].run
                 v == applying[a].status
      <4>1. row' = [row EXCEPT ![n].applied = v] BY <1>8, <3>2 DEF ApplyLocked, ApplyBreaks, Record, rowVars
      <4>2. v \in Statuses BY <1>1 DEF Applies
      <4>3. CASE n \in Runs
        <5>1. [row[n] EXCEPT !.applied = v] \in Rows BY <1>1, <4>2, <4>3 DEF Rows
        <5>2. [row[n] EXCEPT !.applied = v].stored = row[n].stored BY <1>1, <4>3 DEF Rows
        <5>3. row' = [row EXCEPT ![n] = [row[n] EXCEPT !.applied = v]] BY <4>1
        <5> QED BY <1>1, <4>3, <5>1, <5>2, <5>3
      <4>4. CASE n \notin Runs BY <1>1, <4>1, <4>4
      <4> QED BY <4>3, <4>4
    <3> QED BY <3>1, <3>2
  <2>3. /\ applying' \in [Actors -> Applies] /\ applying'[a].step = "idle"
        /\ \A b \in Actors \ {a} : applying'[b] = applying[b]
    BY <1>4, <2>1
  <2> QED BY <1>5, <1>6, <2>1, <2>2, <2>3, ApplyMoves
<1> QED BY <1>7, <1>8 DEF ApplyStep

\* A user starts an apply, or deletes a run: what was charged stays charged.
LEMMA UserStepKeeps ==
  ASSUME RunsAssumption, IInv, NEW u \in Users, UserStep(u) 
  PROVE  IInv'
<1>1. UNCHANGED <<at, req, draft, limit, usage, charge>>
  BY DEF UserStep, StartApply, DeleteRow, DeleteBlob, runVars, quotaVars
<1>2. u \in Actors /\ u \notin Runs BY DEF Actors, RunsAssumption
<1>3. applying' \in [Actors -> Applies] /\ \A o \in Runs : applying'[o] = applying[o]
  <2>1. applying \in [Actors -> Applies] /\ row \in [Runs -> Rows] BY DEF IInv, Types
  <2>2. CASE applying' = applying BY <2>1, <2>2
  <2>3. CASE applying' # applying
    <3>1. PICK r \in Runs : StartApply(u, r)
      BY <2>3 DEF UserStep, DeleteRow, DeleteBlob, patchVars
    <3> DEFINE new == [run |-> r, text |-> row[r].patch, step |-> "lock", status |-> None]
    <3>2. applying' = [applying EXCEPT ![u] = new] BY <3>1 DEF StartApply
    <3>3. new \in Applies BY <2>1 DEF Applies, Rows, Statuses
    <3> QED BY <1>2, <2>1, <3>2, <3>3 DEF Actors
  <2> QED BY <2>2, <2>3
<1>4. row' \in [Runs -> Rows] /\ \A o \in Runs : row'[o].stored => row[o].stored
  <2>1. row \in [Runs -> Rows] BY DEF IInv, Types
  <2>2. CASE row' = row BY <2>1, <2>2
  <2>3. CASE row' # row
    <3>1. PICK r \in Runs : DeleteRow(u, r)
      BY <2>3 DEF UserStep, StartApply, DeleteBlob, rowVars
    <3>2. row' = [row EXCEPT ![r] = [row[r] EXCEPT !.stored = FALSE]] BY <3>1 DEF DeleteRow
    <3>3. /\ [row[r] EXCEPT !.stored = FALSE] \in Rows
          /\ [row[r] EXCEPT !.stored = FALSE].stored = FALSE
      BY <2>1 DEF Rows
    <3> QED BY <2>1, <3>2, <3>3
  <2> QED BY <2>2, <2>3
<1>5. Types' BY <1>1, <1>3, <1>4 DEF IInv, Types, DraftTypes
<1>6. QuotaPart' BY <1>1 DEF IInv, QuotaPart, Kept
<1>7. \A o \in Runs : RunPart(o)' BY <1>1, <1>3, <1>4, ElsewhereKept DEF IInv
<1> QED BY <1>5, <1>6, <1>7 DEF IInv

\* What the invariant speaks of may also stay as it is.
LEMMA UnmovedKeeps ==
  ASSUME IInv, UNCHANGED <<at, req, draft, quotaVars, row, applying>>
  PROVE  IInv'
BY DEF IInv, Types, DraftTypes, QuotaPart, Kept, RunPart, quotaVars

\* The invariant is inductive.
LEMMA StepKeeps == RunsAssumption /\ IInv /\ [Next]_taskVars => IInv'
<1> SUFFICES ASSUME RunsAssumption, IInv, [Next]_taskVars PROVE IInv' OBVIOUS
<1>1. ASSUME NEW r \in Runs, RunStep(r) PROVE IInv' BY <1>1, RunStepKeeps
<1>2. ASSUME NEW r \in Runs, ContractCommits(r) PROVE IInv' BY <1>2, ContractKeeps
<1>3. ASSUME NEW r \in Runs, ReadExpired(r) PROVE IInv'
  BY <1>3, UnmovedKeeps DEF ReadExpired, runVars, patchVars
<1>4. ASSUME NEW r \in Runs, Crash(r) PROVE IInv' BY <1>4, CrashKeeps
<1>5. ASSUME NEW a \in Actors, ApplyStep(a) PROVE IInv' BY <1>5, ApplyStepKeeps
<1>6. ASSUME NEW u \in Users, UserStep(u) PROVE IInv' BY <1>6, UserStepKeeps
<1>7. CASE UNCHANGED taskVars
  BY <1>7, UnmovedKeeps DEF taskVars, runVars, rowVars, patchVars
<1>8. CASE Settled
  BY <1>8, UnmovedKeeps DEF Settled, taskVars, runVars, rowVars, patchVars
<1> QED BY <1>1, <1>2, <1>3, <1>4, <1>5, <1>6, <1>7, <1>8 DEF Next

-----------------------------------------------------------------------------
\* The invariant says what is promised.
LEMMA InvariantSuffices == IInv => QuotaHolds
BY DEF IInv, QuotaPart, RunPart, QuotaHolds, Kept

\* However many runs are admitted at once, and whichever of them fail or die, the
\* quota of the day is never passed, what it counts are the charges that were
\* committed, and no run of the model is stored without one (usage_service.py:58,
\* task_service.py:1022).
THEOREM QuotaAlwaysHolds ==
  ASSUME RunsAssumption
  PROVE  Spec => []QuotaHolds
<1>1. Init => IInv BY InitEstablishes
<1>2. IInv /\ [Next]_taskVars => IInv' BY StepKeeps
<1> QED BY <1>1, <1>2, InvariantSuffices, PTL DEF Spec

-----------------------------------------------------------------------------
(***************************************************************************)
(* Patches.  What the rows say of them is followed from the draft to the   *)
(* blob, the row and the apply: a run's row is written once, whoever        *)
(* applies it knows its text, and a failure that is about to be recorded   *)
(* is marked in again when another apply of the text works meanwhile.      *)
(***************************************************************************)
Later == {"apply", "done", "failed"}

PatchTypes ==
  /\ tree \in [Texts -> {"out", "part", "in"}] /\ blobs \subseteq Long /\ dropped \subseteq Long
  /\ index \subseteq Texts /\ patched \subseteq Texts /\ again \subseteq Texts
  /\ removing \in [Users -> [run : Runs \cup {None}, sha : Texts \cup {None}, alone : BOOLEAN]]
  /\ crashes \in Nat

\* A run has no row before it has stored one.
RowsFresh == \A r \in Runs : at[r] \notin Later => row[r] = NoRow

\* Whoever applies the patch of a run has its text.
ApplyKnows ==
  \A a \in Actors :
    /\ applying[a].step # "idle" =>
         /\ applying[a].run \in Runs /\ at[applying[a].run] \in Later
         /\ applying[a].text = row[applying[a].run].patch
    /\ applying[a].step = "scan" => applying[a].status = "success" /\ applying[a].text # None

\* The run needs the blob: its row names it, or is about to.
Needs(r, t) == (row[r].stored /\ row[r].patch = t) \/ (at[r] = "row" /\ draft[r].text = t)
BlobsKept == \A r \in Runs : \A t \in Long : Needs(r, t) => t \in blobs \cup dropped

RemovedAlone == \A u \in Users : removing[u].sha \in Long => removing[u].alone

\* A failed try that is still to be recorded is not overtaken unseen.
Failing(a) ==
  /\ applying[a].step = "record" /\ applying[a].status = "failed"
  /\ applying[a].text # None /\ row[applying[a].run].allowed
FailingHonestly ==
  \A a \in Actors : Failing(a) => tree[applying[a].text] # "in" \/ applying[a].text \in again

\* Once it is recorded, a try that works is still to be recorded itself.
Works(g, t) == g.text = t /\ g.step \in {"scan", "record"} /\ g.status # "failed"
Failed(w) == w.stored /\ w.applied = "failed" /\ w.allowed /\ w.patch # None
FailedHonestly ==
  \A r \in Runs : Failed(row[r]) =>
    \/ tree[row[r].patch] # "in" \/ row[r].patch \in again \/ crashes > 0
    \/ \E a \in Actors : Works(applying[a], row[r].patch)
    \/ \E o \in Runs \ {r} : row[o].patch = row[r].patch

PatchInv ==
  /\ PatchTypes /\ RowsFresh /\ ApplyKnows /\ BlobsKept /\ RemovedAlone
  /\ UnindexedIsMarked /\ FailingHonestly /\ FailedHonestly

\* The steps of a run before it stores its row touch no patch.
LEMMA AskingKeepsPatches ==
  ASSUME IInv, PatchInv, NEW r \in Runs, UNCHANGED <<rowVars, patchVars, crashes>>,
         at[r] \notin Later, at'[r] # "row" \/ UNCHANGED <<at, draft>>,
         \A o \in Runs \ {r} : at'[o] = at[o] /\ draft'[o] = draft[o]
  PROVE  PatchInv'
<1>1. UNCHANGED <<row, blobs, removing, dropped, applying, tree, index, patched, again, crashes>>
  BY DEF rowVars, patchVars
<1>2. PatchTypes' /\ RemovedAlone' /\ UnindexedIsMarked' /\ FailingHonestly' /\ FailedHonestly'
  BY <1>1 DEF PatchInv, PatchTypes, RemovedAlone, UnindexedIsMarked, FailingHonestly, Failing,
     FailedHonestly, Failed, Works
<1>3. RowsFresh' /\ ApplyKnows'
  BY <1>1 DEF PatchInv, RowsFresh, ApplyKnows
<1>4. BlobsKept'
  BY <1>1 DEF PatchInv, BlobsKept, Needs
<1> QED BY <1>2, <1>3, <1>4 DEF PatchInv

\* The blob is there before the row that needs it.
LEMMA StoreBlobKeepsPatches ==
  ASSUME IInv, PatchInv, NEW r \in Runs, StoreBlob(r), ~Fail(r)
  PROVE  PatchInv'
<1>1. /\ at[r] = "store" /\ Goto(r, "row")
      /\ blobs' = IF draft[r].text \in Long THEN blobs \cup {draft[r].text} ELSE blobs
      /\ UNCHANGED <<draft, row, removing, dropped, applying, tree, index, patched, again, crashes>>
  BY DEF StoreBlob, patchVars
<1>2. at'[r] = "row" /\ \A o \in Runs \ {r} : at'[o] = at[o]
  BY <1>1 DEF Goto, IInv, Types
<1>3. PatchTypes' /\ RemovedAlone' /\ UnindexedIsMarked' /\ FailingHonestly' /\ FailedHonestly'
  BY <1>1 DEF PatchInv, PatchTypes, RemovedAlone, UnindexedIsMarked, FailingHonestly, Failing,
     FailedHonestly, Failed, Works
<1>4. RowsFresh' /\ ApplyKnows'
  BY <1>1, <1>2 DEF PatchInv, RowsFresh, ApplyKnows, Later
<1>5. BlobsKept'
  BY <1>1, <1>2 DEF PatchInv, BlobsKept, Needs
<1> QED BY <1>3, <1>4, <1>5 DEF PatchInv

\* A run's row is stored while nobody else can know of it.
LEMMA StoreRowKeepsPatches ==
  ASSUME IInv, PatchInv, NEW r \in Runs, StoreRow(r)
  PROVE  PatchInv'
<1> DEFINE new == [patch |-> draft[r].text, allowed |-> draft[r].inside,
                   applied |-> None, stored |-> TRUE]
           goes == [run |-> r, text |-> draft[r].text, step |-> "lock", status |-> None]
<1>1. /\ at[r] = "row" /\ row' = [row EXCEPT ![r] = new] /\ Forget(r)
      /\ \/ Goto(r, "apply") /\ applying' = [applying EXCEPT ![r] = goes]
         \/ Goto(r, "done") /\ applying' = applying
      /\ UNCHANGED <<blobs, removing, dropped, tree, index, patched, again, crashes>>
  BY DEF StoreRow
<1>2. /\ at'[r] \in Later /\ \A o \in Runs \ {r} : at'[o] = at[o] /\ draft'[o] = draft[o]
      /\ row'[r] = new /\ \A o \in Runs \ {r} : row'[o] = row[o]
      /\ row[r] = NoRow
  BY <1>1 DEF Goto, Forget, Later, IInv, Types, DraftTypes, PatchInv, RowsFresh
<1>3. r \in Actors /\ applying[r].step = "idle"
  BY <1>1 DEF Actors, IInv, RunPart
<1>4. /\ applying'[r] = goes \/ applying'[r] = applying[r]
      /\ \A b \in Actors \ {r} : applying'[b] = applying[b]
  BY <1>1, <1>3 DEF IInv, Types
<1>5. goes.step = "lock" /\ goes.text = draft[r].text /\ goes.run = r OBVIOUS
<1>6. new.patch = draft[r].text /\ new.applied = None /\ new.stored OBVIOUS
<1>7. PatchTypes' /\ RemovedAlone'
  BY <1>1 DEF PatchInv, PatchTypes, RemovedAlone
<1>8. RowsFresh'
  BY <1>2 DEF PatchInv, RowsFresh
<1>9. ApplyKnows'
  <2> SUFFICES ASSUME NEW a \in Actors
               PROVE  /\ applying'[a].step # "idle" =>
                           /\ applying'[a].run \in Runs /\ at'[applying'[a].run] \in Later
                           /\ applying'[a].text = row'[applying'[a].run].patch
                      /\ applying'[a].step = "scan" =>
                           applying'[a].status = "success" /\ applying'[a].text # None
    BY DEF ApplyKnows
  <2>1. CASE a = r BY <2>1, <1>2, <1>3, <1>4, <1>5, <1>6
  <2>2. CASE a # r
    <3>1. applying'[a] = applying[a] BY <2>2, <1>4
    <3>2. applying[a].step # "idle" => applying[a].run \in Runs \ {r}
      BY <1>1 DEF PatchInv, ApplyKnows, Later
    <3> QED BY <3>1, <3>2, <1>2 DEF PatchInv, ApplyKnows
  <2> QED BY <2>1, <2>2
<1>10. BlobsKept'
  <2>1. \A t \in Long : Needs(r, t)' => Needs(r, t)
    BY <1>1, <1>2, <1>6 DEF Needs, Later
  <2>2. \A o \in Runs \ {r} : \A t \in Long : Needs(o, t)' => Needs(o, t)
    BY <1>2 DEF Needs
  <2> QED BY <1>1, <2>1, <2>2 DEF PatchInv, BlobsKept
<1>11. UnindexedIsMarked'
  BY <1>1, <1>3, <1>4 DEF PatchInv, UnindexedIsMarked
<1>12. FailingHonestly'
  <2> SUFFICES ASSUME NEW a \in Actors, Failing(a)'
               PROVE  tree'[applying'[a].text] # "in" \/ applying'[a].text \in again'
    BY DEF FailingHonestly
  <2>1. a # r BY <1>3, <1>4, <1>5 DEF Failing
  <2>2. applying'[a] = applying[a] BY <2>1, <1>4
  <2>3. applying[a].run \in Runs \ {r}
    BY <1>1, <2>2 DEF PatchInv, ApplyKnows, Later, Failing
  <2> QED BY <1>1, <1>2, <2>2, <2>3 DEF PatchInv, FailingHonestly, Failing
<1>13. FailedHonestly'
  <2> SUFFICES ASSUME NEW o \in Runs, Failed(row'[o])
               PROVE  \/ tree'[row'[o].patch] # "in" \/ row'[o].patch \in again' \/ crashes' > 0
                      \/ \E a \in Actors : Works(applying'[a], row'[o].patch)
                      \/ \E p \in Runs \ {o} : row'[p].patch = row'[o].patch
    BY DEF FailedHonestly
  <2>1. o # r BY <1>2, <1>6 DEF Failed, None
  <2>2. row'[o] = row[o] /\ row[o].patch # None BY <2>1, <1>2 DEF Failed
  <2>3. \A a \in Actors : Works(applying[a], row[o].patch) => Works(applying'[a], row[o].patch)
    BY <1>3, <1>4 DEF Works
  <2>4. \A p \in Runs \ {o} : row[p].patch = row[o].patch => row'[p].patch = row[o].patch
    <3>1. row[r].patch = None BY <1>2 DEF NoRow
    <3> QED BY <1>2, <2>2, <3>1
  <2> QED BY <1>1, <2>2, <2>3, <2>4 DEF PatchInv, FailedHonestly
<1> QED BY <1>7, <1>8, <1>9, <1>10, <1>11, <1>12, <1>13 DEF PatchInv

\* Reading, applying and deleting a stored run keep what is known of patches.
LEMMA ReadExpiredKeepsPatches ==
  ASSUME IInv, PatchInv, NEW r \in Runs, ReadExpired(r)
  PROVE  PatchInv'
<1>1. /\ row[r].patch \in Long
      /\ blobs' = blobs \ {row[r].patch} /\ dropped' = dropped \cup {row[r].patch}
      /\ UNCHANGED <<at, draft, row, removing, applying, tree, index, patched, again, crashes>>
  BY DEF ReadExpired, runVars, patchVars
<1>2. PatchTypes' BY <1>1 DEF PatchInv, PatchTypes
<1>3. BlobsKept'
  <2>1. \A o \in Runs : \A t \in Long : Needs(o, t)' => Needs(o, t) BY <1>1 DEF Needs
  <2> QED BY <2>1, <1>1 DEF PatchInv, BlobsKept
<1>4. RowsFresh' /\ ApplyKnows' /\ RemovedAlone' /\ UnindexedIsMarked'
  BY <1>1 DEF PatchInv, RowsFresh, ApplyKnows, RemovedAlone, UnindexedIsMarked
<1>5. FailingHonestly' /\ FailedHonestly'
  BY <1>1 DEF PatchInv, FailingHonestly, Failing, FailedHonestly
<1> QED BY <1>2, <1>3, <1>4, <1>5 DEF PatchInv

LEMMA StartApplyKeepsPatches ==
  ASSUME IInv, PatchInv, NEW u \in Users, NEW r \in Runs, StartApply(u, r)
  PROVE  PatchInv'
<1> DEFINE goes == [run |-> r, text |-> row[r].patch, step |-> "lock", status |-> None]
<1>1. /\ applying[u] = Idle /\ row[r].stored
      /\ applying' = [applying EXCEPT ![u] = goes]
      /\ UNCHANGED <<at, draft, row, blobs, removing, dropped, tree, index, patched, again,
                     crashes>>
  BY DEF StartApply, runVars, rowVars
<1>2. u \in Actors /\ at[r] \in Later /\ applying[u].step = "idle"
  BY <1>1 DEF Actors, Later, IInv, RunPart, Idle
<1>3. applying'[u] = goes /\ \A b \in Actors \ {u} : applying'[b] = applying[b]
  BY <1>1, <1>2 DEF IInv, Types
<1>4. goes.step = "lock" /\ goes.text = row[r].patch /\ goes.run = r OBVIOUS
<1>5. PatchTypes' /\ RowsFresh' /\ RemovedAlone'
  BY <1>1 DEF PatchInv, PatchTypes, RowsFresh, RemovedAlone
<1>6. BlobsKept' BY <1>1 DEF PatchInv, BlobsKept, Needs
<1>7. ApplyKnows' BY <1>1, <1>2, <1>3, <1>4 DEF PatchInv, ApplyKnows
<1>8. UnindexedIsMarked' BY <1>1, <1>2, <1>3 DEF PatchInv, UnindexedIsMarked
<1>9. FailingHonestly' BY <1>1, <1>3, <1>4 DEF PatchInv, FailingHonestly, Failing
<1>10. FailedHonestly'
  <2>1. \A a \in Actors : \A t : Works(applying[a], t) => Works(applying'[a], t)
    BY <1>2, <1>3 DEF Works
  <2> QED BY <2>1, <1>1 DEF PatchInv, FailedHonestly
<1> QED BY <1>5, <1>6, <1>7, <1>8, <1>9, <1>10 DEF PatchInv

LEMMA DeleteRowKeepsPatches ==
  ASSUME RunsAssumption, IInv, PatchInv, NEW u \in Users, NEW r \in Runs, DeleteRow(u, r)
  PROVE  PatchInv'
<1> DEFINE sha == IF row[r].patch \in Long /\ Others(r) = {} THEN row[r].patch ELSE None
           sole == \A o \in Runs \ {r} : row[o].stored => row[o].patch # row[r].patch
           entry == [run |-> r, sha |-> sha, alone |-> sole]
<1>1. /\ row[r].stored /\ removing' = [removing EXCEPT ![u] = entry]
      /\ row' = [row EXCEPT ![r].stored = FALSE]
      /\ UNCHANGED <<at, draft, blobs, dropped, applying, tree, index, patched, again, crashes>>
  BY DEF DeleteRow, runVars, patchVars
<1>2. /\ row'[r].stored = FALSE /\ row'[r].patch = row[r].patch
      /\ row'[r].applied = row[r].applied /\ row'[r].allowed = row[r].allowed
      /\ \A o \in Runs \ {r} : row'[o] = row[o]
  BY <1>1 DEF IInv, Types, Rows
<1>3. at[r] \in Later BY <1>1 DEF IInv, RunPart, Later
<1>4. row[r].patch \in Texts \cup {None} /\ sha \in Texts \cup {None} /\ sole \in BOOLEAN
  BY DEF IInv, Types, Rows
<1>5. sha \in Long => sole BY DEF Others, RunsAssumption
<1>6. PatchTypes'
  <2>1. entry \in [run : Runs \cup {None}, sha : Texts \cup {None}, alone : BOOLEAN] BY <1>4
  <2> HIDE DEF entry
  <2> QED BY <2>1, <1>1 DEF PatchInv, PatchTypes
<1>7. RemovedAlone'
  <2>1. entry.sha \in Long => entry.alone BY <1>5
  <2>2. /\ removing'[u] = entry /\ \A v \in Users \ {u} : removing'[v] = removing[v]
    BY <1>1 DEF PatchInv, PatchTypes
  <2> HIDE DEF entry
  <2> QED BY <2>1, <2>2 DEF PatchInv, RemovedAlone
<1>8. RowsFresh' BY <1>1, <1>2, <1>3 DEF PatchInv, RowsFresh
<1>9. ApplyKnows'
  <2>1. \A o \in Runs : row'[o].patch = row[o].patch BY <1>2
  <2> QED BY <2>1, <1>1 DEF PatchInv, ApplyKnows
<1>10. BlobsKept'
  <2>1. \A o \in Runs : \A t \in Long : Needs(o, t)' => Needs(o, t) BY <1>1, <1>2 DEF Needs
  <2> QED BY <2>1, <1>1 DEF PatchInv, BlobsKept
<1>11. UnindexedIsMarked' BY <1>1 DEF PatchInv, UnindexedIsMarked
<1>12. FailingHonestly'
  <2> SUFFICES ASSUME NEW a \in Actors, Failing(a)'
               PROVE  tree[applying[a].text] # "in" \/ applying[a].text \in again
    BY <1>1 DEF FailingHonestly
  <2>1. applying[a].run \in Runs BY <1>1 DEF PatchInv, ApplyKnows, Failing
  <2>2. Failing(a) BY <2>1, <1>1, <1>2 DEF Failing
  <2> QED BY <2>2 DEF PatchInv, FailingHonestly
<1>13. FailedHonestly'
  <2>1. \A o \in Runs : row'[o].patch = row[o].patch /\ (Failed(row'[o]) => Failed(row[o]))
    BY <1>2 DEF Failed
  <2> QED BY <2>1, <1>1 DEF PatchInv, FailedHonestly
<1> QED BY <1>6, <1>7, <1>8, <1>9, <1>10, <1>11, <1>12, <1>13 DEF PatchInv

\* A blob somebody needs goes only beside a row its deletion did not know.
LEMMA DeleteBlobKeepsPatches ==
  ASSUME RunsAssumption, IInv, PatchInv, NEW u \in Users, DeleteBlob(u)
  PROVE  PatchInv'
<1> DEFINE sha == removing[u].sha
           gone == /\ blobs' = blobs \ {sha}
                   /\ dropped' = IF sha \in Long /\ Needed(sha) /\ removing[u].alone
                                 THEN dropped \cup {sha} ELSE dropped
<1>1. /\ removing' = [removing EXCEPT ![u] = NotRemoving]
      /\ gone \/ UNCHANGED <<blobs, dropped>>
      /\ UNCHANGED <<at, draft, row, applying, tree, index, patched, again, crashes>>
  BY DEF DeleteBlob, runVars, patchVars
<1>2. NotRemoving \in [run : Runs \cup {None}, sha : Texts \cup {None}, alone : BOOLEAN]
  BY DEF NotRemoving
<1>3. PatchTypes'
  <2>1. blobs' \subseteq Long /\ dropped' \subseteq Long BY <1>1 DEF PatchInv, PatchTypes
  <2> QED BY <2>1, <1>1, <1>2 DEF PatchInv, PatchTypes
<1>4. RemovedAlone'
  <2>1. NotRemoving.sha \notin Long BY DEF NotRemoving, RunsAssumption
  <2> QED BY <2>1, <1>1 DEF PatchInv, PatchTypes, RemovedAlone
<1>5. BlobsKept'
  <2> SUFFICES ASSUME NEW o \in Runs, NEW t \in Long, Needs(o, t) PROVE t \in blobs' \cup dropped'
    BY <1>1 DEF BlobsKept, Needs
  <2>1. t \in blobs \cup dropped BY DEF PatchInv, BlobsKept
  <2>2. CASE t = sha /\ gone
    <3>1. Needed(sha) BY <2>2 DEF Needs, Needed
    <3>2. removing[u].alone BY <2>2 DEF PatchInv, RemovedAlone
    <3> QED BY <3>1, <3>2, <2>2
  <2>3. CASE t # sha \/ ~gone BY <2>1, <2>3, <1>1
  <2> QED BY <2>2, <2>3
<1>6. RowsFresh' /\ ApplyKnows' /\ UnindexedIsMarked'
  BY <1>1 DEF PatchInv, RowsFresh, ApplyKnows, UnindexedIsMarked
<1>7. FailingHonestly' /\ FailedHonestly'
  BY <1>1 DEF PatchInv, FailingHonestly, Failing, FailedHonestly
<1> QED BY <1>3, <1>4, <1>5, <1>6, <1>7 DEF PatchInv

\* An apply changes the step of its own run at most, and only to leave it.
Leaves(a) == \A r \in Runs : at'[r] = at[r] \/ (r = a /\ at'[r] \in {"done", "failed"})
LEMMA LeavingIsLater ==
  ASSUME IInv, NEW a \in Actors, applying[a].step # "idle", EndApply(a) \/ AbortApply(a)
  PROVE  /\ Leaves(a) /\ applying' = [applying EXCEPT ![a] = Idle]
         /\ \A r \in Runs : (at'[r] \in Later <=> at[r] \in Later) /\ (at'[r] = "row" => at[r] = "row")
<1>1. at \in [Runs -> Steps] BY DEF IInv, Types
<1>2. a \in Runs => at[a] = "apply" BY DEF IInv, RunPart
<1>3. CASE a \in Runs BY <1>1, <1>2, <1>3 DEF EndApply, AbortApply, Leaves, Later
<1>4. CASE a \notin Runs BY <1>4 DEF EndApply, AbortApply, Leaves
<1> QED BY <1>3, <1>4 DEF EndApply, AbortApply

\* What every step of an apply keeps, wherever it goes from here.
LEMMA TryKeepsRows ==
  ASSUME IInv, PatchInv, NEW a \in Actors, applying[a].step # "idle",
         UNCHANGED <<draft, row, blobs, dropped, removing, crashes>>,
         \A r \in Runs : (at'[r] \in Later <=> at[r] \in Later) /\ (at'[r] = "row" => at[r] = "row"),
         \A b \in Actors \ {a} : applying'[b] = applying[b],
         applying'[a].step # "idle" => (applying'[a].run = applying[a].run
                                        /\ applying'[a].text = applying[a].text),
         applying'[a].step = "scan" => applying'[a].status = "success" /\ applying'[a].text # None
  PROVE  RowsFresh' /\ ApplyKnows' /\ BlobsKept' /\ RemovedAlone'
<1>1. RowsFresh' /\ RemovedAlone' BY DEF PatchInv, RowsFresh, RemovedAlone
<1>2. BlobsKept' BY DEF PatchInv, BlobsKept, Needs
<1>3. ApplyKnows' BY DEF PatchInv, ApplyKnows
<1> QED BY <1>1, <1>2, <1>3

LEMMA ApplyLockedKeepsPatches ==
  ASSUME IInv, PatchInv, NEW a \in Actors, ApplyLocked(a)
  PROVE  PatchInv'
<1>1. /\ applying[a].step = "lock" /\ AbortApply(a)
      /\ UNCHANGED <<draft, row, blobs, dropped, removing, tree, index, patched, again, crashes>>
  BY DEF ApplyLocked, rowVars
<1>2. Idle.step = "idle" BY DEF Idle
<1>3. /\ applying' = [applying EXCEPT ![a] = Idle]
      /\ \A b \in Actors \ {a} : applying'[b] = applying[b] /\ applying'[a] = Idle
  BY <1>1 DEF AbortApply, IInv, Types
<1>4. RowsFresh' /\ ApplyKnows' /\ BlobsKept' /\ RemovedAlone'
  BY <1>1, <1>2, <1>3, LeavingIsLater, TryKeepsRows
<1>5. PatchTypes' BY <1>1 DEF PatchInv, PatchTypes
<1>6. UnindexedIsMarked' BY <1>1, <1>3 DEF PatchInv, UnindexedIsMarked
<1>7. FailingHonestly' BY <1>1, <1>2, <1>3 DEF PatchInv, FailingHonestly, Failing
<1>8. FailedHonestly'
  <2>1. \A b \in Actors : \A t : Works(applying[b], t) => Works(applying'[b], t)
    BY <1>1, <1>3 DEF Works
  <2> QED BY <2>1, <1>1 DEF PatchInv, FailedHonestly
<1> QED BY <1>4, <1>5, <1>6, <1>7, <1>8 DEF PatchInv

\* What the new judgement says of the apply.
LEMMA Judged ==
  ASSUME IInv, NEW a \in Actors, NEW turn, NEW status, Judge(a, turn, status)
  PROVE  /\ applying'[a].run = applying[a].run /\ applying'[a].text = applying[a].text
         /\ applying'[a].step = turn /\ applying'[a].status = status
         /\ \A b \in Actors \ {a} : applying'[b] = applying[b]
<1> DEFINE g == [applying[a] EXCEPT !.step = turn, !.status = status]
<1>1. applying' = [applying EXCEPT ![a] = g] BY DEF Judge
<1>2. applying[a] \in Applies BY DEF IInv, Types
<1>3. /\ g.run = applying[a].run /\ g.text = applying[a].text
      /\ g.step = turn /\ g.status = status
  BY <1>2 DEF Applies
<1> HIDE DEF g
<1>4. applying'[a] = g /\ \A b \in Actors \ {a} : applying'[b] = applying[b]
  BY <1>1 DEF IInv, Types
<1> QED BY <1>1, <1>3, <1>4

\* A try that is refused although its patch is in is marked in again.
LEMMA ApplyRefusedKeepsPatches ==
  ASSUME IInv, PatchInv, NEW a \in Actors, ApplyRefused(a)
  PROVE  PatchInv'
<1> DEFINE t == applying[a].text
<1>1. /\ applying[a].step = "lock" /\ Judge(a, "record", "failed")
      /\ again' = IF t # None /\ InContext(a) /\ tree[t] = "in" THEN again \cup {t} ELSE again
      /\ UNCHANGED <<at, draft, row, blobs, dropped, removing, tree, index, patched, crashes>>
  BY DEF ApplyRefused, runVars, rowVars
<1>2. /\ applying'[a].run = applying[a].run /\ applying'[a].text = t
      /\ applying'[a].step = "record" /\ applying'[a].status = "failed"
      /\ \A b \in Actors \ {a} : applying'[b] = applying[b]
  BY <1>1, Judged
<1>3. RowsFresh' /\ ApplyKnows' /\ BlobsKept' /\ RemovedAlone'
  BY <1>1, <1>2, TryKeepsRows
<1>4. t \in Texts \cup {None} BY DEF IInv, Types, Applies
<1>5. PatchTypes' BY <1>1, <1>4 DEF PatchInv, PatchTypes
<1>6. UnindexedIsMarked' BY <1>1, <1>2 DEF PatchInv, UnindexedIsMarked
<1>7. FailingHonestly'
  <2> SUFFICES ASSUME NEW b \in Actors, Failing(b)'
               PROVE  tree'[applying'[b].text] # "in" \/ applying'[b].text \in again'
    BY DEF FailingHonestly
  <2>1. CASE b = a
    <3>1. t # None /\ InContext(a) BY <1>1, <1>2, <2>1 DEF Failing, InContext
    <3> QED BY <3>1, <1>1, <1>2, <2>1
  <2>2. CASE b # a BY <2>2, <1>1, <1>2 DEF PatchInv, FailingHonestly, Failing
  <2> QED BY <2>1, <2>2
<1>8. FailedHonestly'
  <2>1. \A b \in Actors : \A x : Works(applying[b], x) => Works(applying'[b], x)
    BY <1>1, <1>2 DEF Works
  <2> QED BY <2>1, <1>1 DEF PatchInv, FailedHonestly
<1> QED BY <1>3, <1>5, <1>6, <1>7, <1>8 DEF PatchInv

\* The try that writes marks in again every other that is still to be recorded.
LEMMA ApplyWritesKeepsPatches ==
  ASSUME IInv, PatchInv, NEW a \in Actors, ApplyWrites(a)
  PROVE  PatchInv'
<1> DEFINE t == applying[a].text
           crossed == \E o \in Actors : applying[o].text = t /\ applying[o].step = "record"
<1>1. /\ applying[a].step = "lock" /\ t # None /\ tree[t] = "out"
      /\ tree' = [tree EXCEPT ![t] = "in"] /\ Judge(a, "scan", "success")
      /\ again' = IF crossed THEN again \cup {t} ELSE again
      /\ UNCHANGED <<at, draft, row, blobs, dropped, removing, index, patched, crashes>>
  BY DEF ApplyWrites, runVars, rowVars
<1>2. /\ applying'[a].run = applying[a].run /\ applying'[a].text = t
      /\ applying'[a].step = "scan" /\ applying'[a].status = "success"
      /\ \A b \in Actors \ {a} : applying'[b] = applying[b]
  BY <1>1, Judged
<1>3. RowsFresh' /\ ApplyKnows' /\ BlobsKept' /\ RemovedAlone'
  BY <1>1, <1>2, TryKeepsRows
<1>4. t \in Texts BY <1>1 DEF IInv, Types, Applies
<1>5. PatchTypes' BY <1>1, <1>4 DEF PatchInv, PatchTypes
<1>6. /\ tree'[t] = "in" /\ \A x \in Texts \ {t} : tree'[x] = tree[x]
      /\ again \subseteq again' /\ (crossed => t \in again')
  BY <1>1, <1>4 DEF PatchInv, PatchTypes
<1>7. UnindexedIsMarked'
  <2> SUFFICES ASSUME NEW x \in Texts, tree'[x] = "in", x \notin index
               PROVE  \/ x \in patched \/ crashes > 0
                      \/ \E b \in Actors : applying'[b].text = x /\ applying'[b].step = "scan"
    BY <1>1 DEF UnindexedIsMarked
  <2>1. CASE x = t BY <2>1, <1>2
  <2>2. CASE x # t BY <2>2, <1>1, <1>2, <1>6 DEF PatchInv, UnindexedIsMarked
  <2> QED BY <2>1, <2>2
<1>8. FailingHonestly'
  <2> SUFFICES ASSUME NEW b \in Actors, Failing(b)'
               PROVE  tree'[applying'[b].text] # "in" \/ applying'[b].text \in again'
    BY DEF FailingHonestly
  <2>1. b # a /\ applying'[b] = applying[b] BY <1>2 DEF Failing
  <2>2. Failing(b) /\ applying[b].text \in Texts
    BY <2>1, <1>1 DEF Failing, IInv, Types, Applies
  <2>3. CASE applying[b].text = t BY <2>1, <2>2, <2>3, <1>6 DEF Failing
  <2>4. CASE applying[b].text # t
    BY <2>1, <2>2, <2>4, <1>6 DEF PatchInv, FailingHonestly
  <2> QED BY <2>3, <2>4
<1>9. FailedHonestly'
  <2> SUFFICES ASSUME NEW r \in Runs, Failed(row[r])
               PROVE  \/ tree'[row[r].patch] # "in" \/ row[r].patch \in again' \/ crashes > 0
                      \/ \E b \in Actors : Works(applying'[b], row[r].patch)
                      \/ \E o \in Runs \ {r} : row[o].patch = row[r].patch
    BY <1>1 DEF FailedHonestly
  <2>1. row[r].patch \in Texts BY DEF Failed, IInv, Types, Rows
  <2>2. \A b \in Actors : \A x : Works(applying[b], x) => Works(applying'[b], x)
    BY <1>1, <1>2 DEF Works
  <2>3. CASE row[r].patch = t BY <2>3, <1>2 DEF Works
  <2>4. CASE row[r].patch # t
    BY <2>1, <2>2, <2>4, <1>6 DEF PatchInv, FailedHonestly
  <2> QED BY <2>3, <2>4
<1> QED BY <1>3, <1>5, <1>7, <1>8, <1>9 DEF PatchInv

LEMMA ApplyBreaksKeepsPatches ==
  ASSUME IInv, PatchInv, NEW a \in Actors, ApplyBreaks(a)
  PROVE  PatchInv'
<1> DEFINE t == applying[a].text
<1>1. /\ applying[a].step = "lock" /\ t # None /\ tree[t] = "out"
      /\ tree' = [tree EXCEPT ![t] = "part"]
      /\ (Judge(a, "record", "failed") /\ UNCHANGED at) \/ AbortApply(a)
      /\ UNCHANGED <<draft, row, blobs, dropped, removing, index, patched, again, crashes>>
  BY DEF ApplyBreaks, rowVars
<1>2. t \in Texts BY <1>1 DEF IInv, Types, Applies
<1>3. /\ \A b \in Actors \ {a} : applying'[b] = applying[b]
      /\ applying'[a].step \in {"idle", "record"}
      /\ applying'[a].step # "idle" => applying'[a].run = applying[a].run /\ applying'[a].text = t
      /\ \A r \in Runs : (at'[r] \in Later <=> at[r] \in Later) /\ (at'[r] = "row" => at[r] = "row")
  <2>1. CASE Judge(a, "record", "failed") /\ UNCHANGED at BY <2>1, Judged
  <2>2. CASE AbortApply(a)
    <3>1. applying' = [applying EXCEPT ![a] = Idle] /\ Idle.step = "idle"
      BY <2>2 DEF AbortApply, Idle
    <3>2. applying'[a] = Idle /\ \A b \in Actors \ {a} : applying'[b] = applying[b]
      BY <3>1 DEF IInv, Types
    <3> QED BY <3>1, <3>2, <2>2, <1>1, LeavingIsLater
  <2> QED BY <2>1, <2>2, <1>1
<1>4. RowsFresh' /\ ApplyKnows' /\ BlobsKept' /\ RemovedAlone'
  <2>1. applying[a].step # "idle" /\ applying'[a].step # "scan" BY <1>1, <1>3
  <2> QED BY <1>1, <1>3, <2>1, TryKeepsRows
<1>5. PatchTypes' BY <1>1 DEF PatchInv, PatchTypes
<1>6. /\ tree'[t] = "part" /\ \A x : x # t => (tree'[x] = "in" => tree[x] = "in")
  <2>1. DOMAIN tree = Texts /\ DOMAIN tree' = Texts BY <1>1 DEF PatchInv, PatchTypes
  <2>2. \A x \in Texts \ {t} : tree'[x] = tree[x] BY <1>1, <2>1
  <2>3. \A x : x \notin Texts => tree'[x] = tree[x] BY <1>1, <2>1
  <2> QED BY <1>1, <1>2, <2>1, <2>2, <2>3
<1>7. UnindexedIsMarked'
  <2> SUFFICES ASSUME NEW x \in Texts, tree'[x] = "in", x \notin index
               PROVE  \/ x \in patched \/ crashes > 0
                      \/ \E b \in Actors : applying'[b].text = x /\ applying'[b].step = "scan"
    BY <1>1 DEF UnindexedIsMarked
  <2>1. tree[x] = "in" BY <1>6
  <2> QED BY <2>1, <1>1, <1>3 DEF PatchInv, UnindexedIsMarked
<1>8. FailingHonestly'
  <2> SUFFICES ASSUME NEW b \in Actors, Failing(b)'
               PROVE  tree'[applying'[b].text] # "in" \/ applying'[b].text \in again'
    BY DEF FailingHonestly
  <2>1. CASE b = a BY <2>1, <1>3, <1>6 DEF Failing
  <2>2. CASE b # a
    <3>1. applying'[b] = applying[b] /\ Failing(b) BY <2>2, <1>1, <1>3 DEF Failing
    <3> QED BY <3>1, <1>1, <1>6 DEF PatchInv, FailingHonestly
  <2> QED BY <2>1, <2>2
<1>9. FailedHonestly'
  <2>1. \A b \in Actors : \A x : Works(applying[b], x) => Works(applying'[b], x)
    BY <1>1, <1>3 DEF Works
  <2>2. \A x : tree'[x] = "in" => tree[x] = "in" BY <1>6
  <2> QED BY <2>1, <2>2, <1>1 DEF PatchInv, FailedHonestly
<1> QED BY <1>4, <1>5, <1>7, <1>8, <1>9 DEF PatchInv

\* After the scan the files are in the index or their nodes are marked.
LEMMA ReindexKeepsPatches ==
  ASSUME IInv, PatchInv, NEW a \in Actors, Reindex(a)
  PROVE  PatchInv'
<1> DEFINE t == applying[a].text
<1>1. /\ applying[a].step = "scan"
      /\ \/ index' = index \cup {t} /\ Judge(a, "record", "success") /\ UNCHANGED patched
         \/ /\ patched' = patched \cup {t} /\ Judge(a, "record", "partial")
            /\ UNCHANGED index \/ index' = index \cup {t}
      /\ UNCHANGED <<at, draft, row, blobs, dropped, removing, tree, again, crashes>>
  BY DEF Reindex, runVars, rowVars
<1>2. /\ applying'[a].run = applying[a].run /\ applying'[a].text = t
      /\ applying'[a].step = "record" /\ applying'[a].status \in {"success", "partial"}
      /\ \A b \in Actors \ {a} : applying'[b] = applying[b]
  BY <1>1, Judged
<1>3. RowsFresh' /\ ApplyKnows' /\ BlobsKept' /\ RemovedAlone'
  BY <1>1, <1>2, TryKeepsRows
<1>4. t \in Texts BY <1>1 DEF PatchInv, ApplyKnows, IInv, Types, Applies
<1>5. PatchTypes' BY <1>1, <1>4 DEF PatchInv, PatchTypes
<1>6. UnindexedIsMarked'
  <2> SUFFICES ASSUME NEW x \in Texts, tree[x] = "in", x \notin index'
               PROVE  \/ x \in patched' \/ crashes > 0
                      \/ \E b \in Actors : applying'[b].text = x /\ applying'[b].step = "scan"
    BY <1>1 DEF UnindexedIsMarked
  <2>1. CASE x = t BY <2>1, <1>1
  <2>2. CASE x # t BY <2>2, <1>1, <1>2 DEF PatchInv, UnindexedIsMarked
  <2> QED BY <2>1, <2>2
<1>7. FailingHonestly' BY <1>1, <1>2 DEF PatchInv, FailingHonestly, Failing
<1>8. FailedHonestly'
  <2>1. \A b \in Actors : \A x : Works(applying[b], x) => Works(applying'[b], x)
    BY <1>1, <1>2 DEF Works
  <2> QED BY <2>1, <1>1 DEF PatchInv, FailedHonestly
<1> QED BY <1>3, <1>5, <1>6, <1>7, <1>8 DEF PatchInv

\* A try is recorded over what another try of the run has left there.
LEMMA RecordKeepsPatches ==
  ASSUME IInv, PatchInv, NEW a \in Actors, Record(a)
  PROVE  PatchInv'
<1> DEFINE r == applying[a].run
           t == applying[a].text
<1>1. /\ applying[a].step = "record"
      /\ \/ /\ row[r].stored /\ EndApply(a)
            /\ row' = [row EXCEPT ![r].applied = applying[a].status]
         \/ ~row[r].stored /\ AbortApply(a) /\ row' = row
      /\ UNCHANGED <<draft, blobs, dropped, removing, tree, index, patched, again, crashes>>
  BY DEF Record
<1>2. /\ applying' = [applying EXCEPT ![a] = Idle]
      /\ \A o \in Runs : (at'[o] \in Later <=> at[o] \in Later) /\ (at'[o] = "row" => at[o] = "row")
  BY <1>1, LeavingIsLater
<1>3. /\ \A b \in Actors \ {a} : applying'[b] = applying[b]
      /\ applying'[a] = Idle /\ Idle.step = "idle"
  BY <1>2 DEF IInv, Types, Idle
<1>4. r \in Runs /\ at[r] \in Later /\ t = row[r].patch BY <1>1 DEF PatchInv, ApplyKnows
<1>5. /\ \A o \in Runs \ {r} : row'[o] = row[o]
      /\ \A o \in Runs : /\ row'[o].patch = row[o].patch /\ row'[o].stored = row[o].stored
                         /\ row'[o].allowed = row[o].allowed
      /\ row[r].stored => row'[r].applied = applying[a].status
  <2>1. row \in [Runs -> Rows] BY DEF IInv, Types
  <2>2. CASE row[r].stored
    <3>1. row'[r] = [row[r] EXCEPT !.applied = applying[a].status] BY <1>1, <1>4, <2>1, <2>2
    <3>2. row[r] \in Rows BY <1>4, <2>1
    <3>3. /\ row'[r].patch = row[r].patch /\ row'[r].stored = row[r].stored
          /\ row'[r].allowed = row[r].allowed /\ row'[r].applied = applying[a].status
      BY <3>1, <3>2 DEF Rows
    <3>4. \A o \in Runs \ {r} : row'[o] = row[o] BY <1>1, <2>1, <2>2
    <3> QED BY <3>3, <3>4
  <2>3. CASE ~row[r].stored BY <1>1, <2>3
  <2> QED BY <2>2, <2>3
<1>6. PatchTypes' /\ RemovedAlone' BY <1>1 DEF PatchInv, PatchTypes, RemovedAlone
<1>7. RowsFresh' BY <1>2, <1>4, <1>5 DEF PatchInv, RowsFresh
<1>8. ApplyKnows'
  <2> SUFFICES ASSUME NEW b \in Actors
               PROVE  /\ applying'[b].step # "idle" =>
                           /\ applying'[b].run \in Runs /\ at'[applying'[b].run] \in Later
                           /\ applying'[b].text = row'[applying'[b].run].patch
                      /\ applying'[b].step = "scan" =>
                           applying'[b].status = "success" /\ applying'[b].text # None
    BY DEF ApplyKnows
  <2>1. CASE b = a BY <2>1, <1>3
  <2>2. CASE b # a BY <2>2, <1>2, <1>3, <1>5 DEF PatchInv, ApplyKnows
  <2> QED BY <2>1, <2>2
<1>9. BlobsKept'
  <2>1. \A o \in Runs : \A x \in Long : Needs(o, x)' => Needs(o, x) BY <1>1, <1>2, <1>5 DEF Needs
  <2> QED BY <2>1, <1>1 DEF PatchInv, BlobsKept
<1>10. UnindexedIsMarked' BY <1>1, <1>3 DEF PatchInv, UnindexedIsMarked
<1>11. FailingHonestly'
  <2> SUFFICES ASSUME NEW b \in Actors, Failing(b)'
               PROVE  tree'[applying'[b].text] # "in" \/ applying'[b].text \in again'
    BY DEF FailingHonestly
  <2>1. b # a /\ applying'[b] = applying[b] BY <1>3 DEF Failing
  <2>2. applying[b].run \in Runs BY <2>1 DEF PatchInv, ApplyKnows, Failing
  <2>3. Failing(b) BY <2>1, <2>2, <1>5 DEF Failing
  <2> QED BY <2>1, <2>3, <1>1 DEF PatchInv, FailingHonestly
<1>12. FailedHonestly'
  <2> SUFFICES ASSUME NEW o \in Runs, Failed(row'[o])
               PROVE  \/ tree[row[o].patch] # "in" \/ row[o].patch \in again \/ crashes > 0
                      \/ \E b \in Actors : Works(applying'[b], row[o].patch)
                      \/ \E p \in Runs \ {o} : row[p].patch = row[o].patch
    BY <1>1, <1>5 DEF FailedHonestly
  <2>1. CASE o = r
    <3>1. row[r].stored /\ applying[a].status = "failed" /\ row[r].allowed /\ t # None
      BY <2>1, <1>4, <1>5 DEF Failed
    <3>2. Failing(a) BY <3>1, <1>1 DEF Failing
    <3> QED BY <3>2, <2>1, <1>4 DEF PatchInv, FailingHonestly
  <2>2. CASE o # r
    <3>1. Failed(row[o]) BY <2>2, <1>5
    <3>2. \A b \in Actors : Works(applying[b], row[o].patch) =>
            Works(applying'[b], row[o].patch) \/ row[r].patch = row[o].patch
      BY <1>3, <1>4 DEF Works
    <3> QED BY <3>1, <3>2, <2>2, <1>4 DEF PatchInv, FailedHonestly
  <2> QED BY <2>1, <2>2
<1> QED BY <1>6, <1>7, <1>8, <1>9, <1>10, <1>11, <1>12 DEF PatchInv

LEMMA CrashKeepsPatches ==
  ASSUME IInv, PatchInv, NEW r \in Runs, Crash(r)
  PROVE  PatchInv'
<1>1. /\ crashes' = crashes + 1 /\ Goto(r, "failed") /\ Forget(r)
      /\ applying' = [applying EXCEPT ![r] = Idle]
      /\ UNCHANGED <<row, blobs, removing, dropped, tree, index, patched, again>>
  BY DEF Crash, rowVars
<1>2. /\ crashes \in Nat /\ crashes' \in Nat /\ crashes' > 0
  <2>1. crashes \in Nat BY DEF PatchInv, PatchTypes
  <2> QED BY <2>1, <1>1
<1>3. r \in Actors /\ Idle.step = "idle" BY DEF Actors, Idle
<1>4. /\ at'[r] = "failed" /\ \A o \in Runs \ {r} : at'[o] = at[o] /\ draft'[o] = draft[o]
      /\ applying'[r] = Idle /\ \A b \in Actors \ {r} : applying'[b] = applying[b]
  BY <1>1, <1>3 DEF Goto, Forget, IInv, Types, DraftTypes
<1>5. PatchTypes' /\ RemovedAlone' BY <1>1, <1>2 DEF PatchInv, PatchTypes, RemovedAlone
<1>6. RowsFresh' /\ ApplyKnows' BY <1>1, <1>3, <1>4 DEF PatchInv, RowsFresh, ApplyKnows, Later
<1>7. BlobsKept'
  <2>1. \A o \in Runs : \A x \in Long : Needs(o, x)' => Needs(o, x) BY <1>1, <1>4 DEF Needs
  <2> QED BY <2>1, <1>1 DEF PatchInv, BlobsKept
<1>8. UnindexedIsMarked' /\ FailedHonestly' BY <1>2 DEF UnindexedIsMarked, FailedHonestly
<1>9. FailingHonestly' BY <1>1, <1>3, <1>4 DEF PatchInv, FailingHonestly, Failing
<1> QED BY <1>5, <1>6, <1>7, <1>8, <1>9 DEF PatchInv

\* Every step of a run keeps what is known of patches.
LEMMA RunKeepsPatches ==
  ASSUME IInv, PatchInv, NEW r \in Runs, RunStep(r)
  PROVE  PatchInv'
<1>1. CASE StoreRow(r) BY <1>1, StoreRowKeepsPatches
<1>2. CASE StoreBlob(r) /\ ~Fail(r) BY <1>2, StoreBlobKeepsPatches
<1>3. CASE Fail(r) /\ ~StoreRow(r)
  <2>1. at[r] \notin Later
    BY <1>3 DEF RunStep, Prepare, Charge, Triage, Impact, AskPack, AskAgentic, StoreBlob, Later
  <2>2. /\ UNCHANGED <<rowVars, patchVars, crashes>> /\ at'[r] # "row"
        /\ \A o \in Runs \ {r} : at'[o] = at[o] /\ draft'[o] = draft[o]
    BY <1>3 DEF Fail, Goto, Forget, IInv, Types, DraftTypes
  <2> QED BY <2>1, <2>2, AskingKeepsPatches
<1>4. CASE ~StoreRow(r) /\ ~StoreBlob(r) /\ ~Fail(r)
  <2>1. Prepare(r) \/ Charge(r) \/ Triage(r) \/ Impact(r) \/ AskPack(r) \/ AskAgentic(r)
    BY <1>4 DEF RunStep
  <2>2. at[r] \notin Later BY <2>1 DEF Prepare, Charge, Triage, Impact, AskPack, AskAgentic, Later
  <2>3. UNCHANGED <<rowVars, patchVars, crashes>>
    BY <2>1, <1>4 DEF Prepare, Charge, Triage, Impact, AskPack, AskAgentic
  <2>4. \E s \in Steps \ {"row"} : Goto(r, s)
    BY <2>1, <1>4 DEF Prepare, Charge, Triage, Impact, AskPack, AskAgentic, Steps
  <2>5. draft' = draft \/ \E d : draft' = [draft EXCEPT ![r] = d]
    BY <2>1, <1>4 DEF Prepare, Charge, Triage, Impact, AskPack, AskAgentic
  <2>6. /\ at'[r] # "row"
        /\ \A o \in Runs \ {r} : at'[o] = at[o] /\ draft'[o] = draft[o]
    BY <2>4, <2>5 DEF Goto, IInv, Types, DraftTypes
  <2> QED BY <2>2, <2>3, <2>6, AskingKeepsPatches
<1> QED BY <1>1, <1>2, <1>3, <1>4

LEMMA UnmovedKeepsPatches ==
  ASSUME PatchInv, UNCHANGED <<at, draft, rowVars, patchVars, crashes>>
  PROVE  PatchInv'
BY DEF PatchInv, PatchTypes, RowsFresh, ApplyKnows, BlobsKept, Needs, RemovedAlone,
   UnindexedIsMarked, FailingHonestly, Failing, FailedHonestly, rowVars, patchVars

LEMMA PatchStepKeeps == RunsAssumption /\ IInv /\ PatchInv /\ [Next]_taskVars => PatchInv'
<1> SUFFICES ASSUME RunsAssumption, IInv, PatchInv, [Next]_taskVars PROVE PatchInv' OBVIOUS
<1>1. ASSUME NEW r \in Runs, RunStep(r) PROVE PatchInv' BY <1>1, RunKeepsPatches
<1>2. ASSUME NEW r \in Runs, ContractCommits(r) PROVE PatchInv'
  BY <1>2, UnmovedKeepsPatches DEF ContractCommits, runVars
<1>3. ASSUME NEW r \in Runs, ReadExpired(r) PROVE PatchInv' BY <1>3, ReadExpiredKeepsPatches
<1>4. ASSUME NEW r \in Runs, Crash(r) PROVE PatchInv' BY <1>4, CrashKeepsPatches
<1>5. ASSUME NEW a \in Actors, ApplyStep(a) PROVE PatchInv'
  BY <1>5, ApplyLockedKeepsPatches, ApplyRefusedKeepsPatches, ApplyWritesKeepsPatches,
     ApplyBreaksKeepsPatches, ReindexKeepsPatches, RecordKeepsPatches DEF ApplyStep
<1>6. ASSUME NEW u \in Users, UserStep(u) PROVE PatchInv'
  BY <1>6, DeleteBlobKeepsPatches, StartApplyKeepsPatches, DeleteRowKeepsPatches DEF UserStep
<1>7. CASE UNCHANGED taskVars
  BY <1>7, UnmovedKeepsPatches DEF taskVars, runVars
<1>8. CASE Settled
  BY <1>8, UnmovedKeepsPatches DEF Settled, taskVars, runVars
<1> QED BY <1>1, <1>2, <1>3, <1>4, <1>5, <1>6, <1>7, <1>8 DEF Next

LEMMA PatchesAtFirst == RunsAssumption /\ Init => PatchInv
<1> SUFFICES ASSUME RunsAssumption, Init PROVE PatchInv OBVIOUS
<1>1. /\ \A r \in Runs : at[r] = "start" /\ row[r] = NoRow
      /\ \A a \in Actors : applying[a].step = "idle"
      /\ \A u \in Users : removing[u].sha = None
      /\ \A t \in Texts : tree[t] = "out"
      /\ None \notin Long
  BY DEF Init, Idle, NotRemoving, RunsAssumption
<1>2. PatchTypes BY DEF Init, PatchTypes, NotRemoving
<1>3. RowsFresh /\ ApplyKnows /\ RemovedAlone /\ FailingHonestly
  BY <1>1 DEF RowsFresh, ApplyKnows, RemovedAlone, FailingHonestly, Failing
<1>4. BlobsKept /\ FailedHonestly BY <1>1 DEF BlobsKept, Needs, FailedHonestly, Failed, NoRow
<1>5. UnindexedIsMarked BY <1>1 DEF UnindexedIsMarked
<1> QED BY <1>2, <1>3, <1>4, <1>5 DEF PatchInv

-----------------------------------------------------------------------------
(***************************************************************************)
(* The retry loop of the agentic runs.  A pass that goes round again has    *)
(* moved the index on as well, so there are no more escalations than that;  *)
(* only the last pass may add one and stop.                                 *)
(***************************************************************************)
Retries == [index : Nat, escalations : Nat, previous : Missing \cup {{}}, first : BOOLEAN,
            calls : Nat, blank : BOOLEAN]
Looped == {"store", "row"}
RetryPart(r) ==
  /\ retry[r].escalations <= retry[r].index + 1 /\ retry[r].index <= MaxRetries
  /\ at[r] \notin Looped => retry[r].escalations <= retry[r].index
  /\ retry[r].escalations > MaxEscalations => retry[r].blank
  /\ retry[r].calls <= CallCeiling
RetryInv == retry \in [Runs -> Retries] /\ \A r \in Runs : RetryPart(r)

\* The next pass has some calls more, up to the ceiling of the server.
LEMMA CallsStayBelow ==
  ASSUME RunsAssumption, NEW n \in Nat
  PROVE  Least(HalfMore(n), CallCeiling) \in Nat /\ Least(HalfMore(n), CallCeiling) <= CallCeiling
<1>1. HalfMore(n) \in Nat BY DEF HalfMore
<1> QED BY <1>1 DEF Least, RunsAssumption

LEMMA RetryStays ==
  ASSUME RetryInv, UNCHANGED retry,
         \A r \in Runs : at'[r] = at[r] \/ at'[r] \in Looped \/ at[r] \notin Looped
  PROVE  RetryInv'
BY DEF RetryInv, RetryPart

LEMMA RetryForgets ==
  ASSUME RunsAssumption, RetryInv, NEW r \in Runs, Forget(r),
         \A o \in Runs \ {r} : at'[o] = at[o]
  PROVE  RetryInv'
<1>1. retry' = [retry EXCEPT ![r] = FreshRetry] BY DEF Forget
<1>2. /\ FreshRetry \in Retries /\ FreshRetry.index = 0 /\ FreshRetry.escalations = 0
      /\ FreshRetry.calls = 1
  BY DEF FreshRetry, Retries
<1>3. /\ retry' \in [Runs -> Retries] /\ retry'[r] = FreshRetry
      /\ \A o \in Runs \ {r} : retry'[o] = retry[o]
  BY <1>1, <1>2 DEF RetryInv
<1>4. RetryPart(r)' BY <1>2, <1>3 DEF RetryPart, RunsAssumption
<1>5. \A o \in Runs \ {r} : RetryPart(o)' BY <1>3 DEF RetryInv, RetryPart
<1> QED BY <1>3, <1>4, <1>5 DEF RetryInv

\* One pass of the loop: it goes round again only where it may.
LEMMA PassKeepsRetry ==
  ASSUME RunsAssumption, IInv, RetryInv, NEW r \in Runs, AskAgentic(r), ~Fail(r)
  PROVE  RetryInv'
<1> DEFINE old == retry[r]
<1>1. PICK items \in Missing :
        LET stop == StopReason(old, items)
            more == items # {} /\ stop = None
            t == IF more THEN Escalated(old, items) ELSE old
            last == ~more \/ old.index = MaxRetries
        IN /\ retry' = [retry EXCEPT ![r] = [t EXCEPT !.index = IF last THEN @ ELSE @ + 1]]
           /\ Goto(r, IF last THEN "store" ELSE "ask")
  BY DEF AskAgentic
<1> DEFINE more == items # {} /\ StopReason(old, items) = None
           t == IF more THEN Escalated(old, items) ELSE old
           last == ~more \/ old.index = MaxRetries
           new == [t EXCEPT !.index = IF last THEN @ ELSE @ + 1]
           turn == IF last THEN "store" ELSE "ask"
<1>2. retry' = [retry EXCEPT ![r] = new] /\ Goto(r, turn) BY <1>1
<1>3. old \in Retries /\ RetryPart(r) BY DEF RetryInv
<1>4. at[r] \notin Looped BY DEF AskAgentic, Looped
<1>5. /\ old.escalations <= old.index /\ old.index <= MaxRetries /\ old.calls <= CallCeiling
      /\ old.escalations > MaxEscalations => old.blank
      /\ MaxRetries \in Nat /\ MaxEscalations \in Nat /\ CallCeiling \in Nat
      /\ old.index \in Nat /\ old.escalations \in Nat /\ old.calls \in Nat
  BY <1>3, <1>4 DEF RetryPart, RunsAssumption, Retries
<1>6. /\ t \in Retries /\ t.index = old.index /\ t.calls <= CallCeiling
      /\ t.escalations > MaxEscalations => t.blank
      /\ t.escalations = IF more THEN old.escalations + 1 ELSE old.escalations
  <2>1. CASE ~more BY <2>1, <1>3, <1>5
  <2>2. CASE more
    <3> DEFINE c == Least(HalfMore(old.calls), CallCeiling)
               b == old.blank \/ Norm(items) = {}
    <3>1. t = [old EXCEPT !.escalations = old.escalations + 1, !.previous = items,
                          !.first = FALSE, !.calls = c, !.blank = b]
      BY <2>2 DEF Escalated
    <3>2. c \in Nat /\ c <= CallCeiling BY <1>5, CallsStayBelow
    <3>3. Norm(items) # {} => old.escalations < MaxEscalations
      <4>1. StopReason(old, items) = None BY <2>2
      <4>2. None # "retry_limit" /\ None # "repeating_missing_context" /\ None # "escalation_limit"
        BY DEF None
      <4> QED BY <4>1, <4>2, <1>5 DEF StopReason
    <3>4. b \in BOOLEAN OBVIOUS
    <3> HIDE DEF c, b, t, old
    <3>5. /\ t \in Retries /\ t.index = old.index /\ t.calls = c /\ t.blank = b
          /\ t.escalations = old.escalations + 1
      <4>1. old.escalations + 1 \in Nat BY <1>5
      <4> DEFINE e == old.escalations + 1
      <4>2. t = [old EXCEPT !.escalations = e, !.previous = items, !.first = FALSE,
                            !.calls = c, !.blank = b]
        BY <3>1
      <4>3. e \in Nat BY <4>1
      <4> HIDE DEF e
      <4>4. old \in Retries /\ items \in Missing /\ c \in Nat BY <1>3, <3>2
      <4>5. t \in Retries BY <3>4, <4>2, <4>3, <4>4 DEF Retries
      <4>6. t.index = old.index /\ t.calls = c /\ t.escalations = e BY <4>2, <4>4 DEF Retries
      <4>7. t.blank = b BY <4>2, <4>4 DEF Retries
      <4> QED BY <4>5, <4>6, <4>7 DEF e
    <3>6. old.escalations + 1 > MaxEscalations => b BY <3>3, <1>5 DEF b
    <3> QED BY <3>2, <3>5, <3>6, <2>2
  <2> QED BY <2>1, <2>2
<1> HIDE DEF t
<1>7. /\ new \in Retries /\ new.escalations = t.escalations /\ new.calls = t.calls
      /\ new.blank = t.blank /\ new.index = IF last THEN old.index ELSE old.index + 1
  BY <1>5, <1>6 DEF Retries
<1> HIDE DEF new
<1>8. /\ retry' \in [Runs -> Retries] /\ retry'[r] = new /\ at'[r] = turn
      /\ \A o \in Runs \ {r} : retry'[o] = retry[o] /\ at'[o] = at[o]
  BY <1>2, <1>7 DEF RetryInv, Goto, IInv, Types
<1>9. RetryPart(r)'
  <2>1. new.escalations <= new.index + 1 /\ new.index <= MaxRetries BY <1>5, <1>6, <1>7
  <2>2. turn \notin Looped => new.escalations <= new.index BY <1>5, <1>6, <1>7 DEF Looped
  <2> QED BY <2>1, <2>2, <1>5, <1>6, <1>7, <1>8 DEF RetryPart
<1>10. \A o \in Runs \ {r} : RetryPart(o)' BY <1>8 DEF RetryInv, RetryPart
<1> QED BY <1>8, <1>9, <1>10 DEF RetryInv

LEMMA RetryStepKeeps == RunsAssumption /\ IInv /\ RetryInv /\ [Next]_taskVars => RetryInv'
<1> SUFFICES ASSUME RunsAssumption, IInv, RetryInv, [Next]_taskVars PROVE RetryInv' OBVIOUS
<1>1. ASSUME NEW r \in Runs, RunStep(r) PROVE RetryInv'
  <2>1. CASE AskAgentic(r) /\ ~Fail(r) BY <2>1, PassKeepsRetry
  <2>2. CASE Fail(r) \/ StoreRow(r)
    <3>1. Forget(r) /\ \E s : Goto(r, s) BY <2>2 DEF Fail, StoreRow
    <3>2. \A o \in Runs \ {r} : at'[o] = at[o] BY <3>1 DEF Goto, IInv, Types
    <3> QED BY <3>1, <3>2, RetryForgets
  <2>3. CASE ~AskAgentic(r) /\ ~Fail(r) /\ ~StoreRow(r)
    <3>1. Prepare(r) \/ Charge(r) \/ Triage(r) \/ Impact(r) \/ AskPack(r) \/ StoreBlob(r)
      BY <1>1, <2>3 DEF RunStep
    <3>2. UNCHANGED retry
      BY <3>1, <2>3 DEF Prepare, Charge, Triage, Impact, AskPack, StoreBlob
    <3>3. at[r] \notin Looped \/ Goto(r, "row")
      BY <3>1, <2>3 DEF Prepare, Charge, Triage, Impact, AskPack, StoreBlob, Looped
    <3>4. \E s \in Steps : Goto(r, s)
      BY <3>1, <2>3 DEF Prepare, Charge, Triage, Impact, AskPack, StoreBlob, Steps
    <3>5. \A o \in Runs : at'[o] = at[o] \/ at'[o] \in Looped \/ at[o] \notin Looped
      BY <3>3, <3>4 DEF Goto, Looped, IInv, Types
    <3> QED BY <3>2, <3>5, RetryStays
  <2> QED BY <2>1, <2>2, <2>3
<1>2. ASSUME NEW r \in Runs, ContractCommits(r) \/ ReadExpired(r) PROVE RetryInv'
  BY <1>2, RetryStays DEF ContractCommits, ReadExpired, runVars
<1>3. ASSUME NEW r \in Runs, Crash(r) PROVE RetryInv'
  <2>1. Forget(r) /\ Goto(r, "failed") BY <1>3 DEF Crash
  <2>2. \A o \in Runs \ {r} : at'[o] = at[o] BY <2>1 DEF Goto, IInv, Types
  <2> QED BY <2>1, <2>2, RetryForgets
<1>4. ASSUME NEW a \in Actors, ApplyStep(a) PROVE RetryInv'
  <2>1. UNCHANGED retry /\ applying[a].step # "idle"
    BY <1>4 DEF ApplyStep, ApplyLocked, ApplyRefused, ApplyWrites, ApplyBreaks, Reindex, Record,
       runVars
  <2>2. UNCHANGED at \/ EndApply(a) \/ AbortApply(a)
    BY <1>4 DEF ApplyStep, ApplyLocked, ApplyRefused, ApplyWrites, ApplyBreaks, Reindex, Record,
       runVars
  <2>3. \A o \in Runs : at'[o] = at[o] \/ at[o] \notin Looped
    <3>1. CASE UNCHANGED at BY <3>1
    <3>2. CASE EndApply(a) \/ AbortApply(a)
      <4>1. Leaves(a) BY <2>1, <3>2, LeavingIsLater
      <4>2. a \in Runs => at[a] = "apply" BY <2>1 DEF IInv, RunPart
      <4> QED BY <4>1, <4>2 DEF Leaves, Looped
    <3> QED BY <2>2, <3>1, <3>2
  <2> QED BY <2>1, <2>3, RetryStays
<1>5. ASSUME NEW u \in Users, UserStep(u) PROVE RetryInv'
  BY <1>5, RetryStays DEF UserStep, StartApply, DeleteRow, DeleteBlob, runVars
<1>6. CASE UNCHANGED taskVars \/ Settled
  BY <1>6, RetryStays DEF Settled, taskVars, runVars
<1> QED BY <1>1, <1>2, <1>3, <1>4, <1>5, <1>6 DEF Next

LEMMA RetryAtFirst == RunsAssumption /\ Init => RetryInv
<1> SUFFICES ASSUME RunsAssumption, Init PROVE RetryInv OBVIOUS
<1>1. /\ FreshRetry \in Retries /\ FreshRetry.index = 0 /\ FreshRetry.escalations = 0
      /\ FreshRetry.calls = 1
  BY DEF FreshRetry, Retries
<1>2. retry \in [Runs -> Retries] /\ \A r \in Runs : retry[r] = FreshRetry BY <1>1 DEF Init
<1>3. ASSUME NEW r \in Runs PROVE RetryPart(r)
  BY <1>1, <1>2 DEF RetryPart, RunsAssumption
<1> QED BY <1>2, <1>3 DEF RetryInv

-----------------------------------------------------------------------------
\* All of it is inductive together; the limit of the day is one of those it may have.
TaskInv == IInv /\ PatchInv /\ RetryInv /\ limit \in Limits

LEMMA LimitStays == ASSUME [Next]_taskVars PROVE limit' = limit
<1>1. ASSUME NEW r \in Runs, RunStep(r) PROVE limit' = limit
  BY <1>1 DEF RunStep, Prepare, Charge, Triage, Impact, AskPack, AskAgentic, StoreBlob, StoreRow,
     Fail, Commit, quotaVars
<1>2. ASSUME NEW r \in Runs, ContractCommits(r) \/ ReadExpired(r) \/ Crash(r) PROVE limit' = limit
  BY <1>2 DEF ContractCommits, ReadExpired, Crash, Commit, quotaVars
<1>3. ASSUME NEW a \in Actors, ApplyStep(a) PROVE limit' = limit
  BY <1>3 DEF ApplyStep, ApplyLocked, ApplyRefused, ApplyWrites, ApplyBreaks, Reindex, Record,
     quotaVars
<1>4. ASSUME NEW u \in Users, UserStep(u) PROVE limit' = limit
  BY <1>4 DEF UserStep, StartApply, DeleteRow, DeleteBlob, quotaVars
<1>5. CASE UNCHANGED taskVars \/ Settled BY <1>5 DEF Settled, taskVars, quotaVars
<1> QED BY <1>1, <1>2, <1>3, <1>4, <1>5 DEF Next

LEMMA TaskInvAtFirst == ASSUME RunsAssumption, Init PROVE TaskInv
BY InitEstablishes, PatchesAtFirst, RetryAtFirst DEF TaskInv, Init

LEMMA TaskInvKept == ASSUME RunsAssumption, TaskInv, [Next]_taskVars PROVE TaskInv'
BY StepKeeps, PatchStepKeeps, RetryStepKeeps, LimitStays DEF TaskInv

LEMMA TaskInvariant == ASSUME RunsAssumption PROVE Spec => []TaskInv
<1>1. Init => TaskInv BY TaskInvAtFirst
<1>2. TaskInv /\ [Next]_taskVars => TaskInv' BY TaskInvKept
<1> QED BY <1>1, <1>2, PTL DEF Spec

LEMMA TaskInvTypes == TaskInv => TypeOK
BY DEF TaskInv, IInv, Types, DraftTypes, PatchInv, PatchTypes, TypeOK, Steps, Modes, Asked, Rows,
       Statuses

\* Every variable of a run has its type in every state.
THEOREM RunTypes == ASSUME RunsAssumption PROVE Spec => []TypeOK
BY TaskInvariant, TaskInvTypes, PTL

\* The blob of a stored run is there unless an expired read or a crossed delete took
\* it away (storage.py:170, task_service.py:2335).
LEMMA BlobsStay == TaskInv => MissingBlobExplained
<1> SUFFICES ASSUME TaskInv, NEW r \in Runs, row[r].stored, row[r].patch \in Long \ blobs
             PROVE  row[r].patch \in dropped
  BY DEF MissingBlobExplained
<1>1. Needs(r, row[r].patch) BY DEF Needs
<1> QED BY <1>1 DEF TaskInv, PatchInv, BlobsKept

\* A run on record as failed has its patch in the files only while an apply has not
\* recorded its success, or when two tries of the patch crossed (task_service.py:649).
LEMMA FailuresAreHonest == TaskInv => FailureIsHonest
<1> SUFFICES ASSUME TaskInv, NEW r \in Runs, Failed(row[r])
             PROVE  \/ tree[row[r].patch] # "in" \/ row[r].patch \in again
                    \/ \E a \in Actors : applying[a].text = row[r].patch /\ applying[a].step # "lock"
                    \/ \E o \in Runs \ {r} : row[o].patch = row[r].patch
                    \/ crashes > 0
  BY DEF FailureIsHonest, Failed
<1>1. \A a \in Actors : Works(applying[a], row[r].patch) =>
        applying[a].text = row[r].patch /\ applying[a].step # "lock"
  BY DEF Works
<1> QED BY <1>1 DEF TaskInv, PatchInv, FailedHonestly

LEMMA PatchesFit == TaskInv => PatchesExplained
BY BlobsStay, FailuresAreHonest DEF PatchesExplained, TaskInv, PatchInv

\* However users read, apply and delete runs while others store theirs: the blob of a
\* stored run is there, a patch in the files is in the index or its nodes are marked,
\* and a run on record as failed has not changed the files, but in the cases that
\* the definitions name (storage.py:170, task_service.py:573 and 649).
THEOREM PatchesAlwaysExplained == ASSUME RunsAssumption PROVE Spec => []PatchesExplained
<1>1. TaskInv => PatchesExplained BY PatchesFit
<1> QED BY <1>1, TaskInvariant, PTL

LEMMA EscalationsFit == TaskInv /\ RunsAssumption => EscalationsExplained
<1> SUFFICES ASSUME TaskInv, RunsAssumption, NEW r \in Runs
             PROVE  /\ retry[r].escalations > MaxEscalations => retry[r].blank
                    /\ retry[r].escalations <= MaxRetries + 1
                    /\ retry[r].calls <= CallCeiling
  BY DEF EscalationsExplained
<1>1. /\ RetryPart(r) /\ retry[r].index \in Nat /\ retry[r].escalations \in Nat
  BY DEF TaskInv, RetryInv, Retries
<1> QED BY <1>1 DEF RetryPart, RunsAssumption

\* A run escalates within its limit but for missing context that is only blank, never
\* more than once a pass, and never asks for more calls than the server allows
\* (task_service.py:450 and 1640).
THEOREM EscalationsBounded == ASSUME RunsAssumption PROVE Spec => []EscalationsExplained
<1>1. TaskInv => EscalationsExplained BY EscalationsFit
<1> QED BY <1>1, TaskInvariant, PTL
-----------------------------------------------------------------------------
(***************************************************************************)
(* The loop of one agentic run.  Every answer of a tool, whatever it meets, *)
(* shows no file it does not whitelist, and one that is well shows all that *)
(* it whitelists; so a file whitelisted and never shown is held by the      *)
(* cache in an answer that did not fit or was not well.  An answer is cut   *)
(* to what is left of the characters, or is the minimized one.  Until the   *)
(* end the tokens of the levels above and of this one are those spent.      *)
(***************************************************************************)
\* what every answer of a tool is like: it shows no file that it does not whitelist, and an
\* answer that is well shows all it whitelists
Outcome(o) ==
  /\ o = [code |-> o.code, gives |-> o.gives, adds |-> o.adds, size |-> o.size]
  /\ o.size \in Nat \ {0} /\ o.adds \subseteq Files /\ o.gives \subseteq o.adds
  /\ o.code = "ok" => o.gives = o.adds
  /\ o.code = "policy_violation" => o.adds = {}
Fine(S) == \A o \in S : Outcome(o)

LEMMA RecordsFine ==
  ASSUME NEW codes, NEW gives, NEW adds, NEW sizes, sizes \subseteq Nat \ {0},
         gives \subseteq adds, adds \subseteq Files,
         gives = adds \/ "ok" \notin codes, adds = {} \/ "policy_violation" \notin codes
  PROVE  Fine([code : codes, gives : {gives}, adds : {adds}, size : sizes])
<1> SUFFICES ASSUME NEW o \in [code : codes, gives : {gives}, adds : {adds}, size : sizes]
    PROVE Outcome(o)
  BY DEF Fine
<1>1. o.code \in codes /\ o.gives = gives /\ o.adds = adds /\ o.size \in sizes OBVIOUS
<1>2. o = [code |-> o.code, gives |-> o.gives, adds |-> o.adds, size |-> o.size] OBVIOUS
<1> QED BY <1>1, <1>2 DEF Outcome

LEMMA PlainAnswersFine ==
  ASSUME AgenticAssumption
  PROVE  /\ \A codes : \A o \in Err(codes) : Outcome(o)
         /\ \A fs \in SUBSET Files : \A o \in Ok(fs) : Outcome(o)
         /\ \A o \in Answer : Outcome(o)
         /\ \A o \in DbRaises : Outcome(o)
<1>1. ASSUME NEW codes PROVE Fine(Err(codes))
  <2>1. Fine([code : codes, gives : {{}}, adds : {{}}, size : {1}])
    <3> DEFINE sizes == {1}
    <3>1. sizes \subseteq Nat \ {0} OBVIOUS
    <3> HIDE DEF sizes
    <3>2. Fine([code : codes, gives : {{}}, adds : {{}}, size : sizes]) BY <3>1, RecordsFine
    <3> QED BY <3>2 DEF sizes
  <2> QED BY <2>1 DEF Err
<1>2. ASSUME NEW fs \in SUBSET Files PROVE Fine(Ok(fs))
  <2> DEFINE codes == {"ok"}
  <2>1. "policy_violation" \notin codes OBVIOUS
  <2> HIDE DEF codes
  <2>2. Fine([code : codes, gives : {fs}, adds : {fs}, size : Sizes])
    BY <2>1, RecordsFine DEF AgenticAssumption
  <2> QED BY <2>2 DEF Ok, codes
<1>3. Fine(Answer)
  <2> DEFINE codes == {"ok"}
  <2>1. Fine([code : codes, gives : {{}}, adds : {{}}, size : Sizes])
    BY RecordsFine DEF AgenticAssumption
  <2> QED BY <2>1 DEF Answer
<1> QED BY <1>1, <1>2, <1>3 DEF Fine, DbRaises

LEMMA FileToolOutcomes ==
  ASSUME AgenticAssumption, NEW f \in Files, NEW kind
  PROVE  /\ Fine(GetFile(f, kind)) /\ Fine(GetFileLines(f, kind))
         /\ Fine(GetContract(f, kind)) /\ Fine(GetSymbol(f, kind))
         /\ Fine(GetNode(f, kind)) /\ Fine(GetNeighbors(f, kind))
<1>2. Fine(GetFile(f, kind)) /\ Fine(GetFileLines(f, kind))
  BY PlainAnswersFine DEF Fine, GetFile, GetFileLines
<1>3. Fine(GetContract(f, kind))
  BY PlainAnswersFine DEF Fine, GetContract
<1>4. Fine([code: {"no_symbols", "not_found"}, gives: {{}}, adds: {{f}}, size: {1}])
  <2> DEFINE codes == {"no_symbols", "not_found"}
             adds == {f}
             sizes == {1}
  <2>1. /\ "ok" \notin codes /\ "policy_violation" \notin codes
        /\ adds \subseteq Files /\ sizes \subseteq Nat \ {0}
    OBVIOUS
  <2> HIDE DEF codes, adds, sizes
  <2>2. Fine([code : codes, gives : {{}}, adds : {adds}, size : sizes]) BY <2>1, RecordsFine
  <2> QED BY <2>2 DEF codes, adds, sizes
<1>5. Fine(GetSymbol(f, kind)) BY <1>3, <1>4 DEF Fine, GetSymbol
<1>6. Fine(GetNode(f, kind)) /\ Fine(GetNeighbors(f, kind))
  BY PlainAnswersFine DEF Fine, GetNode, GetNeighbors
<1> QED BY <1>2, <1>3, <1>5, <1>6

LEMMA FixToolOutcomes ==
  ASSUME AgenticAssumption, NEW f \in Files, NEW kinds, NEW routes
  PROVE  /\ Fine(CompareApiContract(routes))
         /\ Fine(SuggestContractFix({f}, kinds, routes))
         /\ Fine(SuggestApiFix({f}, kinds, routes))
<1>1. Fine(CompareApiContract(routes))
  BY PlainAnswersFine DEF Fine, CompareApiContract
<1>2. Fine(FixedFiles({f}, kinds)) BY PlainAnswersFine DEF Fine, FixedFiles
<1> QED BY <1>1, <1>2, PlainAnswersFine DEF Fine, SuggestContractFix, SuggestApiFix

LEMMA OtherToolOutcomes ==
  ASSUME AgenticAssumption, NEW found, NEW noFiles
  PROVE  /\ Fine(SearchPaths) /\ Fine(SearchSymbols)
         /\ Fine(SearchTests) /\ Fine(GetTreeOutline)
         /\ Fine(ProjectSummary) /\ Fine(SearchText)
         /\ Fine(SearchSemantic(found, noFiles))
         /\ Fine(SearchRoutes) /\ Fine(SearchApiCalls)
         /\ Fine(RouteUsages) /\ Fine(SuggestEndpointLocation)
         /\ Fine(SuggestFrontendClient) /\ Fine(ImpactRouteChange)
         /\ Fine(ApiCoverageSummary) /\ Fine(UnmatchedRoutes)
         /\ Fine(UnmatchedCalls)
<1>1. Fine(CheckIndexed) BY PlainAnswersFine DEF Fine, CheckIndexed
<1>2. /\ Fine(SearchPaths) /\ Fine(SearchSymbols)
      /\ Fine(SearchTests) /\ Fine(GetTreeOutline)
      /\ Fine(ProjectSummary) /\ Fine(SearchText)
  BY <1>1, PlainAnswersFine
     DEF Fine, SearchPaths, SearchSymbols, SearchTests, GetTreeOutline, ProjectSummary, SearchText
<1>3. Fine(SearchSemantic(found, noFiles))
  BY <1>1, PlainAnswersFine DEF Fine, SearchSemantic, SemanticFallback
<1>4. /\ Fine(SearchRoutes) /\ Fine(SearchApiCalls)
      /\ Fine(RouteUsages) /\ Fine(SuggestEndpointLocation)
      /\ Fine(SuggestFrontendClient) /\ Fine(ImpactRouteChange)
  BY PlainAnswersFine
     DEF Fine, SearchRoutes, SearchApiCalls, RouteUsages, SuggestEndpointLocation,
         SuggestFrontendClient, ImpactRouteChange
<1>5. /\ Fine(ApiCoverageSummary) /\ Fine(UnmatchedRoutes)
      /\ Fine(UnmatchedCalls)
  BY PlainAnswersFine
     DEF Fine, ApiCoverageSummary, UnmatchedRoutes, UnmatchedCalls
<1> QED BY <1>2, <1>3, <1>4, <1>5

LEMMA DispatchOutcomes ==
  ASSUME AgenticAssumption, NEW name, NEW f, NEW arg,
         name \in FileTools \cup FixTools => f \in Files
  PROVE  Fine(Dispatch(name, f, arg))
<1>1. Fine(ToolOutcomes(name, f, World))
  <2>1. CASE name \in FileTools
    BY <2>1, FileToolOutcomes DEF ToolOutcomes, FileTools
  <2>2. CASE name \in FixTools
    BY <2>2, FixToolOutcomes DEF ToolOutcomes, FixTools
  <2>3. CASE name \notin FileTools \cup FixTools
    <3>1. Fine(Err({"unknown_tool"})) BY PlainAnswersFine DEF Fine
    <3> QED BY <2>3, <3>1, OtherToolOutcomes DEF ToolOutcomes, FileTools, FixTools
  <2> QED BY <2>1, <2>2, <2>3
<1>2. Fine([code : {"ok"}, gives : {{}}, adds : {{}}, size : {1}])
  <2> DEFINE codes == {"ok"}
             sizes == {1}
  <2>1. sizes \subseteq Nat \ {0} OBVIOUS
  <2> HIDE DEF codes, sizes
  <2>2. Fine([code : codes, gives : {{}}, adds : {{}}, size : sizes]) BY <2>1, RecordsFine
  <2> QED BY <2>2 DEF codes, sizes
<1>3. Fine(Err({"bad_args"})) /\ Fine(Err({"policy_violation"}))
  BY PlainAnswersFine DEF Fine
<1> QED BY <1>1, <1>2, <1>3 DEF Dispatch, Fine

Metas == [loaded : SUBSET Files, calls : Nat, chars : Nat, planned : BOOLEAN,
          searched : BOOLEAN, tokens : Nat, ok : {"none", "ok", "refused"}]
LoopTypes ==
  /\ meta \in Metas /\ prior \in Nat /\ spent \in Nat
  /\ \A k \in DOMAIN cache : Outcome(cache[k])
\* the tokens of all levels, before they are merged
TokensSoFar == pc \notin {"done", "failed"} => meta.tokens + prior = spent
\* a file that was whitelisted and not shown: its answer is kept, and did not fit
NotShown(f) ==
  \E k \in DOMAIN cache : /\ f \in cache[k].adds
                          /\ cache[k].size > Budget - meta.chars \/ cache[k].code # "ok"
Unshown == \A f \in meta.loaded \ shown : NotShown(f)
LoopInv == LoopTypes /\ WithinBudget /\ TokensKept /\ TokensSoFar /\ ShownIsAllowed /\ Unshown

LEMMA LoopInitEstablishes == AgenticAssumption /\ LoopInit => LoopInv
<1> SUFFICES ASSUME AgenticAssumption, LoopInit PROVE LoopInv OBVIOUS
<1>1. /\ NewMeta \in Metas /\ NewMeta.calls = 0 /\ NewMeta.chars = 0 /\ NewMeta.tokens = 0
      /\ NewMeta.loaded = {}
  BY DEF NewMeta, Metas
<1>2. LoopTypes BY <1>1 DEF LoopInit, LoopTypes
<1>3. WithinBudget /\ TokensKept /\ TokensSoFar /\ ShownIsAllowed /\ Unshown
  BY <1>1 DEF LoopInit, AgenticAssumption, WithinBudget, TokensKept, TokensSoFar, ShownIsAllowed,
              Unshown
<1> QED BY <1>2, <1>3 DEF LoopInv

\* A step that gives no answer of a tool and stays in its level.
LEMMA SameLevelKeeps ==
  ASSUME LoopInv, meta' \in Metas, meta'.loaded = meta.loaded, meta'.chars = meta.chars,
         UNCHANGED <<cache, shown, shownHere, prior>>, spent' \in Nat,
         pc' # "failed" => meta'.calls <= MaxCalls,
         pc' = "done" => meta'.tokens = spent',
         pc' \notin {"done", "failed"} => meta'.tokens + prior = spent'
  PROVE  LoopInv'
<1>1. LoopTypes' BY DEF LoopInv, LoopTypes
<1>2. Unshown' BY DEF LoopInv, Unshown, NotShown
<1>3. WithinBudget' /\ TokensKept' /\ TokensSoFar' /\ ShownIsAllowed'
  BY DEF LoopInv, WithinBudget, TokensKept, TokensSoFar, ShownIsAllowed
<1> QED BY <1>1, <1>2, <1>3 DEF LoopInv

LEMMA TalkKeeps ==
  ASSUME AgenticAssumption, LoopInv,
         \/ SeedContext \/ ModelFails \/ ModelCalls \/ GoodResult \/ SelfCheckOver
         \/ CallLimit \/ BudgetExhausted
  PROVE  LoopInv'
<1>t. /\ meta \in Metas /\ prior \in Nat /\ spent \in Nat /\ MaxCalls \in Nat
      /\ pc # "failed" => meta.calls <= MaxCalls
      /\ pc \notin {"done", "failed"} => meta.tokens + prior = spent
  BY DEF LoopInv, LoopTypes, AgenticAssumption, WithinBudget, TokensSoFar
<1>1. CASE SeedContext
  BY <1>1, <1>t, SameLevelKeeps DEF SeedContext, End
<1>2. CASE ModelFails
  BY <1>2, <1>t, SameLevelKeeps DEF ModelFails, End
<1>3. CASE ModelCalls \/ GoodResult
  <2>1. /\ meta' = [meta EXCEPT !.tokens = @ + 1] /\ spent' = spent + 1
        /\ pc = "model" /\ pc' \in {"calls", "check"}
        /\ UNCHANGED <<cache, shown, shownHere, prior>>
    BY <1>3 DEF ModelCalls, GoodResult, Answered
  <2>2. /\ meta' \in Metas /\ meta'.loaded = meta.loaded /\ meta'.chars = meta.chars
        /\ meta'.calls = meta.calls /\ meta'.tokens = meta.tokens + 1
    BY <2>1, <1>t DEF Metas
  <2> QED BY <2>1, <2>2, <1>t, SameLevelKeeps DEF Metas
<1>4. CASE SelfCheckOver
  <2>1. PICK verdict \in {"none", "ok", "refused"} :
          meta' = [[meta EXCEPT !.tokens = @ + prior] EXCEPT !.ok = verdict]
    BY <1>4 DEF SelfCheckOver, Merged
  <2> DEFINE m == [meta EXCEPT !.tokens = @ + prior]
  <2>m. /\ m \in Metas /\ m.loaded = meta.loaded /\ m.chars = meta.chars
        /\ m.calls = meta.calls /\ m.tokens = meta.tokens + prior
    BY <1>t DEF Metas
  <2>n. meta' = [m EXCEPT !.ok = verdict] BY <2>1
  <2> HIDE DEF m
  <2>2. /\ meta' \in Metas /\ meta'.loaded = meta.loaded /\ meta'.chars = meta.chars
        /\ meta'.calls = meta.calls /\ meta'.tokens = meta.tokens + prior
    BY <2>m, <2>n, <2>1 DEF Metas
  <2>3. /\ pc = "check" /\ pc' = "done" /\ UNCHANGED <<cache, shown, shownHere, prior, spent>>
    BY <1>4 DEF SelfCheckOver, End
  <2> QED BY <2>2, <2>3, <1>t, SameLevelKeeps
<1>5. CASE CallLimit
  <2>1. /\ meta' = [meta EXCEPT !.calls = @ + 1] /\ pc' = "failed"
        /\ UNCHANGED <<cache, shown, shownHere, prior, spent>>
    BY <1>5 DEF CallLimit, End
  <2>2. meta' \in Metas /\ meta'.loaded = meta.loaded /\ meta'.chars = meta.chars
    BY <2>1, <1>t DEF Metas
  <2> QED BY <2>1, <2>2, <1>t, SameLevelKeeps
<1>6. CASE BudgetExhausted
  <2>1. /\ meta' = [meta EXCEPT !.calls = @ + 1] /\ pc = "calls" /\ pc' = "model"
        /\ meta.calls < MaxCalls /\ UNCHANGED <<cache, shown, shownHere, prior, spent>>
    BY <1>6 DEF BudgetExhausted
  <2>2. /\ meta' \in Metas /\ meta'.loaded = meta.loaded /\ meta'.chars = meta.chars
        /\ meta'.calls = meta.calls + 1 /\ meta'.tokens = meta.tokens
    BY <2>1, <1>t DEF Metas
  <2> QED BY <2>1, <2>2, <1>t, SameLevelKeeps DEF Metas
<1> QED BY <1>1, <1>2, <1>3, <1>4, <1>5, <1>6

\* A nested call begins with a new record, and the tokens of the level it is asked by are
\* not forgotten.
LEMMA NestedKeeps ==
  ASSUME AgenticAssumption, LoopInv, NEW flags, NEW tokens \in Nat, Nested(flags, tokens),
         spent' \in Nat, prior + tokens = spent'
  PROVE  LoopInv'
<1>1. /\ NewMeta \in Metas /\ NewMeta.calls = 0 /\ NewMeta.chars = 0 /\ NewMeta.tokens = 0
      /\ NewMeta.loaded = {}
  BY DEF NewMeta, Metas
<1>2. /\ meta' = NewMeta /\ prior' = prior + tokens /\ shownHere' = {} /\ pc' = "model"
      /\ UNCHANGED <<cache, shown>>
  BY DEF Nested
<1>3. LoopTypes' BY <1>1, <1>2 DEF LoopInv, LoopTypes
<1>4. WithinBudget' /\ TokensKept' /\ TokensSoFar' /\ ShownIsAllowed' /\ Unshown'
  BY <1>1, <1>2 DEF LoopInv, LoopTypes, AgenticAssumption, WithinBudget, TokensKept, TokensSoFar,
                    ShownIsAllowed, Unshown
<1> QED BY <1>3, <1>4 DEF LoopInv

LEMMA AskAnewKeeps ==
  ASSUME AgenticAssumption, LoopInv, BadSources \/ SelfCheckRetried
  PROVE  LoopInv'
<1>t. /\ meta \in Metas /\ prior \in Nat /\ spent \in Nat /\ MaxCalls \in Nat
      /\ pc \notin {"done", "failed"} => meta.tokens + prior = spent
  BY DEF LoopInv, LoopTypes, AgenticAssumption, TokensSoFar
<1>n. meta.tokens \in Nat BY <1>t DEF Metas
<1>1. CASE SelfCheckRetried
  <2>1. pc = "check" /\ spent' = spent BY <1>1 DEF SelfCheckRetried
  <2> DEFINE flags == [allow EXCEPT !.self = FALSE]
  <2>2. Nested(flags, meta.tokens) BY <1>1 DEF SelfCheckRetried
  <2>3. spent' \in Nat /\ prior + meta.tokens = spent' BY <2>1, <1>t, <1>n
  <2> HIDE DEF flags
  <2> QED BY <2>2, <2>3, <1>n, NestedKeeps
<1>2. CASE BadSources /\ allow.evidence
  <2>1. pc = "model" /\ spent' = spent + 1 BY <1>2 DEF BadSources
  <2> DEFINE flags == [self |-> FALSE, evidence |-> FALSE]
  <2>2. Nested(flags, meta.tokens + 1) BY <1>2 DEF BadSources
  <2>3. /\ meta.tokens + 1 \in Nat /\ spent' \in Nat
        /\ prior + (meta.tokens + 1) = spent'
    BY <2>1, <1>t, <1>n
  <2> HIDE DEF flags
  <2> QED BY <2>2, <2>3, NestedKeeps
<1>3. CASE BadSources /\ ~allow.evidence
  <2>1. /\ meta' = [meta EXCEPT !.tokens = @ + 1] /\ pc' = "failed" /\ spent' = spent + 1
        /\ UNCHANGED <<cache, shown, shownHere, prior>>
    BY <1>3 DEF BadSources, End
  <2>2. meta' \in Metas /\ meta'.loaded = meta.loaded /\ meta'.chars = meta.chars
    BY <2>1, <1>t DEF Metas
  <2> QED BY <2>1, <2>2, <1>t, SameLevelKeeps
<1> QED BY <1>1, <1>2, <1>3

\* What is cut fits, or is the minimized answer; what is cut to nothing did not fit.
LEMMA CutFits ==
  ASSUME AgenticAssumption, LoopInv, NEW name, NEW out, Outcome(out), NEW cut \in Cut(name, out),
         Remaining > 0
  PROVE  /\ meta.chars < Budget
         /\ cut.size \in Nat /\ (cut.size <= Budget - meta.chars \/ cut.size = Minimized)
         /\ cut.gives = out.gives \/ (cut.gives = {} /\ out.size > Budget - meta.chars)
<1>1. /\ meta.chars \in Nat /\ Budget \in Nat /\ Minimized \in Nat
  BY DEF LoopInv, LoopTypes, Metas, AgenticAssumption
<1>2. meta.chars < Budget /\ Remaining = Budget - meta.chars /\ Remaining \in Nat
  BY <1>1 DEF Remaining
<1>3. /\ out = [code |-> out.code, gives |-> out.gives, adds |-> out.adds, size |-> out.size]
      /\ out.size \in Nat
  BY DEF Outcome
<1>4. CASE out.size <= Remaining
  BY <1>1, <1>2, <1>3, <1>4 DEF Cut
<1>5. CASE ~(out.size <= Remaining)
  <2>1. CASE cut = [code |-> "truncated", gives |-> {}, adds |-> {}, size |-> Minimized]
    BY <2>1, <1>1, <1>2, <1>3, <1>5
  <2>2. CASE \E n \in 1..Remaining : cut = [out EXCEPT !.size = n]
    <3>1. PICK n \in 1..Remaining : cut = [out EXCEPT !.size = n] BY <2>2
    <3>2. cut.size = n /\ cut.gives = out.gives BY <3>1, <1>3
    <3> QED BY <3>2, <1>1, <1>2
  <2> QED BY <2>1, <2>2, <1>5 DEF Cut
<1> QED BY <1>4, <1>5

\* The record, the files shown and the tokens after an answer from a tool or the cache.
LEMMA DeliverKeeps ==
  ASSUME AgenticAssumption, LoopInv, NEW name, NEW out, Outcome(out), NEW cut \in Cut(name, out),
         NEW hit \in BOOLEAN, Remaining > 0, pc = "calls", meta.calls < MaxCalls,
         Deliver(name, out, cut, hit)
  PROVE  /\ meta' \in Metas /\ prior' \in Nat /\ spent' \in Nat
         /\ WithinBudget' /\ TokensKept' /\ TokensSoFar' /\ ShownIsAllowed'
         /\ meta'.chars >= meta.chars /\ shown \subseteq shown'
         /\ meta'.loaded = IF hit THEN meta.loaded ELSE meta.loaded \cup out.adds
         /\ ~hit => \A f \in out.adds \ shown' :
                      out.size > Budget - meta'.chars \/ out.code # "ok"
<1>t. /\ meta \in Metas /\ prior \in Nat /\ spent \in Nat /\ MaxCalls \in Nat /\ Budget \in Nat
      /\ Minimized \in Nat \ {0} /\ meta.tokens + prior = spent /\ shownHere \subseteq meta.loaded
  BY DEF LoopInv, LoopTypes, AgenticAssumption, TokensSoFar, ShownIsAllowed
<1>o. out.adds \subseteq Files /\ out.gives \subseteq out.adds /\ out.size \in Nat
      /\ (out.code = "ok" => out.gives = out.adds)
  BY DEF Outcome
<1>c. /\ meta.chars < Budget
      /\ cut.size \in Nat /\ (cut.size <= Budget - meta.chars \/ cut.size = Minimized)
      /\ cut.gives = out.gives \/ (cut.gives = {} /\ out.size > Budget - meta.chars)
  BY CutFits
<1>n. meta.chars \in Nat /\ meta.calls \in Nat /\ meta.tokens \in Nat /\ meta.loaded \subseteq Files
  BY <1>t DEF Metas
<1> DEFINE P == meta.planned \/ (name = "plan_retrieval" /\ (cut.code = "ok" \/ (~hit /\ out.code = "ok")))
           S == meta.searched \/ (name \in SearchTools /\ cut.code = "ok")
           L == IF hit THEN meta.loaded ELSE meta.loaded \cup out.adds
<1>1. /\ meta' = [meta EXCEPT !.calls = meta.calls + 1, !.chars = meta.chars + cut.size,
                              !.loaded = L, !.planned = P, !.searched = S]
      /\ shown' = shown \cup cut.gives
      /\ shownHere' = shownHere \cup (IF hit THEN {} ELSE cut.gives)
      /\ pc' \in {"model", "calls"} /\ UNCHANGED <<prior, spent>>
  BY DEF Deliver
<1>b. P \in BOOLEAN /\ S \in BOOLEAN BY <1>t DEF Metas
<1>l. L \subseteq Files /\ meta.loaded \subseteq L BY <1>n, <1>o
<1> HIDE DEF P, S
<1>2. /\ meta' \in Metas /\ meta'.calls = meta.calls + 1 /\ meta'.chars = meta.chars + cut.size
      /\ meta'.loaded = L /\ meta'.tokens = meta.tokens
  <2> HIDE DEF L
  <2>1. meta.chars + cut.size \in Nat /\ meta.calls + 1 \in Nat BY <1>n, <1>c
  <2> QED BY <2>1, <1>1, <1>b, <1>l, <1>t DEF Metas
<1>3. WithinBudget' BY <1>2, <1>1, <1>c, <1>n, <1>t DEF WithinBudget
<1>4. TokensKept' /\ TokensSoFar' BY <1>1, <1>2, <1>t DEF TokensKept, TokensSoFar
<1>5. ShownIsAllowed' BY <1>1, <1>2, <1>t, <1>c, <1>o, <1>l DEF ShownIsAllowed
<1>6. ASSUME ~hit, NEW f \in out.adds \ shown'
      PROVE  out.size > Budget - meta'.chars \/ out.code # "ok"
  <2>1. f \notin cut.gives BY <1>1, <1>6
  <2> QED BY <2>1, <1>c, <1>o, <1>2, <1>n, <1>t, <1>6
<1> QED BY <1>1, <1>2, <1>3, <1>4, <1>5, <1>6, <1>c, <1>n, <1>t

LEMMA CallKeeps ==
  ASSUME AgenticAssumption, LoopInv, Call
  PROVE  LoopInv'
<1>0. PICK name \in Offered \cup {"plan_retrieval"}, arg \in ArgShapes :
        \E g \in (IF name \in FileTools \cup FixTools THEN Files ELSE {CHOOSE h \in Files : TRUE}) :
          CachedCall(name, g, arg) \/ ToolCall(name, g, arg) \/ ToolRaises(name, g, arg)
  BY DEF Call
<1>1. PICK f \in (IF name \in FileTools \cup FixTools THEN Files ELSE {CHOOSE h \in Files : TRUE}) :
        CachedCall(name, f, arg) \/ ToolCall(name, f, arg) \/ ToolRaises(name, f, arg)
  BY <1>0
<1> DEFINE key == CacheKey(name, f, arg)
<1>f. name \in FileTools \cup FixTools => f \in Files BY <1>1
<1>t. \A k \in DOMAIN cache : Outcome(cache[k]) BY DEF LoopInv, LoopTypes
<1>2. CASE CachedCall(name, f, arg)
  <2>1. PICK cut \in Cut(name, cache[key]) : Deliver(name, cache[key], cut, TRUE)
    BY <1>2 DEF CachedCall
  <2>2. /\ pc = "calls" /\ meta.calls < MaxCalls /\ Remaining > 0 /\ key \in DOMAIN cache
        /\ cache' = cache
    BY <1>2 DEF CachedCall
  <2>3. Outcome(cache[key]) BY <2>2, <1>t
  <2>4. /\ meta' \in Metas /\ prior' \in Nat /\ spent' \in Nat
        /\ WithinBudget' /\ TokensKept' /\ TokensSoFar' /\ ShownIsAllowed'
        /\ meta'.chars >= meta.chars /\ shown \subseteq shown' /\ meta'.loaded = meta.loaded
    BY <2>1, <2>2, <2>3, DeliverKeeps
  <2>5. LoopTypes' BY <2>4, <2>2, <1>t DEF LoopTypes
  <2>6. Unshown'
    <3> SUFFICES ASSUME NEW g \in meta.loaded, g \notin shown, NotShown(g) PROVE NotShown(g)'
      BY <2>4 DEF LoopInv, Unshown
    <3> QED BY <2>2, <2>4, <1>t DEF NotShown, Metas, LoopInv, LoopTypes, Outcome, AgenticAssumption
  <2> QED BY <2>4, <2>5, <2>6 DEF LoopInv
<1>3. CASE ToolCall(name, f, arg)
  <2>1. PICK out \in Dispatch(name, f, arg) :
          /\ \E cut \in Cut(name, out) : Deliver(name, out, cut, FALSE)
          /\ cache' = IF out.code = "policy_violation" THEN cache ELSE CacheWith(key, out)
    BY <1>3 DEF ToolCall
  <2>2. PICK cut \in Cut(name, out) : Deliver(name, out, cut, FALSE) BY <2>1
  <2>3. /\ pc = "calls" /\ meta.calls < MaxCalls /\ Remaining > 0 /\ key \notin DOMAIN cache
    BY <1>3 DEF ToolCall
  <2>4. Outcome(out) BY <2>1, <1>f, DispatchOutcomes DEF Fine
  <2>5. /\ meta' \in Metas /\ prior' \in Nat /\ spent' \in Nat
        /\ WithinBudget' /\ TokensKept' /\ TokensSoFar' /\ ShownIsAllowed'
        /\ meta'.chars >= meta.chars /\ shown \subseteq shown'
        /\ meta'.loaded = meta.loaded \cup out.adds
        /\ \A g \in out.adds \ shown' : out.size > Budget - meta'.chars \/ out.code # "ok"
    BY <2>2, <2>3, <2>4, DeliverKeeps
  <2>6. /\ \A k \in DOMAIN cache : k \in DOMAIN cache' /\ cache'[k] = cache[k]
        /\ \A k \in DOMAIN cache' : Outcome(cache'[k])
        /\ out.adds # {} => key \in DOMAIN cache' /\ cache'[key] = out
    <3> HIDE DEF key
    <3>1. CASE out.code = "policy_violation" BY <3>1, <2>1, <2>4, <1>t DEF Outcome
    <3>2. CASE out.code # "policy_violation" BY <3>2, <2>1, <2>3, <2>4, <1>t DEF CacheWith
    <3> QED BY <3>1, <3>2
  <2>7. LoopTypes' BY <2>5, <2>6 DEF LoopTypes
  <2>8. Unshown'
    <3> SUFFICES ASSUME NEW g \in meta.loaded \cup out.adds, g \notin shown' PROVE NotShown(g)'
      BY <2>5 DEF Unshown
    <3>1. CASE g \in out.adds
      <4> HIDE DEF key
      <4> QED BY <3>1, <2>5, <2>6 DEF NotShown
    <3>2. CASE g \in meta.loaded
      <4>1. NotShown(g) BY <3>2, <2>5 DEF LoopInv, Unshown
      <4>2. PICK k \in DOMAIN cache : /\ g \in cache[k].adds
                                      /\ cache[k].size > Budget - meta.chars \/ cache[k].code # "ok"
        BY <4>1 DEF NotShown
      <4>3. cache[k].size \in Nat /\ meta.chars \in Nat /\ meta'.chars \in Nat /\ Budget \in Nat
        BY <1>t, <2>5 DEF Outcome, LoopInv, LoopTypes, Metas, AgenticAssumption
      <4>4. cache[k].size > Budget - meta.chars => cache[k].size > Budget - meta'.chars
        BY <4>3, <2>5
      <4> QED BY <4>2, <4>4, <2>6 DEF NotShown
    <3> QED BY <3>1, <3>2
  <2> QED BY <2>5, <2>7, <2>8 DEF LoopInv
<1>4. CASE ToolRaises(name, f, arg)
  <2>1. /\ meta' = [meta EXCEPT !.calls = @ + 1] /\ pc' = "failed"
        /\ UNCHANGED <<cache, shown, shownHere, prior, spent>>
    BY <1>4 DEF ToolRaises, End
  <2>2. meta' \in Metas /\ meta'.loaded = meta.loaded /\ meta'.chars = meta.chars
    BY <2>1 DEF Metas, LoopInv, LoopTypes
  <2> QED BY <2>1, <2>2, SameLevelKeeps DEF LoopInv, LoopTypes
<1> QED BY <1>1, <1>2, <1>3, <1>4

LEMMA LoopStepKeeps == AgenticAssumption /\ LoopInv /\ [LoopNext]_loopVars => LoopInv'
<1> SUFFICES ASSUME AgenticAssumption, LoopInv, [LoopNext]_loopVars PROVE LoopInv' OBVIOUS
<1>1. CASE UNCHANGED loopVars
  BY <1>1 DEF loopVars, LoopInv, LoopTypes, WithinBudget, TokensKept, TokensSoFar, ShownIsAllowed,
              Unshown, NotShown, Remaining
<1>2. CASE LoopNext
  BY <1>1, <1>2, TalkKeeps, AskAnewKeeps, CallKeeps DEF LoopNext, LoopOver
<1> QED BY <1>1, <1>2

LEMMA LoopFits == LoopInv => LoopExplained
BY DEF LoopInv, Unshown, NotShown, AllowedWasShown, LoopExplained

\* For any files, tools, worlds and limits the loop keeps within its calls and characters,
\* loses no token of a level it has given up, and whitelists what it has shown and nothing
\* else, but for answers that did not fit and symbols that were not found.
THEOREM LoopAlwaysExplained == ASSUME AgenticAssumption PROVE LoopSpec => []LoopExplained
<1>1. LoopInit => LoopInv BY LoopInitEstablishes
<1>2. LoopInv /\ [LoopNext]_loopVars => LoopInv' BY LoopStepKeeps
<1>3. LoopInv => LoopExplained BY LoopFits
<1> QED BY <1>1, <1>2, <1>3, PTL DEF LoopSpec

\* a level uses up one of the two retries that may be asked for
RetriesLeft == (IF allow.self THEN 1 ELSE 0) + (IF allow.evidence THEN 1 ELSE 0)
LevelFits == AgenticTypeOK /\ level + RetriesLeft <= 2

LEMMA LevelStays ==
  ASSUME AgenticAssumption, LevelFits, UNCHANGED <<level, allow, shown, shownHere>>,
         pc' \in {"seed", "model", "calls", "check", "done", "failed"}, left' \in 0..MaxBatch,
         meta'.loaded \subseteq Files, meta'.calls \in 0..(MaxCalls + 1)
  PROVE  LevelFits'
BY DEF LevelFits, AgenticTypeOK, RetriesLeft

LEMMA TalkFits ==
  ASSUME AgenticAssumption, LoopInv, LevelFits,
         \/ SeedContext \/ ModelFails \/ ModelCalls \/ GoodResult \/ SelfCheckOver
         \/ CallLimit \/ BudgetExhausted \/ LoopOver
         \/ BadSources /\ ~allow.evidence
         \/ pc = "calls" /\ meta.calls < MaxCalls /\ End("tool_error")
            /\ meta' = [meta EXCEPT !.calls = @ + 1]
            /\ UNCHANGED <<level, allow, left, shown, shownHere>>
  PROVE  LevelFits'
<1>1. /\ meta \in Metas /\ MaxCalls \in Nat /\ MaxBatch \in Nat /\ prior \in Nat
      /\ left \in 0..MaxBatch /\ meta.loaded \subseteq Files /\ meta.calls \in 0..(MaxCalls + 1)
      /\ pc \in {"seed", "model", "calls", "check", "done", "failed"}
      /\ pc # "failed" => meta.calls <= MaxCalls
  BY DEF LoopInv, LoopTypes, WithinBudget, AgenticAssumption, LevelFits, AgenticTypeOK
<1>2. UNCHANGED <<level, allow, shown, shownHere>>
  BY DEF SeedContext, ModelFails, ModelCalls, GoodResult, SelfCheckOver, CallLimit,
         BudgetExhausted, LoopOver, loopVars, BadSources
<1>3. pc' \in {"seed", "model", "calls", "check", "done", "failed"} /\ left' \in 0..MaxBatch
  BY <1>1 DEF SeedContext, ModelFails, ModelCalls, GoodResult, SelfCheckOver, CallLimit,
         BudgetExhausted, LoopOver, loopVars, BadSources, End
<1>4. \/ meta' = meta
      \/ meta' = [meta EXCEPT !.tokens = @ + 1]
      \/ \E verdict : meta' = [Merged(meta) EXCEPT !.ok = verdict]
      \/ pc # "failed" /\ meta' = [meta EXCEPT !.calls = @ + 1]
  BY DEF SeedContext, ModelFails, ModelCalls, GoodResult, Answered, SelfCheckOver, CallLimit,
         BudgetExhausted, LoopOver, loopVars, BadSources
<1>5. meta'.loaded = meta.loaded /\ (meta'.calls = meta.calls \/ (pc # "failed" /\ meta'.calls = meta.calls + 1))
  <2>1. ASSUME NEW verdict, meta' = [Merged(meta) EXCEPT !.ok = verdict]
        PROVE  meta'.loaded = meta.loaded /\ meta'.calls = meta.calls
    <3> DEFINE m == Merged(meta)
    <3>1. m = [meta EXCEPT !.tokens = meta.tokens + prior] BY DEF Merged
    <3>2. /\ m = [loaded |-> m.loaded, calls |-> m.calls, chars |-> m.chars, planned |-> m.planned,
                  searched |-> m.searched, tokens |-> m.tokens, ok |-> m.ok]
          /\ m.loaded = meta.loaded /\ m.calls = meta.calls
      <4> HIDE DEF m
      <4> QED BY <3>1, <1>1 DEF Metas
    <3> HIDE DEF m
    <3> QED BY <2>1, <3>2 DEF m
  <2>2. CASE meta' = [meta EXCEPT !.tokens = @ + 1] BY <2>2, <1>1 DEF Metas
  <2>3. CASE pc # "failed" /\ meta' = [meta EXCEPT !.calls = @ + 1] BY <2>3, <1>1 DEF Metas
  <2> QED BY <1>4, <2>1, <2>2, <2>3
<1>6. meta'.calls \in 0..(MaxCalls + 1) BY <1>1, <1>5
<1> QED BY <1>1, <1>2, <1>3, <1>5, <1>6, LevelStays

LEMMA NestedFits ==
  ASSUME AgenticAssumption, LevelFits,
         \/ BadSources /\ allow.evidence
         \/ SelfCheckRetried
  PROVE  LevelFits'
<1>1. /\ level \in Nat /\ allow \in [self : BOOLEAN, evidence : BOOLEAN] /\ left \in 0..MaxBatch
      /\ level + RetriesLeft <= 2 /\ shown \subseteq Files
  BY DEF LevelFits, AgenticTypeOK
<1>2. PICK flags, tokens : /\ Nested(flags, tokens)
                           /\ \/ allow.evidence /\ flags = [self |-> FALSE, evidence |-> FALSE]
                              \/ allow.self /\ flags = [allow EXCEPT !.self = FALSE]
  BY DEF BadSources, SelfCheckRetried
<1>3. /\ level' = level + 1 /\ allow' = flags /\ meta' = NewMeta /\ shownHere' = {}
      /\ pc' = "model" /\ UNCHANGED <<left, shown>>
  BY <1>2 DEF Nested
<1>4. allow' \in [self : BOOLEAN, evidence : BOOLEAN]
  <2>1. CASE flags = [self |-> FALSE, evidence |-> FALSE] BY <1>3, <2>1
  <2>2. CASE flags = [allow EXCEPT !.self = FALSE] BY <1>1, <1>3, <2>2
  <2> QED BY <1>2, <2>1, <2>2
<1>5. level' \in 0..2 /\ level' + RetriesLeft' <= 2
  <2>1. CASE allow.evidence /\ flags = [self |-> FALSE, evidence |-> FALSE]
    <3>1. ~allow'.self /\ ~allow'.evidence BY <1>3, <2>1
    <3>2. RetriesLeft' = 0 BY <3>1 DEF RetriesLeft
    <3>3. RetriesLeft \in {1, 2} BY <2>1 DEF RetriesLeft
    <3> QED BY <1>1, <1>3, <3>2, <3>3
  <2>2. CASE allow.self /\ flags = [allow EXCEPT !.self = FALSE]
    <3>1. ~allow'.self /\ allow'.evidence = allow.evidence BY <1>1, <1>3, <2>2
    <3>2. CASE allow.evidence
      <4>1. RetriesLeft' = 1 /\ RetriesLeft = 2 BY <2>2, <3>1, <3>2 DEF RetriesLeft
      <4> QED BY <1>1, <1>3, <4>1
    <3>3. CASE ~allow.evidence
      <4>1. RetriesLeft' = 0 /\ RetriesLeft = 1 BY <2>2, <3>1, <3>3 DEF RetriesLeft
      <4> QED BY <1>1, <1>3, <4>1
    <3> QED BY <3>2, <3>3
  <2> QED BY <1>2, <2>1, <2>2
<1>6. meta'.loaded = {} /\ meta'.calls = 0 BY <1>3 DEF NewMeta
<1>7. MaxCalls \in Nat BY DEF AgenticAssumption
<1> QED BY <1>1, <1>3, <1>4, <1>5, <1>6, <1>7 DEF LevelFits, AgenticTypeOK

LEMMA AnswerFits ==
  ASSUME AgenticAssumption, LoopInv, LevelFits, NEW name, NEW out, Outcome(out),
         NEW cut \in Cut(name, out), NEW hit \in BOOLEAN, Remaining > 0,
         pc = "calls", left > 0, meta.calls < MaxCalls, Deliver(name, out, cut, hit)
  PROVE  LevelFits'
<1>1. /\ meta \in Metas /\ MaxCalls \in Nat /\ MaxBatch \in Nat /\ left \in 0..MaxBatch
      /\ shown \subseteq Files /\ shownHere \subseteq shown
  BY DEF LoopInv, LoopTypes, AgenticAssumption, LevelFits, AgenticTypeOK
<1>2. out.adds \subseteq Files /\ out.gives \subseteq out.adds BY DEF Outcome
<1>3. cut.gives \subseteq Files BY <1>2, CutFits
<1>4. /\ meta' \in Metas /\ WithinBudget' BY DeliverKeeps
<1>5. /\ shown' = shown \cup cut.gives
      /\ shownHere' = shownHere \cup (IF hit THEN {} ELSE cut.gives)
      /\ left' = left - 1 /\ pc' \in {"model", "calls"} /\ UNCHANGED <<level, allow>>
  BY DEF Deliver
<1>6. shown' \subseteq Files /\ shownHere' \subseteq shown' BY <1>1, <1>3, <1>5
<1>7. left' \in 0..MaxBatch BY <1>1, <1>5
<1>8. meta'.loaded \subseteq Files /\ meta'.calls \in Nat /\ meta'.calls <= MaxCalls
  BY <1>4, <1>5 DEF Metas, WithinBudget
<1>9. meta'.calls \in 0..(MaxCalls + 1) BY <1>1, <1>8
<1> QED BY <1>5, <1>6, <1>7, <1>8, <1>9 DEF LevelFits, AgenticTypeOK, RetriesLeft

LEMMA CallFits ==
  ASSUME AgenticAssumption, LoopInv, LevelFits, Call
  PROVE  LevelFits'
<1>0. PICK name \in Offered \cup {"plan_retrieval"}, arg \in ArgShapes :
        \E g \in (IF name \in FileTools \cup FixTools THEN Files ELSE {CHOOSE h \in Files : TRUE}) :
          CachedCall(name, g, arg) \/ ToolCall(name, g, arg) \/ ToolRaises(name, g, arg)
  BY DEF Call
<1>1. PICK f \in (IF name \in FileTools \cup FixTools THEN Files ELSE {CHOOSE h \in Files : TRUE}) :
        CachedCall(name, f, arg) \/ ToolCall(name, f, arg) \/ ToolRaises(name, f, arg)
  BY <1>0
<1> DEFINE key == CacheKey(name, f, arg)
<1>f. name \in FileTools \cup FixTools => f \in Files BY <1>1
<1>2. CASE CachedCall(name, f, arg)
  <2>1. PICK cut \in Cut(name, cache[key]) : Deliver(name, cache[key], cut, TRUE)
    BY <1>2 DEF CachedCall
  <2>2. /\ pc = "calls" /\ left > 0 /\ meta.calls < MaxCalls /\ Remaining > 0
        /\ key \in DOMAIN cache
    BY <1>2 DEF CachedCall
  <2>3. Outcome(cache[key]) BY <2>2 DEF LoopInv, LoopTypes
  <2> HIDE DEF key
  <2> QED BY <2>1, <2>2, <2>3, AnswerFits
<1>3. CASE ToolCall(name, f, arg)
  <2>1. PICK out \in Dispatch(name, f, arg) : \E cut \in Cut(name, out) : Deliver(name, out, cut, FALSE)
    BY <1>3 DEF ToolCall
  <2>2. PICK cut \in Cut(name, out) : Deliver(name, out, cut, FALSE) BY <2>1
  <2>3. pc = "calls" /\ left > 0 /\ meta.calls < MaxCalls /\ Remaining > 0 BY <1>3 DEF ToolCall
  <2>4. Outcome(out) BY <2>1, <1>f, DispatchOutcomes DEF Fine
  <2> QED BY <2>2, <2>3, <2>4, AnswerFits
<1>4. CASE ToolRaises(name, f, arg)
  BY <1>4, TalkFits DEF ToolRaises
<1> QED BY <1>1, <1>2, <1>3, <1>4

LEMMA LevelFitsKept ==
  ASSUME AgenticAssumption, LoopInv, LevelFits, [LoopNext]_loopVars
  PROVE  LevelFits'
<1>1. CASE UNCHANGED loopVars BY <1>1 DEF loopVars, LevelFits, AgenticTypeOK, RetriesLeft
<1>2. CASE LoopNext BY <1>2, TalkFits, NestedFits, CallFits DEF LoopNext
<1> QED BY <1>1, <1>2

LEMMA LevelFitsAtFirst ==
  ASSUME AgenticAssumption, LoopInit
  PROVE  LevelFits
<1>1. RetriesLeft \in {0, 1, 2} BY DEF RetriesLeft
<1>2. AgenticTypeOK BY DEF LoopInit, AgenticTypeOK, AgenticAssumption, NewMeta
<1> QED BY <1>1, <1>2 DEF LevelFits, LoopInit

\* The loop keeps its types: it asks itself anew at most twice, once for evidence
\* (llm/agentic/call.py:325) and once for its own check (call.py:400), counts no call beyond
\* the limit but the one that raised, and shows only files of the project.
THEOREM AgenticTypeCorrect == ASSUME AgenticAssumption PROVE LoopSpec => []AgenticTypeOK
<1>1. LoopInit => LoopInv /\ LevelFits BY LoopInitEstablishes, LevelFitsAtFirst
<1>2. LoopInv /\ LevelFits /\ [LoopNext]_loopVars => LoopInv' /\ LevelFits'
  BY LoopStepKeeps, LevelFitsKept
<1>3. LevelFits => AgenticTypeOK BY DEF LevelFits
<1> QED BY <1>1, <1>2, <1>3, PTL DEF LoopSpec

-----------------------------------------------------------------------------
(* Members, runs and the loop together.                                    *)

\* A step of the whole is a step of one part and leaves the others alone.
LEMMA TasksTakeTurns ==
  ASSUME [TasksNext]_tasksVars
  PROVE  [MembersNext]_memberVars /\ [Next]_taskVars /\ [LoopNext]_loopVars
<1>1. CASE UNCHANGED tasksVars BY <1>1 DEF tasksVars
<1>2. CASE TasksNext BY <1>2 DEF TasksNext, InMembers, InRuns, InLoop
<1> QED BY <1>1, <1>2

LEMMA TasksAreParts == TasksSpec => [](MembersInv /\ TaskInv /\ LoopInv /\ LevelFits)
<1>1. TasksInit => MembersInit /\ Init /\ LoopInit BY DEF TasksInit
<1>2. TasksSpec => []MembersInv
  BY <1>1, MembersInitEstablishes, MembersStepKeeps, TasksTakeTurns, PTL DEF TasksSpec
<1>3. TasksSpec => []TaskInv
  <2>1. Init => TaskInv BY PartsAssumption, TaskInvAtFirst
  <2>2. TaskInv /\ [Next]_taskVars => TaskInv' BY PartsAssumption, TaskInvKept
  <2> QED BY <1>1, <2>1, <2>2, TasksTakeTurns, PTL DEF TasksSpec
<1>4. TasksSpec => [](LoopInv /\ LevelFits)
  <2>1. LoopInit => LoopInv /\ LevelFits
    BY PartsAssumption, LoopInitEstablishes, LevelFitsAtFirst
  <2>2. LoopInv /\ LevelFits /\ [LoopNext]_loopVars => LoopInv' /\ LevelFits'
    BY PartsAssumption, LoopStepKeeps, LevelFitsKept
  <2> QED BY <1>1, <2>1, <2>2, TasksTakeTurns, PTL DEF TasksSpec
<1> QED BY <1>2, <1>3, <1>4, PTL

\* Requests on members (org_service.py:31), runs (task_service.py:964) and the loop in one of
\* them (llm/agentic/call.py:230) keep their types side by side.
THEOREM TasksTypesHold == TasksSpec => []TasksTypeOK
<1>1. MembersInv /\ TaskInv /\ LevelFits => TasksTypeOK
  BY TaskInvTypes DEF TasksTypeOK, MembersInv, MemberTypes, LevelFits
<1> QED BY <1>1, TasksAreParts, PTL

\* What holds of members, runs and the loop alone holds of them side by side: an owner, the
\* quota, the bound on escalations, patches that agree with what is there, the loop's budgets,
\* and changes of members within the role of who asked.
THEOREM TasksHold ==
  TasksSpec => /\ [](OwnerRemains /\ QuotaHolds /\ EscalationsExplained /\ PatchesExplained
                     /\ LoopExplained)
               /\ WithinActorsRole
<1>1. MembersInv => OwnerRemains BY DEF MembersInv
<1>2. TaskInv => QuotaHolds /\ EscalationsExplained /\ PatchesExplained
  BY PartsAssumption, InvariantSuffices, EscalationsFit, PatchesFit DEF TaskInv
<1>3. TasksSpec => [][\A h \in Handlers : Within(h)]_memberVars
  BY TasksAreParts, TasksTakeTurns, StepsAreWithin, PTL DEF TasksSpec
<1>4. TasksSpec => WithinActorsRole BY <1>3 DEF WithinActorsRole, Within
<1> QED BY <1>1, <1>2, <1>4, LoopFits, TasksAreParts, PTL
==============================================================================
