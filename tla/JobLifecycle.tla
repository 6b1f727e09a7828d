---------------------------- MODULE JobLifecycle ----------------------------
(***************************************************************************)
(* What the background task queue promises while its stores and its        *)
(* workers do not fail: a job is accepted once and only while no other job *)
(* of its key is active, it then runs and is settled once, and only a      *)
(* settled job is ever forgotten.  TaskQueue implements this.              *)
(***************************************************************************)
CONSTANTS Tasks, Keys, KeyOf

VARIABLES
    status,     \* TaskJob.status, "none" when there is no row
    accepted    \* the job has had a row

vars == <<status, accepted>>

Active   == {"pending", "running"}
Terminal == {"succeeded", "failed"}

Init ==
    /\ status = [t \in Tasks |-> "none"]
    /\ accepted = [t \in Tasks |-> FALSE]

Accept(t) ==
    /\ ~accepted[t]
    /\ \A u \in Tasks : KeyOf[u] = KeyOf[t] => status[u] \notin Active
    /\ accepted' = [accepted EXCEPT ![t] = TRUE]
    /\ status' = [status EXCEPT ![t] = "pending"]

Start(t) ==
    /\ status[t] = "pending"
    /\ status' = [status EXCEPT ![t] = "running"]
    /\ UNCHANGED accepted

\* The job ends; one that the broker refused ends before it has started.
Settle(t) ==
    /\ \/ /\ status[t] = "running"
          /\ \E outcome \in Terminal : status' = [status EXCEPT ![t] = outcome]
       \/ /\ status[t] = "pending"
          /\ status' = [status EXCEPT ![t] = "failed"]
    /\ UNCHANGED accepted

Forget ==
    /\ \E old \in SUBSET {t \in Tasks : status[t] \in Terminal} :
         status' = [t \in Tasks |-> IF t \in old THEN "none" ELSE status[t]]
    /\ UNCHANGED accepted

Next == Forget \/ \E t \in Tasks : Accept(t) \/ Start(t) \/ Settle(t)

Spec == Init /\ [][Next]_vars
=============================================================================
