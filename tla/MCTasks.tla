------------------------------- MODULE MCTasks -------------------------------
(* Task runs, the agentic loop in one of them, and the members who may ask  *)
(* for them, checked side by side: part says which component a behaviour is *)
(* of, and the variables of the others stay as they begin.                  *)
EXTENDS Accounts, TaskRuns, AgenticLoop

CONSTANTS ann, bob, cat, dan, h1, h2, h3, r1, r2, u1, f1, d1

VARIABLE part
tasksVars == <<part, memberVars, taskVars, loopVars>>

-----------------------------------------------------------------------------
(* Accounts: two owners, an admin and somebody who is no member; three      *)
(* requests at once out of those in which roles are lost or given.  The     *)
(* handlers are alike: they take their requests in the order of the list.   *)
MCFirstMembers == [m \in People |-> CASE m = cat -> "admin" [] m = dan -> "none" [] OTHER -> "owner"]
Ask(actor, op, subject, role, begun) ==
  [actor |-> actor, op |-> op, subject |-> subject, role |-> role, begun |-> begun]
RequestList ==
  <<Ask(ann, "remove", bob, "none", FALSE), Ask(bob, "remove", ann, "none", FALSE),
    Ask(bob, "set", bob, "member", FALSE), Ask(cat, "remove", bob, "none", FALSE),
    Ask(cat, "set", dan, "admin", FALSE), Ask(ann, "set", cat, "viewer", FALSE),
    Ask(ann, "remove", bob, "none", TRUE)>>
MCMemberRequests == {RequestList[i] : i \in 1..7}
InOrder == \E i \in 1..7 : \E j \in i..7 : \E k \in j..7 :
  asked[h1] = RequestList[i] /\ asked[h2] = RequestList[j] /\ asked[h3] = RequestList[k]
Dormant == [h \in Handlers |-> Ask(ann, "remove", bob, "none", FALSE)]

(* TaskRuns: two runs and one user, one patch too long for its row, a daily *)
(* limit of one or two, two retries with one escalation, one crash.  The    *)
(* runs are alike: of two requests that differ, r1 has the one that is not  *)
(* agentic.                                                                 *)
MCRequests == {[mode |-> "auto", agentic |-> FALSE, apply |-> TRUE, anywhere |-> FALSE],
               [mode |-> "fix", agentic |-> TRUE, apply |-> FALSE, anywhere |-> FALSE]}
MissingLists == {{}, {"blank"}, {"x"}, {"y"}}
(* AgenticLoop: one file, four tools, three calls, two at a time, answers   *)
(* of which the longest takes the whole budget.                             *)
LoopTools == {"search_text", "get_file", "get_symbol", "compare_api_contract"}
LoopWorld == [kind |-> [f \in Files |-> "text"], found |-> FALSE, noFiles |-> FALSE,
  routes |-> <<[calls |-> TRUE, stored |-> TRUE], [calls |-> TRUE, stored |-> FALSE]>>]

ASSUME PartsAssumption == RunsAssumption /\ AgenticAssumption

-----------------------------------------------------------------------------
(* What TaskRuns begins with while a behaviour is of another part.           *)
Unasked == limit = 1 /\ \A r \in Runs : req[r].agentic

TasksInit ==
  /\ part \in {"members", "runs", "loop"}
  /\ MembersInit /\ IF part = "members" THEN InOrder ELSE asked = Dormant
  /\ Init /\ IF part = "runs" THEN req[r1].agentic => req[r2].agentic ELSE Unasked
  /\ LoopInit

InMembers == part = "members" /\ UNCHANGED <<part, taskVars, loopVars>>
InRuns == part = "runs" /\ UNCHANGED <<part, memberVars, loopVars>>
InLoop == part = "loop" /\ UNCHANGED <<part, memberVars, taskVars>>

TasksNext ==
  \/ InMembers /\ MembersNext
  \/ InRuns /\ Next
  \/ InLoop /\ LoopNext

(* The fairness of each part, as its module states it.                      *)
TasksFairness ==
  /\ \A h \in Handlers : WF_tasksVars(InMembers /\ MemberStep(h))
  /\ \A r \in Runs : WF_tasksVars(InRuns /\ (RunStep(r) \/ ApplyStep(r)))
  /\ WF_tasksVars(InLoop /\ LoopNext)

TasksSpec == TasksInit /\ [][TasksNext]_tasksVars /\ TasksFairness

-----------------------------------------------------------------------------
(* Every part keeps its types.                                              *)
TasksTypeOK == MembersTypeOK /\ TypeOK /\ AgenticTypeOK

Over ==
  CASE part = "members" -> \A h \in Handlers : step[h] \in {"done", "refused"}
    [] part = "runs"    -> \A r \in Runs : at[r] \in {"done", "failed"}
    [] part = "loop"    -> pc \in {"done", "failed"}

(* Requests on members are served although they lock rows in any order      *)
(* (org_service.py:31), runs end, in an answer or an error                  *)
(* (task_service.py:964), and so does the loop (llm/agentic/call.py:230).   *)
TasksEnd == <>[]Over
=============================================================================
