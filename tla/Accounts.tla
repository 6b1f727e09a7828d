------------------------------ MODULE Accounts -------------------------------
(***************************************************************************)
(* The members of an organisation (services/org_service.py, rbac.py, the   *)
(* role checks of policy.py, api/orgs.py).  A request checks the role of   *)
(* its actor, then works in a transaction of PostgreSQL, READ COMMITTED: a *)
(* row locked FOR UPDATE is read again once its holder has committed, and  *)
(* a cycle of waits aborts one of them.                                    *)
(***************************************************************************)
EXTENDS Naturals, FiniteSets

CONSTANTS
  People,         \* users that may be members of the organisation
  MemberRequests, \* requests on members: [actor, op, subject, role, begun]
  Handlers,       \* concurrent requests on members
  FirstMembers    \* the organisation as it is found

ASSUME AccountsAssumption ==
  /\ FirstMembers \in [People -> {"none", "viewer", "member", "admin", "owner"}]
  /\ \E p \in People : FirstMembers[p] = "owner"
  /\ MemberRequests \subseteq
       [actor: People, op: {"set", "remove"}, subject: People, begun: BOOLEAN,
        role: {"none", "viewer", "member", "admin", "owner"}]
  /\ "free" \notin Handlers

VARIABLES
  member,       \* the active role of each person, "none" without a membership
  asked,        \* the request a handler serves
  step,         \* where the handler is
  seen,         \* the role of the actor, as the policy read it
  rowLock,      \* the handler that holds the row of a person
  owners,       \* the rows of owners a handler asked for, as its statement began
  stale         \* history: handlers whose actor lost the role since it was read

memberVars == <<member, asked, step, seen, rowLock, owners, stale>>

Roles == {"viewer", "member", "admin", "owner"}
\* ROLE_ORDER, and -1 moved up by one for who has none
Rank(role) ==
  CASE role = "viewer" -> 1 [] role = "member" -> 2 [] role = "admin" -> 3
    [] role = "owner" -> 4 [] OTHER -> 0
CanManage(actor, subject) == Rank(actor) >= Rank(subject)

Free == "free"
Owners == {p \in People : member[p] = "owner"}

MembersInit ==
  /\ member = FirstMembers
  /\ asked \in [Handlers -> MemberRequests]
  /\ step = [h \in Handlers |-> "policy"] /\ seen = [h \in Handlers |-> "none"]
  /\ rowLock = [p \in People |-> Free] /\ owners = [h \in Handlers |-> {}]
  /\ stale = {}

At(h, s) == step' = [step EXCEPT ![h] = s]
Release(h) == rowLock' = [p \in People |-> IF rowLock[p] = h THEN Free ELSE rowLock[p]]
Refuse(h) == At(h, "refused") /\ Release(h) /\ UNCHANGED member

\* require_org_role_async(min_role="admin"), and the subject looked up; the
\* session or the key of the actor may be revoked or past its time
CheckPolicy(h) ==
  /\ step[h] = "policy"
  /\ LET q == asked[h] IN
       /\ seen' = [seen EXCEPT ![h] = member[q.actor]]
       /\ \/ CanManage(member[q.actor], "admin") /\ At(h, "begin")
          \/ At(h, "refused")
  /\ UNCHANGED <<member, asked, rowLock, owners, stale>>

\* can_manage_member_role for the new role, then session.begin(): a session that
\* has run a statement has begun already, and refuses
Begin(h) ==
  /\ step[h] = "begin"
  /\ LET q == asked[h] IN
       At(h, IF q.begun \/ (q.op = "set" /\ ~CanManage(seen[h], q.role))
             THEN "refused" ELSE "lock")
  /\ UNCHANGED <<member, asked, seen, rowLock, owners, stale>>

LosesOwner(q) ==
  member[q.subject] = "owner" /\ (q.op = "remove" \/ q.role # "owner")

\* Mutant: the role the subject has is not asked for.
LockUnjudged(h) ==
  /\ step[h] = "lock"
  /\ LET q == asked[h]
         p == q.subject
     IN /\ rowLock[p] = Free
        /\ rowLock' = IF member[p] = "none" THEN rowLock ELSE [rowLock EXCEPT ![p] = h]
        /\ At(h, IF LosesOwner(q) THEN "owners" ELSE "write")
        /\ owners' = [owners EXCEPT ![h] = Owners]
  /\ UNCHANGED <<member, asked, seen, stale>>

\* the row of the subject FOR UPDATE, and what is asked of the role it has
LockSubject(h) ==
  /\ step[h] = "lock"
  /\ LET q == asked[h]
         p == q.subject
     IN /\ rowLock[p] = Free
        /\ IF \/ member[p] = "none" /\ q.op = "remove"
              \/ member[p] # "none" /\ ~CanManage(seen[h], member[p])
           THEN Refuse(h) /\ UNCHANGED owners
           ELSE /\ rowLock' = IF member[p] = "none" THEN rowLock ELSE [rowLock EXCEPT ![p] = h]
                /\ At(h, IF LosesOwner(q) THEN "owners" ELSE "write")
                /\ owners' = [owners EXCEPT ![h] = Owners]
                /\ UNCHANGED member
  /\ UNCHANGED <<asked, seen, stale>>

\* _ensure_not_last_active_owner_async: the rows of the owners FOR UPDATE, one
\* after the other; one that is no owner any more when its lock comes is left out
LockOwner(h) ==
  /\ step[h] = "owners"
  /\ \E p \in owners[h] :
       /\ rowLock[p] = Free
       /\ IF member[p] = "owner"
          THEN rowLock' = [rowLock EXCEPT ![p] = h] /\ UNCHANGED owners
          ELSE owners' = [owners EXCEPT ![h] = @ \ {p}] /\ UNCHANGED rowLock
  /\ UNCHANGED <<member, asked, step, seen, stale>>
\* Mutant: the owners are counted and not locked.
OwnersCounted(h) ==
  /\ step[h] = "owners"
  /\ IF owners[h] = {asked[h].subject} THEN Refuse(h)
     ELSE At(h, "write") /\ UNCHANGED <<member, rowLock>>
  /\ UNCHANGED <<asked, seen, owners, stale>>
OwnersLocked(h) ==
  /\ step[h] = "owners" /\ \A p \in owners[h] : rowLock[p] = h
  /\ IF owners[h] = {asked[h].subject} THEN Refuse(h)
     ELSE At(h, "write") /\ UNCHANGED <<member, rowLock>>
  /\ UNCHANGED <<asked, seen, owners, stale>>

\* PostgreSQL ends one of the transactions that wait for each other
Wanted(h) ==
  CASE step[h] = "lock" -> {asked[h].subject} [] step[h] = "owners" -> owners[h] [] OTHER -> {}
WaitsFor(h, o) == o # h /\ \E p \in Wanted(h) : rowLock[p] = o
\* Mutant: what was ended is tried again at once, as often as it takes.
TryAgain(h) ==
  /\ \E o, w \in Handlers :
       /\ WaitsFor(h, o) /\ WaitsFor(w, h)
       /\ o = w \/ WaitsFor(o, w)
  /\ At(h, "lock") /\ Release(h)
  /\ UNCHANGED <<member, asked, seen, owners, stale>>
DeadlockVictim(h) ==
  /\ \E o, w \in Handlers :
       /\ WaitsFor(h, o) /\ WaitsFor(w, h)
       /\ o = w \/ WaitsFor(o, w)
  /\ Refuse(h)
  /\ UNCHANGED <<asked, seen, owners, stale>>

\* the change and its commit; a second insert of the same member is refused by
\* the unique index
Write(h) ==
  /\ step[h] = "write"
  /\ LET q == asked[h]
         p == q.subject
     IN IF q.op = "set" /\ member[p] # "none" /\ rowLock[p] # h
        THEN Refuse(h) /\ UNCHANGED stale
        ELSE /\ member' = [member EXCEPT ![p] = IF q.op = "set" THEN q.role ELSE "none"]
             /\ At(h, "done") /\ Release(h)
             /\ stale' = stale \cup {o \in Handlers : step[o] \notin {"policy", "done", "refused"}
                                                       /\ asked[o].actor = p /\ o # h}
  /\ UNCHANGED <<asked, seen, owners>>

MemberStep(h) ==
  \/ CheckPolicy(h) \/ Begin(h) \/ LockSubject(h) \/ LockOwner(h)
  \/ OwnersLocked(h) \/ DeadlockVictim(h) \/ Write(h)
AllServed ==
  /\ \A h \in Handlers : step[h] \in {"done", "refused"}
  /\ UNCHANGED memberVars

MembersNext ==
  \/ \E h \in Handlers : MemberStep(h)
  \/ AllServed

\* statements of the database end; a deadlock is broken by its server
MembersFairness == \A h \in Handlers : WF_memberVars(MemberStep(h))
MembersSpec == MembersInit /\ [][MembersNext]_memberVars /\ MembersFairness

-----------------------------------------------------------------------------
MembersTypeOK ==
  /\ member \in [People -> Roles \cup {"none"}]
  /\ seen \in [Handlers -> Roles \cup {"none"}]
  /\ rowLock \in [People -> Handlers \cup {Free}]
  /\ owners \in [Handlers -> SUBSET People]
  /\ stale \subseteq Handlers

\* Two requests that each take away one of the last two owners never both do:
\* the organisation keeps an active owner (org_service.py:31).
OwnerRemains == Owners # {}

\* No member is changed beyond the role of the actor, unless the actor lost that
\* role after the policy had read it (api/orgs.py:95, org_service.py:117).
WithinActorsRole ==
  [][\A h \in Handlers :
       step[h] = "write" /\ step'[h] = "done" =>
         LET q == asked[h] IN
           \/ h \in stale
           \/ /\ CanManage(member[q.actor], member[q.subject])
              /\ q.op = "set" => CanManage(member[q.actor], q.role)]_memberVars
=============================================================================
