--------------------------- MODULE AccountsProofs ---------------------------
(***************************************************************************)
(* For any number of people, handlers and requests: an organisation keeps  *)
(* an owner, and nobody is changed beyond the role of who asked.  The      *)
(* argument is about rows: while a handler holds the lock of a row no      *)
(* other handler changes that member, so what it has judged about its      *)
(* subject and the other owners still holds when it writes.                *)
(***************************************************************************)
EXTENDS Accounts, TLAPS

MemberSteps == {"policy", "begin", "lock", "owners", "write", "done", "refused"}
MemberTypes ==
  /\ MembersTypeOK
  /\ asked \in [Handlers -> MemberRequests]
  /\ step \in [Handlers -> MemberSteps]

Subject(h) == asked[h].subject
Holds(h, p) == rowLock[p] = h

LockedIsMember == \A h \in Handlers, p \in People : Holds(h, p) => member[p] # "none"
\* who removes a member, or asks for the other owners, holds the member's row
SubjectHeld ==
  \A h \in Handlers :
    step[h] = "owners" \/ (step[h] = "write" /\ asked[h].op = "remove") => Holds(h, Subject(h))
OwnersFound ==
  \A h \in Handlers : step[h] = "owners" =>
    /\ member[Subject(h)] = "owner" /\ Subject(h) \in owners[h]
    /\ \A p \in owners[h] : Holds(h, p) => member[p] = "owner"
\* who is about to take an owner away holds the row of another one
AnotherHeld ==
  \A h \in Handlers :
    step[h] = "write" /\ Holds(h, Subject(h)) /\ LosesOwner(asked[h])
      => \E p \in Owners : p # Subject(h) /\ Holds(h, p)
RoleSeen ==
  \A h \in Handlers :
    step[h] \in {"begin", "lock", "owners", "write"} /\ h \notin stale
      => seen[h] = member[asked[h].actor]
RoleJudged ==
  \A h \in Handlers :
    step[h] \in {"lock", "owners", "write"} /\ asked[h].op = "set"
      => CanManage(seen[h], asked[h].role)
SubjectJudged ==
  \A h \in Handlers :
    step[h] \in {"owners", "write"} /\ Holds(h, Subject(h))
      => CanManage(seen[h], member[Subject(h)])

MembersInv ==
  /\ MemberTypes /\ LockedIsMember /\ SubjectHeld /\ OwnersFound /\ AnotherHeld
  /\ RoleSeen /\ RoleJudged /\ SubjectJudged /\ OwnerRemains

-----------------------------------------------------------------------------
\* What the requests of the organisation are made of.
LEMMA RequestTypes ==
  ASSUME NEW q \in MemberRequests
  PROVE  /\ q.actor \in People /\ q.subject \in People /\ q.op \in {"set", "remove"}
         /\ q.role \in Roles \cup {"none"} /\ q.begun \in BOOLEAN
BY AccountsAssumption DEF Roles

\* Everybody may act on who is no member.
LEMMA AnyoneManagesNone == \A role : CanManage(role, "none")
BY DEF CanManage, Rank

\* The organisation is found with an owner and with nothing under way.
LEMMA MembersInitEstablishes == MembersInit => MembersInv
<1> SUFFICES ASSUME MembersInit PROVE MembersInv OBVIOUS
<1> USE AccountsAssumption DEF MembersInit, Free
<1>1. MemberTypes BY DEF MemberTypes, MembersTypeOK, MemberSteps, Roles
<1>2. LockedIsMember /\ SubjectHeld /\ OwnersFound /\ AnotherHeld
  BY DEF LockedIsMember, SubjectHeld, OwnersFound, AnotherHeld, Holds
<1>3. RoleSeen /\ RoleJudged /\ SubjectJudged
  BY DEF RoleSeen, RoleJudged, SubjectJudged
<1>4. OwnerRemains BY DEF OwnerRemains, Owners
<1> QED BY <1>1, <1>2, <1>3, <1>4 DEF MembersInv

\* A write of a handler changes its subject only, whose row it holds unless
\* the subject is no member (org_service.py:155-203).
LEMMA WriteChangesOwnRow ==
  ASSUME MembersInv, NEW h \in Handlers, Write(h), member' # member
  PROVE  /\ step[h] = "write" /\ step' = [step EXCEPT ![h] = "done"]
         /\ Release(h)
         /\ Holds(h, Subject(h)) \/ member[Subject(h)] = "none"
         /\ member' = [member EXCEPT ![Subject(h)] =
                         IF asked[h].op = "set" THEN asked[h].role ELSE "none"]
<1> DEFINE q == asked[h]
<1>1. q.op \in {"set", "remove"} BY RequestTypes DEF MembersInv, MemberTypes
<1>2. ~(q.op = "set" /\ member[q.subject] # "none" /\ rowLock[q.subject] # h)
  BY DEF Write, Refuse
<1>3. step[h] = "write" BY DEF Write
<1>4. q.op = "remove" => Holds(h, Subject(h))
  BY <1>3 DEF MembersInv, SubjectHeld
<1> QED BY <1>1, <1>2, <1>3, <1>4 DEF Write, At, Subject, Holds

\* No other handler changes a member whose row a handler holds, nor takes the
\* lock from it.
LEMMA HeldIsKept ==
  ASSUME MembersInv, NEW o \in Handlers, MemberStep(o),
         NEW h \in Handlers, h # o, NEW p \in People, Holds(h, p)
  PROVE  member'[p] = member[p] /\ (Holds(h, p))'
<1>1. rowLock[p] = h /\ rowLock[p] # o /\ rowLock[p] # Free /\ member[p] # "none"
  BY AccountsAssumption DEF Holds, MembersInv, LockedIsMember, Free
<1>2. member \in [People -> Roles \cup {"none"}] /\ rowLock \in [People -> Handlers \cup {Free}]
  BY DEF MembersInv, MemberTypes, MembersTypeOK
<1>3. member'[p] = member[p]
  <2>1. CASE ~Write(o)
    BY <2>1 DEF MemberStep, CheckPolicy, Begin, LockSubject, LockOwner, OwnersLocked,
                DeadlockVictim, Refuse
  <2>2. CASE Write(o) /\ member' # member
    BY <2>2, <1>1, <1>2, WriteChangesOwnRow DEF Holds
  <2> QED BY <2>1, <2>2
<1>4. rowLock'[p] = rowLock[p]
  BY <1>1, <1>2 DEF MemberStep, CheckPolicy, Begin, LockSubject, LockOwner, OwnersLocked,
                    DeadlockVictim, Write, Refuse, Release
<1> QED BY <1>1, <1>3, <1>4 DEF Holds

\* The types are kept by every step of a handler.
LEMMA TypesKept ==
  ASSUME MembersInv, NEW h \in Handlers, MemberStep(h)
  PROVE  MemberTypes'
<1> USE DEF MembersInv, MemberTypes, MembersTypeOK
<1>1. asked[h] \in MemberRequests OBVIOUS
<1>2. Subject(h) \in People /\ asked[h].role \in Roles \cup {"none"}
  BY <1>1, RequestTypes DEF Subject
<1>3. asked' = asked BY DEF MemberStep, CheckPolicy, Begin, LockSubject, LockOwner,
                            OwnersLocked, DeadlockVictim, Write
<1>4. CASE CheckPolicy(h)
  BY <1>4, <1>1, <1>3, RequestTypes DEF CheckPolicy, At, MemberSteps
<1>5. CASE Begin(h) BY <1>5, <1>3 DEF Begin, At, MemberSteps
<1>6. CASE LockSubject(h)
  BY <1>6, <1>2, <1>3 DEF LockSubject, Refuse, Release, At, MemberSteps, Subject, Owners, Free
<1>7. CASE LockOwner(h) BY <1>7, <1>3 DEF LockOwner
<1>8. CASE OwnersLocked(h) BY <1>8, <1>3 DEF OwnersLocked, Refuse, Release, At, MemberSteps, Free
<1>9. CASE DeadlockVictim(h) BY <1>9, <1>3 DEF DeadlockVictim, Refuse, Release, At, MemberSteps, Free
<1>10. CASE Write(h)
  BY <1>10, <1>2, <1>3 DEF Write, Refuse, Release, At, MemberSteps, Free, Subject
<1> QED BY <1>4, <1>5, <1>6, <1>7, <1>8, <1>9, <1>10 DEF MemberStep

\* What a step of one handler leaves alone: the position, the request and the
\* notes of every other.
LEMMA OthersKept ==
  ASSUME MembersInv, NEW o \in Handlers, MemberStep(o), NEW h \in Handlers, h # o
  PROVE  /\ step'[h] = step[h] /\ asked' = asked
         /\ owners'[h] = owners[h] /\ seen'[h] = seen[h]
         /\ \A p \in People : Holds(h, p)' <=> Holds(h, p)
<1> USE DEF MembersInv, MemberTypes, MembersTypeOK
<1>1. step'[h] = step[h] /\ owners'[h] = owners[h] /\ seen'[h] = seen[h] /\ asked' = asked
  BY DEF MemberStep, CheckPolicy, Begin, LockSubject, LockOwner, OwnersLocked,
         DeadlockVictim, Write, Refuse, At
<1>2. ASSUME NEW p \in People PROVE Holds(h, p)' <=> Holds(h, p)
  <2>1. h # Free BY AccountsAssumption DEF Free
  <2>2. rowLock'[p] = h => rowLock[p] = h
    BY <2>1 DEF MemberStep, CheckPolicy, Begin, LockSubject, LockOwner, OwnersLocked,
                DeadlockVictim, Write, Refuse, Release
  <2> QED BY <2>2, HeldIsKept DEF Holds
<1> QED BY <1>1, <1>2

\* The invariant of the other handlers survives the step of one.
LEMMA OthersSound ==
  ASSUME MembersInv, NEW o \in Handlers, MemberStep(o), NEW h \in Handlers, h # o
  PROVE  /\ \A p \in People : Holds(h, p)' => member'[p] # "none"
         /\ step'[h] = "owners" \/ (step'[h] = "write" /\ asked'[h].op = "remove")
              => Holds(h, Subject(h))'
         /\ step'[h] = "owners" =>
              /\ member'[Subject(h)'] = "owner" /\ Subject(h)' \in owners'[h]
              /\ \A p \in owners'[h] : Holds(h, p)' => member'[p] = "owner"
         /\ step'[h] = "write" /\ Holds(h, Subject(h))' /\ LosesOwner(asked[h])'
              => \E p \in Owners' : p # Subject(h)' /\ Holds(h, p)'
         /\ step'[h] \in {"begin", "lock", "owners", "write"} /\ h \notin stale'
              => seen'[h] = member'[asked'[h].actor]
         /\ step'[h] \in {"lock", "owners", "write"} /\ asked'[h].op = "set"
              => CanManage(seen'[h], asked'[h].role)
         /\ step'[h] \in {"owners", "write"} /\ Holds(h, Subject(h))'
              => CanManage(seen'[h], member'[Subject(h)'])
<1>1. /\ step'[h] = step[h] /\ asked' = asked /\ owners'[h] = owners[h] /\ seen'[h] = seen[h]
      /\ \A p \in People : Holds(h, p)' <=> Holds(h, p)
  BY OthersKept
<1>2. \A p \in People : Holds(h, p) => member'[p] = member[p]
  BY HeldIsKept
<1>3. Subject(h)' = Subject(h) /\ Subject(h) \in People /\ owners[h] \subseteq People
  BY <1>1, RequestTypes DEF Subject, MembersInv, MemberTypes, MembersTypeOK
<1>4. \A p \in People : Holds(h, p)' => member'[p] # "none"
  BY <1>1, <1>2 DEF MembersInv, LockedIsMember
<1>5. step'[h] = "owners" \/ (step'[h] = "write" /\ asked'[h].op = "remove")
        => Holds(h, Subject(h))'
  <2>1. Holds(h, Subject(h))' <=> Holds(h, Subject(h)) BY <1>1, <1>3
  <2> QED BY <1>1, <2>1 DEF MembersInv, SubjectHeld
<1>6. step'[h] = "owners" =>
        /\ member'[Subject(h)'] = "owner" /\ Subject(h)' \in owners'[h]
        /\ \A p \in owners'[h] : Holds(h, p)' => member'[p] = "owner"
  <2>1. step[h] = "owners" => Holds(h, Subject(h)) BY DEF MembersInv, SubjectHeld
  <2> QED BY <1>1, <1>2, <1>3, <2>1 DEF MembersInv, OwnersFound
<1>7. step'[h] = "write" /\ Holds(h, Subject(h))' /\ LosesOwner(asked[h])'
        => \E p \in Owners' : p # Subject(h)' /\ Holds(h, p)'
  <2> SUFFICES ASSUME step'[h] = "write", Holds(h, Subject(h))', LosesOwner(asked[h])'
               PROVE  \E p \in Owners' : p # Subject(h)' /\ Holds(h, p)'
    OBVIOUS
  <2>1. Holds(h, Subject(h)) BY <1>1, <1>3
  <2>2. LosesOwner(asked[h]) BY <2>1, <1>1, <1>2, <1>3 DEF LosesOwner, Subject
  <2>3. PICK p \in Owners : p # Subject(h) /\ Holds(h, p)
    BY <1>1, <2>1, <2>2 DEF MembersInv, AnotherHeld
  <2>4. p \in Owners' BY <2>3, <1>2 DEF Owners
  <2>5. p \in People BY DEF Owners
  <2> QED BY <2>3, <2>4, <2>5, <1>1, <1>3
<1>8. step'[h] \in {"begin", "lock", "owners", "write"} /\ h \notin stale'
        => seen'[h] = member'[asked'[h].actor]
  <2> SUFFICES ASSUME step'[h] \in {"begin", "lock", "owners", "write"}, h \notin stale'
               PROVE  seen'[h] = member'[asked'[h].actor]
    OBVIOUS
  <2>1. h \notin stale
    BY DEF MemberStep, CheckPolicy, Begin, LockSubject, LockOwner, OwnersLocked,
           DeadlockVictim, Write
  <2>2. seen[h] = member[asked[h].actor] BY <1>1, <2>1 DEF MembersInv, RoleSeen
  <2>3. CASE member' = member BY <2>2, <2>3, <1>1
  <2>4. CASE member' # member
    <3>1. Write(o)
      BY <2>4 DEF MemberStep, CheckPolicy, Begin, LockSubject, LockOwner, OwnersLocked,
                  DeadlockVictim, Refuse
    <3>2. member' = [member EXCEPT ![Subject(o)] =
                       IF asked[o].op = "set" THEN asked[o].role ELSE "none"]
      BY <2>4, <3>1, WriteChangesOwnRow
    <3>3. asked[h].actor # Subject(o)
      <4>1. stale' = stale \cup {w \in Handlers : step[w] \notin {"policy", "done", "refused"}
                                   /\ asked[w].actor = Subject(o) /\ w # o}
        BY <2>4, <3>1 DEF Write, Refuse, Subject
      <4> QED BY <4>1, <1>1
    <3>4. asked[h].actor \in People BY RequestTypes DEF MembersInv, MemberTypes
    <3>5. member \in [People -> Roles \cup {"none"}] BY DEF MembersInv, MemberTypes, MembersTypeOK
    <3> QED BY <3>2, <3>3, <3>4, <3>5, <2>2, <1>1
  <2> QED BY <2>3, <2>4
<1>9. step'[h] \in {"lock", "owners", "write"} /\ asked'[h].op = "set"
        => CanManage(seen'[h], asked'[h].role)
  BY <1>1 DEF MembersInv, RoleJudged
<1>10. step'[h] \in {"owners", "write"} /\ Holds(h, Subject(h))'
         => CanManage(seen'[h], member'[Subject(h)'])
  <2>1. Holds(h, Subject(h))' <=> Holds(h, Subject(h)) BY <1>1, <1>3
  <2> QED BY <1>1, <1>2, <1>3, <2>1 DEF MembersInv, SubjectJudged
<1> QED BY <1>4, <1>5, <1>6, <1>7, <1>8, <1>9, <1>10

-----------------------------------------------------------------------------
\* The parts of the invariant that speak of the handler that takes the step.
OwnPart(h) ==
  /\ \A p \in People : Holds(h, p) => member[p] # "none"
  /\ step[h] = "owners" \/ (step[h] = "write" /\ asked[h].op = "remove")
       => Holds(h, Subject(h))
  /\ step[h] = "owners" =>
       /\ member[Subject(h)] = "owner" /\ Subject(h) \in owners[h]
       /\ \A p \in owners[h] : Holds(h, p) => member[p] = "owner"
  /\ step[h] = "write" /\ Holds(h, Subject(h)) /\ LosesOwner(asked[h])
       => \E p \in Owners : p # Subject(h) /\ Holds(h, p)
  /\ step[h] \in {"begin", "lock", "owners", "write"} /\ h \notin stale
       => seen[h] = member[asked[h].actor]
  /\ step[h] \in {"lock", "owners", "write"} /\ asked[h].op = "set"
       => CanManage(seen[h], asked[h].role)
  /\ step[h] \in {"owners", "write"} /\ Holds(h, Subject(h))
       => CanManage(seen[h], member[Subject(h)])

\* A request that is over holds no row, so nothing is said of it.
LEMMA OverIsSound ==
  ASSUME NEW h \in Handlers, step'[h] \in {"done", "refused"}, Release(h)
  PROVE  OwnPart(h)'
<1>1. h # Free BY AccountsAssumption DEF Free
<1>2. \A p \in People : rowLock'[p] # h BY <1>1 DEF Release
<1> QED BY <1>2 DEF OwnPart, Holds

\* Each step of a handler keeps what the invariant says of that handler.
LEMMA OwnSound ==
  ASSUME MembersInv, NEW h \in Handlers, MemberStep(h)
  PROVE  OwnPart(h)'
<1> DEFINE q == asked[h]
           s == Subject(h)
<1>1. /\ q \in MemberRequests /\ s \in People /\ q.actor \in People /\ q.op \in {"set", "remove"}
      /\ h # Free
  BY RequestTypes, AccountsAssumption DEF MembersInv, MemberTypes, Subject, Free
<1>2. /\ step \in [Handlers -> MemberSteps] /\ rowLock \in [People -> Handlers \cup {Free}]
      /\ owners \in [Handlers -> SUBSET People] /\ seen \in [Handlers -> Roles \cup {"none"}]
      /\ member \in [People -> Roles \cup {"none"}]
  BY DEF MembersInv, MemberTypes, MembersTypeOK
<1>3. OwnPart(h)
  BY DEF OwnPart, MembersInv, LockedIsMember, SubjectHeld, OwnersFound, AnotherHeld, RoleSeen,
         RoleJudged, SubjectJudged
<1>4. CASE CheckPolicy(h)
  <2>1. /\ step'[h] \in {"begin", "refused"} /\ seen'[h] = member[q.actor]
        /\ UNCHANGED <<member, asked, rowLock, owners, stale>>
    BY <1>4, <1>2 DEF CheckPolicy, At
  <2> QED BY <2>1, <1>3 DEF OwnPart, Holds, Subject
<1>5. CASE Begin(h)
  <2>1. /\ step[h] = "begin" /\ step'[h] \in {"lock", "refused"}
        /\ step'[h] = "lock" /\ q.op = "set" => CanManage(seen[h], q.role)
        /\ UNCHANGED <<member, asked, seen, rowLock, owners, stale>>
    BY <1>5, <1>2 DEF Begin, At
  <2> QED BY <2>1, <1>3 DEF OwnPart, Holds, Subject
<1>6. CASE LockSubject(h)
  <2>1. CASE Refuse(h)
    BY <2>1, <1>2, OverIsSound DEF Refuse, At
  <2>2. CASE ~Refuse(h)
    <3>1. /\ step[h] = "lock" /\ rowLock[s] = Free
          /\ member[s] # "none" => CanManage(seen[h], member[s])
          /\ q.op = "remove" => member[s] # "none"
          /\ rowLock' = IF member[s] = "none" THEN rowLock ELSE [rowLock EXCEPT ![s] = h]
          /\ step'[h] = IF LosesOwner(q) THEN "owners" ELSE "write"
          /\ owners'[h] = Owners
          /\ UNCHANGED <<member, asked, seen, stale>>
      BY <2>2, <1>6, <1>2 DEF LockSubject, At, Subject
    <3>2. LosesOwner(q) => s \in Owners /\ member[s] = "owner"
      BY <1>1 DEF LosesOwner, Owners, Subject
    <3>3. /\ \A p \in People : Holds(h, p)' => member[p] # "none"
          /\ Holds(h, s)' <=> member[s] # "none"
      <4>1. /\ \A p \in People : Holds(h, p) => member[p] # "none"
            /\ rowLock[s] # h /\ s \in People
        BY <3>1, <1>1, <1>2, <1>3, AccountsAssumption DEF OwnPart, Free
      <4>2. CASE member[s] = "none" BY <4>1, <4>2, <3>1 DEF Holds, Subject
      <4>3. CASE member[s] # "none" BY <4>1, <4>3, <3>1, <1>2 DEF Holds, Subject
      <4> QED BY <4>2, <4>3
    <3>4. Subject(h)' = s BY <3>1 DEF Subject
    <3>5. /\ LosesOwner(asked[h])' <=> LosesOwner(q)
          /\ Owners' = Owners
      BY <3>1 DEF LosesOwner, Owners
    <3>6. \A p \in Owners : member[p] = "owner" BY DEF Owners
    <3>7. step'[h] = "write" => ~LosesOwner(asked[h])'
      BY <3>1, <3>5
    <3>8. step'[h] = "owners" => s \in owners'[h] /\ member[s] = "owner" /\ Holds(h, s)'
      BY <3>1, <3>2, <3>3
    <3>9. member' = member /\ asked' = asked /\ seen' = seen /\ stale' = stale BY <3>1
    <3>10. h \notin stale => seen[h] = member[q.actor] BY <3>1, <1>3 DEF OwnPart
    <3>11. q.op = "set" => CanManage(seen[h], q.role) BY <3>1, <1>3 DEF OwnPart
    <3> QED BY <3>1, <3>3, <3>4, <3>6, <3>7, <3>8, <3>9, <3>10, <3>11 DEF OwnPart
  <2> QED BY <2>1, <2>2
<1>7. CASE LockOwner(h)
  <2>1. PICK p \in owners[h] :
          /\ rowLock[p] = Free
          /\ IF member[p] = "owner"
             THEN rowLock' = [rowLock EXCEPT ![p] = h] /\ UNCHANGED owners
             ELSE owners' = [owners EXCEPT ![h] = @ \ {p}] /\ UNCHANGED rowLock
    BY <1>7 DEF LockOwner
  <2>2. step[h] = "owners" /\ UNCHANGED <<member, asked, step, seen, stale>>
    BY <1>7 DEF LockOwner
  <2>3. p \in People BY <1>2
  <2>4. Subject(h)' = s BY <2>2 DEF Subject
  <2>5. member[s] = "owner" /\ s \in owners[h] /\ Holds(h, s)
    BY <1>3, <2>2 DEF OwnPart
  <2>6. s \in owners'[h] /\ Holds(h, s)'
    <3>1. CASE member[p] = "owner"
      BY <3>1, <2>1, <2>2, <2>3, <2>5, <1>1, <1>2 DEF Holds, Subject
    <3>2. CASE member[p] # "owner"
      <4>1. p # s BY <3>2, <2>5
      <4> QED BY <4>1, <3>2, <2>1, <2>2, <2>5, <1>2 DEF Holds, Subject
    <3> QED BY <3>1, <3>2
  <2>7. \A r \in People : Holds(h, r)' => Holds(h, r) \/ (r = p /\ member[p] = "owner")
    BY <2>1, <2>3, <1>2 DEF Holds
  <2>8. owners'[h] \subseteq owners[h] BY <2>1, <1>2
  <2>9. /\ \A r \in People : Holds(h, r)' => member'[r] # "none"
        /\ \A r \in owners'[h] : Holds(h, r)' => member'[r] = "owner"
    BY <2>2, <2>7, <2>8, <1>2, <1>3 DEF OwnPart
  <2> QED BY <2>2, <2>4, <2>5, <2>6, <2>9, <1>3 DEF OwnPart
<1>8. CASE OwnersLocked(h)
  <2>1. CASE Refuse(h)
    BY <2>1, <1>2, OverIsSound DEF Refuse, At
  <2>2. CASE ~Refuse(h)
    <3>1. /\ step[h] = "owners" /\ \A p \in owners[h] : Holds(h, p)
          /\ owners[h] # {s} /\ step'[h] = "write"
          /\ UNCHANGED <<member, rowLock, asked, seen, owners, stale>>
      BY <2>2, <1>8, <1>2 DEF OwnersLocked, At, Subject, Holds
    <3>2. s \in owners[h] BY <3>1, <1>3 DEF OwnPart
    <3>3. PICK p \in owners[h] : p # s BY <3>1, <3>2
    <3>4. Holds(h, p) /\ member[p] = "owner" /\ p \in People
      BY <3>1, <1>2, <1>3 DEF OwnPart
    <3>5. p \in Owners' /\ p # Subject(h)' /\ Holds(h, p)'
      BY <3>1, <3>3, <3>4 DEF Owners, Subject, Holds
    <3>6. /\ Subject(h)' = s
          /\ \A r : Holds(h, r)' <=> Holds(h, r)
      BY <3>1 DEF Subject, Holds
    <3> QED BY <3>1, <3>5, <3>6, <1>3 DEF OwnPart
  <2> QED BY <2>1, <2>2
<1>9. CASE DeadlockVictim(h)
  BY <1>9, <1>2, OverIsSound DEF DeadlockVictim, Refuse, At
<1>10. CASE Write(h)
  BY <1>10, <1>2, OverIsSound DEF Write, Refuse, At
<1> QED BY <1>4, <1>5, <1>6, <1>7, <1>8, <1>9, <1>10 DEF MemberStep

-----------------------------------------------------------------------------
\* A step that takes an owner away is the write of a handler that holds the
\* rows of that owner and of another one.
LEMMA OwnerIsKept ==
  ASSUME MembersInv, NEW h \in Handlers, MemberStep(h)
  PROVE  OwnerRemains'
<1>1. CASE member' = member
  BY <1>1 DEF MembersInv, OwnerRemains, Owners
<1>2. CASE member' # member
  <2>1. Write(h)
    BY <1>2 DEF MemberStep, CheckPolicy, Begin, LockSubject, LockOwner, OwnersLocked,
                DeadlockVictim, Refuse
  <2>2. /\ step[h] = "write"
        /\ Holds(h, Subject(h)) \/ member[Subject(h)] = "none"
        /\ member' = [member EXCEPT ![Subject(h)] =
                         IF asked[h].op = "set" THEN asked[h].role ELSE "none"]
    BY <1>2, <2>1, WriteChangesOwnRow
  <2>3. /\ Subject(h) \in People /\ asked[h].op \in {"set", "remove"}
        /\ member \in [People -> Roles \cup {"none"}]
    BY RequestTypes DEF MembersInv, MemberTypes, MembersTypeOK, Subject
  <2>4. CASE \E p \in Owners : p # Subject(h)
    BY <2>2, <2>3, <2>4 DEF OwnerRemains, Owners
  <2>5. CASE \A p \in Owners : p = Subject(h)
    <3>1. member[Subject(h)] = "owner" BY <2>5 DEF MembersInv, OwnerRemains, Owners
    <3>2. ~LosesOwner(asked[h])
      BY <2>2, <2>5, <3>1 DEF MembersInv, AnotherHeld
    <3>3. asked[h].op = "set" /\ asked[h].role = "owner"
      BY <2>3, <3>1, <3>2 DEF LosesOwner, Subject
    <3> QED BY <2>2, <2>3, <3>3 DEF OwnerRemains, Owners
  <2> QED BY <2>4, <2>5
<1> QED BY <1>1, <1>2

\* The invariant is inductive.
LEMMA MembersStepKeeps == MembersInv /\ [MembersNext]_memberVars => MembersInv'
<1> SUFFICES ASSUME MembersInv, [MembersNext]_memberVars PROVE MembersInv' OBVIOUS
<1>1. CASE UNCHANGED memberVars
  BY <1>1 DEF memberVars, MembersInv, MemberTypes, MembersTypeOK, LockedIsMember, SubjectHeld, OwnersFound,
              AnotherHeld, RoleSeen, RoleJudged, SubjectJudged, OwnerRemains, Owners,
              Holds, Subject, LosesOwner
<1>2. CASE AllServed BY <1>1, <1>2 DEF AllServed
<1>3. CASE \E o \in Handlers : MemberStep(o)
  <2>1. PICK o \in Handlers : MemberStep(o) BY <1>3
  <2>2. MemberTypes' /\ OwnerRemains' BY <2>1, TypesKept, OwnerIsKept
  <2>3. OwnPart(o)' BY <2>1, OwnSound
  <2>4. ASSUME NEW h \in Handlers, h # o PROVE OwnPart(h)'
    BY <2>1, <2>4, OthersSound DEF OwnPart
  <2>5. \A h \in Handlers : OwnPart(h)' BY <2>3, <2>4
  <2> QED BY <2>2, <2>5 DEF MembersInv, OwnPart, LockedIsMember, SubjectHeld, OwnersFound,
               AnotherHeld, RoleSeen, RoleJudged, SubjectJudged
<1> QED BY <1>1, <1>2, <1>3 DEF MembersNext

\* Members, steps and the rows that handlers hold are of their types (org_service.py).
THEOREM MembersTypeCorrect == MembersSpec => []MembersTypeOK
<1>1. MembersInv => MembersTypeOK BY DEF MembersInv, MemberTypes
<1> QED BY <1>1, MembersInitEstablishes, MembersStepKeeps, PTL DEF MembersSpec

\* Two requests never both take away one of the last two owners
\* (_ensure_not_last_active_owner_async, org_service.py:29-50).
THEOREM OwnerAlwaysRemains == MembersSpec => []OwnerRemains
<1>1. MembersInv => OwnerRemains BY DEF MembersInv
<1> QED BY <1>1, MembersInitEstablishes, MembersStepKeeps, PTL DEF MembersSpec

\* h writes what the role of its actor allows, or the role has changed since the policy read it
Within(h) ==
  step[h] = "write" /\ step'[h] = "done" =>
    LET q == asked[h] IN
      \/ h \in stale
      \/ /\ CanManage(member[q.actor], member[q.subject])
         /\ q.op = "set" => CanManage(member[q.actor], q.role)

LEMMA StepsAreWithin ==
  MembersInv /\ [MembersNext]_memberVars => [\A h \in Handlers : Within(h)]_memberVars
<1> SUFFICES ASSUME MembersInv, MembersNext, NEW h \in Handlers, step[h] = "write", step'[h] = "done",
                    h \notin stale
             PROVE  /\ CanManage(member[asked[h].actor], member[Subject(h)])
                    /\ asked[h].op = "set" => CanManage(member[asked[h].actor], asked[h].role)
  BY DEF Subject, Within
<1>1. seen[h] = member[asked[h].actor] BY DEF MembersInv, RoleSeen
<1>2. asked[h].op = "set" => CanManage(seen[h], asked[h].role) BY DEF MembersInv, RoleJudged
<1>3. PICK o \in Handlers : MemberStep(o) BY DEF MembersNext, AllServed, memberVars
<1>4. o = h BY <1>3, OthersKept
<1>5. Write(h)
  BY <1>3, <1>4 DEF MemberStep, CheckPolicy, Begin, LockSubject, LockOwner, OwnersLocked,
                    DeadlockVictim, Refuse, At, MembersInv, MemberTypes
<1>6. Holds(h, Subject(h)) \/ member[Subject(h)] = "none"
  <2>1. asked[h].op \in {"set", "remove"} BY RequestTypes DEF MembersInv, MemberTypes
  <2>2. asked[h].op = "remove" => Holds(h, Subject(h)) BY DEF MembersInv, SubjectHeld
  <2>3. step' # [step EXCEPT ![h] = "refused"] BY DEF MembersInv, MemberTypes
  <2> QED BY <1>5, <2>1, <2>2, <2>3 DEF Write, Refuse, At, Subject, Holds
<1>7. CanManage(seen[h], member[Subject(h)])
  BY <1>6, AnyoneManagesNone DEF MembersInv, SubjectJudged
<1> QED BY <1>1, <1>2, <1>7

\* A member is changed within the role of the actor, or the actor has lost it
\* since it was read (api/orgs.py:95, org_service.py:117).
THEOREM ChangesWithinRole == MembersSpec => WithinActorsRole
<1>1. MembersSpec => [][\A h \in Handlers : Within(h)]_memberVars
  BY StepsAreWithin, MembersInitEstablishes, MembersStepKeeps, PTL DEF MembersSpec
<1> QED BY <1>1 DEF WithinActorsRole, Within
=============================================================================
