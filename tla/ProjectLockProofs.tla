------------------------- MODULE ProjectLockProofs -------------------------
(***************************************************************************)
(* Theorems about ProjectLock, for every set of operations, every pool and *)
(* every number of faults: the lock excludes, and the pool loses nothing.  *)
(***************************************************************************)
EXTENDS ProjectLock, FiniteSetTheorems, TLAPS

(* What taking the oldest connection leaves in the pool. *)
LEMMA TailFacts ==
    ASSUME NEW S, NEW s \in Seq(S), s # <<>>, NoTwice(s)
    PROVE  /\ Head(s) \in S /\ Tail(s) \in Seq(S)
           /\ NoTwice(Tail(s))
           /\ Members(Tail(s)) = Members(s) \ {Head(s)}
           /\ Head(s) \in Members(s)
<1>1. Len(s) \in Nat /\ Len(s) > 0 /\ DOMAIN s = 1..Len(s)
  OBVIOUS
<1>2. /\ Head(s) \in S /\ Tail(s) \in Seq(S) /\ Len(Tail(s)) = Len(s) - 1
      /\ \A i \in 1..Len(s) - 1 : Tail(s)[i] = s[i + 1]
      /\ Head(s) = s[1]
  BY <1>1
<1>3. DOMAIN Tail(s) = 1..Len(s) - 1
  BY <1>2
<1>4. NoTwice(Tail(s))
  BY <1>1, <1>2, <1>3 DEF NoTwice
<1>5. ASSUME NEW x PROVE x \in Members(Tail(s)) <=> x \in Members(s) /\ x # Head(s)
  <2>1. ASSUME x \in Members(Tail(s)) PROVE x \in Members(s) /\ x # Head(s)
    <3>1. PICK i \in 1..Len(s) - 1 : x = s[i + 1]
      BY <2>1, <1>2, <1>3 DEF Members
    <3>2. i + 1 \in DOMAIN s /\ 1 \in DOMAIN s /\ i + 1 # 1
      BY <1>1
    <3> QED BY <3>1, <3>2, <1>2 DEF Members, NoTwice
  <2>2. ASSUME x \in Members(s), x # Head(s) PROVE x \in Members(Tail(s))
    <3>1. PICK i \in 1..Len(s) : x = s[i]
      BY <2>2, <1>1 DEF Members
    <3>2. i - 1 \in 1..Len(s) - 1 /\ (i - 1) + 1 = i
      BY <3>1, <2>2, <1>1, <1>2
    <3> QED BY <3>1, <3>2, <1>2, <1>3 DEF Members
  <2> QED BY <2>1, <2>2
<1>6. Head(s) \in Members(s)
  BY <1>1, <1>2 DEF Members
<1> QED BY <1>2, <1>4, <1>5, <1>6

(* What giving a connection back adds to the pool. *)
LEMMA AppendFacts ==
    ASSUME NEW S, NEW s \in Seq(S), NEW x \in S, NoTwice(s), x \notin Members(s)
    PROVE  /\ Append(s, x) \in Seq(S)
           /\ NoTwice(Append(s, x))
           /\ Members(Append(s, x)) = Members(s) \cup {x}
<1>1. Len(s) \in Nat /\ DOMAIN s = 1..Len(s)
  OBVIOUS
<1>2. /\ Append(s, x) \in Seq(S) /\ DOMAIN Append(s, x) = 1..Len(s) + 1
      /\ \A i \in 1..Len(s) : Append(s, x)[i] = s[i]
      /\ Append(s, x)[Len(s) + 1] = x
  BY <1>1
<1>3. \A i \in 1..Len(s) + 1 : i \in 1..Len(s) \/ i = Len(s) + 1
  BY <1>1
<1>4. NoTwice(Append(s, x))
  BY <1>1, <1>2, <1>3 DEF NoTwice, Members
<1>5. ASSUME NEW y PROVE y \in Members(Append(s, x)) <=> y \in Members(s) \/ y = x
  <2>1. ASSUME y \in Members(Append(s, x)) PROVE y \in Members(s) \/ y = x
    BY <2>1, <1>1, <1>2, <1>3 DEF Members
  <2>2. ASSUME y \in Members(s) PROVE y \in Members(Append(s, x))
    BY <2>2, <1>1, <1>2 DEF Members
  <2>3. x \in Members(Append(s, x))
    BY <1>1, <1>2 DEF Members
  <2> QED BY <2>1, <2>2, <2>3
<1> QED BY <1>2, <1>4, <1>5

-----------------------------------------------------------------------------
(* The inductive invariant: an operation past the borrowing has a          *)
(* connection, the one in its body holds the lock with it, and the lock is  *)
(* never held by two connections.                                          *)
Engaged ==
    /\ \A o \in Ops : pc[o] \in {"ask", "body", "release"} => conn[o] # NoConn
    /\ \A o \in Ops : pc[o] = "body" => held[conn[o]] > 0
    /\ \A o \in Ops : pc[o] = "start" => conn[o] = NoConn

OneHolder == \A c, d \in Conns : held[c] > 0 /\ held[d] > 0 => c = d

IInv == TypeOK /\ ConnsAccounted /\ Engaged /\ OneHolder

USE LockAssumption

LEMMA InitIInv == Init => IInv
<1> SUFFICES ASSUME Init PROVE IInv
  OBVIOUS
<1>1. /\ idle \in [1..Cardinality(Conns) -> Conns]
      /\ NoTwice(idle) /\ Members(idle) = Conns
  BY DEF Init
<1>2. Cardinality(Conns) \in Nat
  BY <1>1, FS_CardinalityType
<1>3. idle \in Seq(Conns)
  BY <1>1, <1>2
<1>4. TypeOK
  BY <1>3 DEF Init, TypeOK, Steps
<1>5. ConnsAccounted
  BY <1>1 DEF Init, ConnsAccounted
<1>6. Engaged /\ OneHolder
  BY DEF Init, Engaged, OneHolder
<1> QED BY <1>4, <1>5, <1>6 DEF IInv

(* Borrowing keeps the pool and the operations apart, and adds no lock. *)
LEMMA BorrowKeeps ==
    ASSUME IInv, NEW o \in Ops, Borrow(o)
    PROVE  /\ idle' \in Seq(Conns) /\ conn' \in [Ops -> Conns \cup {NoConn}]
           /\ held' \in [Conns -> Nat]
           /\ conn'[o] \in Conns /\ \A p \in Ops \ {o} : conn'[p] = conn[p]
           /\ ConnsAccounted'
           /\ \A c \in Conns : held'[c] = held[c] \/ (held'[c] = 0 /\ c = conn'[o])
<1>1. /\ Head(idle) \in Conns /\ Tail(idle) \in Seq(Conns) /\ NoTwice(Tail(idle))
      /\ Members(Tail(idle)) = Members(idle) \ {Head(idle)}
      /\ Head(idle) \in Members(idle)
  BY TailFacts DEF Borrow, IInv, TypeOK, ConnsAccounted
<1>2. /\ conn' = [conn EXCEPT ![o] = Head(idle)] /\ idle' = Tail(idle)
      /\ conn \in [Ops -> Conns \cup {NoConn}] /\ held \in [Conns -> Nat]
      /\ held' = held \/ held' = [held EXCEPT ![Head(idle)] = 0]
      /\ conn[o] = NoConn
  BY DEF Borrow, IInv, TypeOK
<1>3. \A p \in Ops : conn[p] # Head(idle)
  BY <1>1 DEF IInv, ConnsAccounted
<1>4. ConnsAccounted'
  BY <1>1, <1>2, <1>3 DEF IInv, ConnsAccounted
<1>5. /\ conn' \in [Ops -> Conns \cup {NoConn}] /\ conn'[o] = Head(idle)
      /\ \A p \in Ops \ {o} : conn'[p] = conn[p]
  BY <1>1, <1>2
<1>6. /\ held' \in [Conns -> Nat]
      /\ \A c \in Conns : held'[c] = held[c] \/ (held'[c] = 0 /\ c = Head(idle))
  <2>1. CASE held' = held
    BY <1>2, <2>1
  <2>2. CASE held' = [held EXCEPT ![Head(idle)] = 0]
    BY <1>1, <1>2, <2>2
  <2> QED BY <1>2, <2>1, <2>2
<1>7. idle' \in Seq(Conns)
  BY <1>1, <1>2
<1> QED BY <1>1, <1>4, <1>5, <1>6, <1>7

(* An operation that borrows, to ask or to unlock, preserves the invariant. *)
LEMMA BorrowedIInv ==
    ASSUME IInv, NEW o \in Ops, Borrow(o), NEW step \in {"ask", "release"},
           pc' = [pc EXCEPT ![o] = step], pc' \in [Ops -> Steps],
           broken' = broken, faults' = faults
    PROVE  IInv'
<1> DEFINE heldStep == \A c \in Conns : held'[c] = held[c] \/ (held'[c] = 0 /\ c = conn'[o])
<1>1. /\ idle' \in Seq(Conns) /\ conn' \in [Ops -> Conns \cup {NoConn}]
      /\ held' \in [Conns -> Nat] /\ conn'[o] \in Conns
      /\ \A p \in Ops \ {o} : conn'[p] = conn[p]
      /\ ConnsAccounted' /\ heldStep
  BY BorrowKeeps
<1>2. TypeOK'
  BY <1>1 DEF IInv, TypeOK
<1>3. ASSUME NEW p \in Ops, pc'[p] = "body"
      PROVE  p # o /\ conn'[p] = conn[p] /\ conn[p] \in Conns /\ held[conn[p]] > 0
  BY <1>1, <1>3 DEF IInv, TypeOK, Engaged
<1>4. ASSUME NEW p \in Ops, pc'[p] = "body" PROVE held'[conn'[p]] > 0
  <2>1. conn'[p] # conn'[o]
    BY <1>1, <1>3, <1>4 DEF ConnsAccounted
  <2> QED BY <1>1, <1>3, <1>4, <2>1
<1>5. Engaged'
  <2>1. \A p \in Ops : pc'[p] \in {"ask", "body", "release"} => conn'[p] # NoConn
    BY <1>1 DEF IInv, TypeOK, Engaged
  <2>2. \A p \in Ops : pc'[p] = "start" => conn'[p] = NoConn
    BY <1>1 DEF IInv, TypeOK, Engaged
  <2> QED BY <1>4, <2>1, <2>2 DEF Engaged
<1>6. OneHolder'
  <2>1. \A c \in Conns : held'[c] > 0 => held'[c] = held[c]
    BY <1>1
  <2> QED BY <2>1 DEF IInv, OneHolder
<1> QED BY <1>1, <1>2, <1>5, <1>6 DEF IInv

(* So does giving back. *)
LEMMA GiveBackKeeps ==
    ASSUME IInv, NEW o \in Ops, GiveBack(o), conn[o] # NoConn
    PROVE  /\ idle' \in Seq(Conns) /\ conn' \in [Ops -> Conns \cup {NoConn}]
           /\ conn'[o] = NoConn /\ \A p \in Ops \ {o} : conn'[p] = conn[p]
           /\ ConnsAccounted'
<1>1. conn[o] \in Conns /\ conn[o] \notin Members(idle)
  BY DEF IInv, TypeOK, ConnsAccounted
<1>2. /\ Append(idle, conn[o]) \in Seq(Conns) /\ NoTwice(Append(idle, conn[o]))
      /\ Members(Append(idle, conn[o])) = Members(idle) \cup {conn[o]}
  BY <1>1, AppendFacts DEF IInv, TypeOK, ConnsAccounted
<1>3. /\ conn' = [conn EXCEPT ![o] = NoConn] /\ idle' = Append(idle, conn[o])
      /\ conn \in [Ops -> Conns \cup {NoConn}]
  BY DEF GiveBack, IInv, TypeOK
<1>4. ConnsAccounted'
  BY <1>1, <1>2, <1>3 DEF IInv, ConnsAccounted
<1> QED BY <1>2, <1>3, <1>4

(* Every step of an operation preserves the invariant. *)
LEMMA StepIInv == ASSUME IInv, NEW o \in Ops, Step(o) PROVE IInv'
<1> USE DEF TypeOK, Steps, Inside, Ended, Engaged, OneHolder, Goto
<1> TypeOK /\ ConnsAccounted /\ Engaged /\ OneHolder
  BY DEF IInv
<1>1. CASE Start(o)
  <2>1. /\ Borrow(o) /\ pc' = [pc EXCEPT ![o] = "ask"] /\ pc' \in [Ops -> Steps]
        /\ broken' = broken /\ faults' = faults
    BY <1>1 DEF Start, Borrow
  <2> QED BY <2>1, BorrowedIInv
<1>2. CASE Grant(o)
  <2>1. conn[o] \in Conns
    BY <1>2 DEF Grant
  <2>2. TypeOK'
    BY <1>2, <2>1 DEF Grant
  <2>3. ConnsAccounted'
    BY <1>2 DEF Grant, ConnsAccounted
  <2>4. Engaged'
    BY <1>2, <2>1, <2>2 DEF Grant, ConnsAccounted
  <2>5. OneHolder'
    BY <1>2, <2>1, <2>2 DEF Grant
  <2> QED BY <2>2, <2>3, <2>4, <2>5 DEF IInv
<1>3. CASE LockTimeout(o)
  <2>1. GiveBack(o) /\ conn[o] # NoConn
    BY <1>3 DEF LockTimeout
  <2> QED BY <1>3, <2>1, GiveBackKeeps DEF LockTimeout, IInv
<1>4. CASE PoolTimeout(o)
  BY <1>4 DEF PoolTimeout, IInv, ConnsAccounted
<1>5. CASE Leave(o)
  BY <1>5 DEF Leave, IInv, ConnsAccounted
<1>6. CASE Commit(o)
  <2>1. GiveBack(o) /\ conn[o] # NoConn
    BY <1>6 DEF Commit
  <2> QED BY <1>6, <2>1, GiveBackKeeps DEF Commit, IInv
<1>7. CASE BreakTransaction(o)
  BY <1>7 DEF BreakTransaction, IInv, ConnsAccounted
<1>8. CASE Unlock(o)
  <2>1. CASE Borrow(o)
    <3>1. /\ pc' = [pc EXCEPT ![o] = "release"] /\ pc' \in [Ops -> Steps]
          /\ broken' = broken /\ faults' = faults
      BY <1>8, <2>1 DEF Unlock, Borrow
    <3> QED BY <2>1, <3>1, BorrowedIInv
  <2>2. CASE conn[o] # NoConn /\ UNCHANGED <<conn, idle, held, broken, faults>>
    BY <1>8, <2>2 DEF Unlock, IInv, ConnsAccounted
  <2> QED BY <1>8, <2>1, <2>2 DEF Unlock
<1>9. CASE Release(o)
  <2>1. GiveBack(o) /\ conn[o] \in Conns /\ conn[o] # NoConn
    BY <1>9 DEF Release
  <2>2. held' \in [Conns -> Nat] /\ \A c \in Conns : held'[c] > 0 => held[c] > 0
    BY <1>9, <2>1 DEF Release
  <2>3. \A p \in Ops : pc'[p] = "body" => p # o /\ conn[p] # conn[o]
    BY <1>9, <2>1 DEF Release, ConnsAccounted
  <2>4. \A c \in Conns \ {conn[o]} : held'[c] = held[c]
    BY <1>9, <2>1 DEF Release
  <2>5. Engaged'
    <3>1. \A p \in Ops \ {o} : pc'[p] = pc[p] /\ conn'[p] = conn[p]
      BY <1>9, <2>1, GiveBackKeeps DEF Release
    <3>2. pc'[o] \in Ended /\ conn'[o] = NoConn
      BY <1>9, <2>1, GiveBackKeeps DEF Release
    <3>3. ASSUME NEW p \in Ops, pc'[p] = "body" PROVE held'[conn'[p]] > 0
      <4>1. p # o /\ conn[p] # conn[o] /\ conn[p] \in Conns /\ held[conn[p]] > 0
        BY <2>3, <3>1, <3>3
      <4> QED BY <4>1, <2>4, <3>1
    <3> QED BY <3>1, <3>2, <3>3
  <2>6. OneHolder'
    BY <2>2
  <2>7. /\ idle' \in Seq(Conns) /\ conn' \in [Ops -> Conns \cup {NoConn}]
        /\ ConnsAccounted'
    BY <2>1, GiveBackKeeps
  <2>8. pc' \in [Ops -> Steps] /\ broken' \subseteq Ops /\ faults' \in 0..MaxFaults
    BY <1>9 DEF Release
  <2> QED BY <2>2, <2>5, <2>6, <2>7, <2>8 DEF IInv
<1>10. CASE LoseConnection(o)
  <2>1. GiveBack(o) /\ conn[o] \in Conns /\ conn[o] # NoConn
    BY <1>10 DEF LoseConnection
  <2>2. held' \in [Conns -> Nat] /\ \A c \in Conns : held'[c] > 0 => held[c] > 0
    BY <1>10, <2>1 DEF LoseConnection
  <2>3. \A p \in Ops : pc'[p] = "body" => p # o /\ conn[p] # conn[o]
    BY <1>10, <2>1 DEF LoseConnection, ConnsAccounted
  <2>4. \A c \in Conns \ {conn[o]} : held'[c] = held[c]
    BY <1>10, <2>1 DEF LoseConnection
  <2>5. Engaged'
    <3>1. \A p \in Ops \ {o} : pc'[p] = pc[p] /\ conn'[p] = conn[p]
      BY <1>10, <2>1, GiveBackKeeps DEF LoseConnection
    <3>2. pc'[o] \in Ended /\ conn'[o] = NoConn
      BY <1>10, <2>1, GiveBackKeeps DEF LoseConnection
    <3>3. ASSUME NEW p \in Ops, pc'[p] = "body" PROVE held'[conn'[p]] > 0
      <4>1. p # o /\ conn[p] # conn[o] /\ conn[p] \in Conns /\ held[conn[p]] > 0
        BY <2>3, <3>1, <3>3
      <4> QED BY <4>1, <2>4, <3>1
    <3> QED BY <3>1, <3>2, <3>3
  <2>6. OneHolder'
    BY <2>2
  <2>7. /\ idle' \in Seq(Conns) /\ conn' \in [Ops -> Conns \cup {NoConn}]
        /\ ConnsAccounted'
    BY <2>1, GiveBackKeeps
  <2>8. pc' \in [Ops -> Steps] /\ broken' \subseteq Ops /\ faults' \in 0..MaxFaults
    BY <1>10 DEF LoseConnection
  <2> QED BY <2>2, <2>5, <2>6, <2>7, <2>8 DEF IInv
<1> QED BY <1>1, <1>2, <1>3, <1>4, <1>5, <1>6, <1>7, <1>8, <1>9, <1>10 DEF Step

LEMMA IInvariant == Spec => []IInv
<1>1. IInv /\ UNCHANGED vars => IInv'
  BY DEF IInv, TypeOK, ConnsAccounted, Engaged, OneHolder, vars
<1>2. IInv /\ [Next]_vars => IInv'
  BY <1>1, StepIInv DEF Next
<1> QED BY InitIInv, <1>2, PTL DEF Spec

(* The lock has a connection or nobody, every operation a step of its own,  *)
(* for any operations, connections and faults (project_lock_async).         *)
THEOREM LockTypeCorrect == Spec => []TypeOK
<1>1. IInv => TypeOK BY DEF IInv
<1> QED BY <1>1, IInvariant, PTL

(* Two operations are never inside the lock's body at once: who is in its   *)
(* body holds the lock with a connection of its own (project_lock_async).   *)
THEOREM LockExcludes == Spec => []Exclusive
<1>1. IInv => Exclusive
  BY DEF IInv, TypeOK, ConnsAccounted, Engaged, OneHolder, Exclusive
<1> QED BY <1>1, IInvariant, PTL

(* The pool and the sessions share out all the connections, whatever fails. *)
THEOREM PoolKeepsAll == Spec => []ConnsAccounted
<1>1. IInv => ConnsAccounted
  BY DEF IInv
<1> QED BY <1>1, IInvariant, PTL
=============================================================================
