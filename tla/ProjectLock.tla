---------------------------- MODULE ProjectLock ----------------------------
(***************************************************************************)
(* The lock of a project: an advisory lock of PostgreSQL, which belongs to  *)
(* a database connection, taken and given back by operations that borrow    *)
(* their connections from the pool of the engine.  A commit gives the       *)
(* connection back to the pool, and the next statement of the session       *)
(* borrows another one.  One project and one process; the pool is a queue.  *)
(***************************************************************************)
EXTENDS Integers, Sequences, FiniteSets

CONSTANTS Ops,        \* operations on the project
          Writers,    \* those that write rows and commit inside the lock
          Conns,      \* connections of the pool
          NoConn,
          MaxFaults   \* bound: failing statements and lost connections

ASSUME LockAssumption ==
    /\ Writers \subseteq Ops
    /\ NoConn \notin Conns
    /\ IsFiniteSet(Conns)
    /\ MaxFaults \in Nat

VARIABLES pc,      \* step of an operation
          conn,    \* the connection its session holds
          idle,    \* connections in the pool, the oldest first
          held,    \* how often a connection holds the advisory lock
          broken,  \* operations whose transaction a failed statement aborted
          faults

vars == <<pc, conn, idle, held, broken, faults>>

Ended == {"done", "locked", "failed"}
Inside == {"body", "unlock", "release"}
Steps == {"start", "ask"} \cup Inside \cup Ended

TypeOK ==
    /\ pc \in [Ops -> Steps]
    /\ conn \in [Ops -> Conns \cup {NoConn}]
    /\ idle \in Seq(Conns)
    /\ held \in [Conns -> Nat]
    /\ broken \subseteq Ops
    /\ faults \in 0..MaxFaults

Members(s) == {s[i] : i \in DOMAIN s}
NoTwice(s) == \A i, j \in DOMAIN s : s[i] = s[j] => i = j

\* The pool holds all connections, in any order of their last use.
Init ==
    /\ pc = [o \in Ops |-> "start"]
    /\ conn = [o \in Ops |-> NoConn]
    /\ idle \in {s \in [1..Cardinality(Conns) -> Conns] :
                    NoTwice(s) /\ Members(s) = Conns}
    /\ held = [c \in Conns |-> 0]
    /\ broken = {}
    /\ faults = 0

Goto(o, step) == pc' = [pc EXCEPT ![o] = step]

\* The session closes, or its transaction ends: the connection is the last in
\* the pool.  What the pool resets is the transaction, not the advisory lock.
GiveBack(o) ==
    /\ idle' = Append(idle, conn[o])
    /\ conn' = [conn EXCEPT ![o] = NoConn]

\* The first statement of a transaction borrows the oldest idle connection; one
\* older than db_pool_recycle_seconds is opened anew, without its locks.
Borrow(o) ==
    /\ conn[o] = NoConn
    /\ idle # <<>>
    /\ conn' = [conn EXCEPT ![o] = Head(idle)]
    /\ idle' = Tail(idle)
    /\ held' \in {held, [held EXCEPT ![Head(idle)] = 0]}
    /\ UNCHANGED <<broken, faults>>

\* db_pool_timeout_seconds passed with no connection idle.
PoolTimeout(o) ==
    /\ pc[o] \in {"start", "unlock"}
    /\ conn[o] = NoConn
    /\ idle = <<>>
    /\ Goto(o, "failed")
    /\ UNCHANGED <<conn, idle, held, broken, faults>>

Start(o) == pc[o] = "start" /\ Borrow(o) /\ Goto(o, "ask")

\* Mutant: the answer is not waited for.
GrantUnasked(o) ==
    /\ pc[o] = "ask"
    /\ held' = [held EXCEPT ![conn[o]] = @ + 1]
    /\ Goto(o, "body")
    /\ UNCHANGED <<conn, idle, broken, faults>>

\* pg_advisory_lock: granted when no other connection holds the lock; a
\* connection that holds it already gets it once more.
Grant(o) ==
    /\ pc[o] = "ask"
    /\ \A c \in Conns \ {conn[o]} : held[c] = 0
    /\ held' = [held EXCEPT ![conn[o]] = @ + 1]
    /\ Goto(o, "body")
    /\ UNCHANGED <<conn, idle, broken, faults>>

\* Mutants: no time limit for the lock; the connection is not given back.
WaitForEver(o) == FALSE /\ UNCHANGED vars

KeepConnection(o) ==
    /\ pc[o] = "ask"
    /\ \E c \in Conns \ {conn[o]} : held[c] > 0
    /\ Goto(o, "locked")
    /\ conn' = [conn EXCEPT ![o] = NoConn]
    /\ UNCHANGED <<idle, held, broken, faults>>

\* The statement times out while another connection holds the lock: the
\* operation answers that the project is locked by another one.
LockTimeout(o) ==
    /\ pc[o] = "ask"
    /\ \E c \in Conns \ {conn[o]} : held[c] > 0
    /\ Goto(o, "locked")
    /\ GiveBack(o)
    /\ UNCHANGED <<held, broken, faults>>

\* The body ends, or raises, with its transaction open.
Leave(o) ==
    /\ pc[o] = "body"
    /\ Goto(o, "unlock")
    /\ UNCHANGED <<conn, idle, held, broken, faults>>

\* The last statement of a writer's body, or the rollback of a failed one.
Commit(o) ==
    /\ o \in Writers
    /\ pc[o] = "body"
    /\ Goto(o, "unlock")
    /\ GiveBack(o)
    /\ UNCHANGED <<held, broken, faults>>

\* A statement of the body fails, and nobody rolls back before the unlock.
BreakTransaction(o) ==
    /\ o \in Writers
    /\ pc[o] = "body"
    /\ faults < MaxFaults /\ faults' = faults + 1
    /\ broken' = broken \cup {o}
    /\ Goto(o, "unlock")
    /\ UNCHANGED <<conn, idle, held>>

\* The unlock runs on the session's connection, or on the one it now borrows.
Unlock(o) ==
    /\ pc[o] = "unlock"
    /\ Goto(o, "release")
    /\ \/ conn[o] # NoConn /\ UNCHANGED <<conn, idle, held, broken, faults>>
       \/ Borrow(o)

\* Mutant: the answer of the unlock is taken for granted.
ReleaseBlindly(o) ==
    /\ pc[o] = "release"
    /\ Goto(o, "done")
    /\ held' = [held EXCEPT ![conn[o]] = @ - 1]
    /\ GiveBack(o)
    /\ UNCHANGED <<broken, faults>>

\* pg_advisory_unlock: on a connection without the lock it only warns, in an
\* aborted transaction it fails.  Then the session is closed.
Release(o) ==
    /\ pc[o] = "release"
    /\ IF o \in broken
       THEN Goto(o, "failed") /\ UNCHANGED held
       ELSE /\ Goto(o, "done")
            /\ held' = [held EXCEPT ![conn[o]] = IF @ > 0 THEN @ - 1 ELSE 0]
    /\ GiveBack(o)
    /\ UNCHANGED <<broken, faults>>

\* The connection is lost, or a cancellation strikes one of its statements and
\* it is closed: the server drops its locks.
LoseConnection(o) ==
    /\ conn[o] # NoConn
    /\ faults < MaxFaults /\ faults' = faults + 1
    /\ held' = [held EXCEPT ![conn[o]] = 0]
    /\ Goto(o, "failed")
    /\ GiveBack(o)
    /\ UNCHANGED broken

Step(o) ==
    \/ Start(o) \/ Grant(o) \/ LockTimeout(o) \/ PoolTimeout(o)
    \/ Leave(o) \/ Commit(o) \/ BreakTransaction(o)
    \/ Unlock(o) \/ Release(o) \/ LoseConnection(o)

Next == \E o \in Ops : Step(o)

Spec == Init /\ [][Next]_vars

\* Statements and time limits come to their end.
FairSpec == Spec /\ \A o \in Ops : WF_vars(Step(o))

-----------------------------------------------------------------------------
(* Properties.                                                             *)

\* Two operations are never in their bodies at once, even though a connection
\* that still holds the lock may take it again.
Exclusive == \A o, p \in Ops : pc[o] = "body" /\ pc[p] = "body" => o = p

\* Every connection is in the pool, once, or with one operation.
ConnsAccounted ==
    /\ \A o, p \in Ops : conn[o] # NoConn /\ conn[o] = conn[p] => o = p
    /\ NoTwice(idle)
    /\ \A c \in Conns : c \in Members(idle) <=> \A o \in Ops : conn[o] # c

\* Who is told that the project is locked by another operation is told so
\* while another operation is inside the lock.
LockedByAnother ==
    [][\A o \in Ops : pc[o] = "ask" /\ pc'[o] = "locked"
           => \E p \in Ops \ {o} : pc[p] \in Inside]_vars
=============================================================================
