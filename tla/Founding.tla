------------------------------ MODULE Founding -------------------------------
(***************************************************************************)
(* How the first users and organisations come to be, and how a user is     *)
(* known again (services/auth_service.py, the unauthenticated part of      *)
(* policy.py).  The bootstrap looks for users under an advisory lock of    *)
(* its own; a registration takes no lock; an unauthenticated request makes *)
(* the one organisation under another.                                     *)
(***************************************************************************)
EXTENDS Naturals, FiniteSets

CONSTANTS
  Founders,     \* concurrent requests
  Mails,        \* addresses they may give
  Signup        \* auth_allow_public_signup

ASSUME FoundingAssumption == Signup \in BOOLEAN /\ "free" \notin Founders

VARIABLES
  doing,        \* [op, mail, step] of each request
  users,        \* addresses of the users there are
  sentinel,     \* the bootstrap sentinel is stored
  locks,        \* holder of the advisory locks, "bootstrap" and "org"
  bootstraps,   \* bootstraps done
  orgs,         \* organisations without an owner, made for nobody
  owned,        \* users that own an organisation
  late,         \* history: a bootstrap was done when there were users
  crossed,      \* history: a registration came while a bootstrap was under way
  sessions      \* state of the session of a user: "none", "live", "over"

foundingVars == <<doing, users, sentinel, locks, bootstraps, orgs, owned, late, crossed,
                  sessions>>

Init ==
  /\ doing \in [Founders -> [op: {"bootstrap", "register", "unauth", "login"}, mail: Mails,
                             step: {"start"}]]
  /\ users = {} /\ sentinel = FALSE /\ locks = [k \in {"bootstrap", "org"} |-> "free"]
  /\ bootstraps = 0 /\ orgs = 0 /\ owned = {} /\ late = FALSE /\ crossed = FALSE
  /\ sessions = [m \in Mails |-> "none"]

Is(f, op, s) == doing[f].op = op /\ doing[f].step = s
Goto(f, s) == doing' = [doing EXCEPT ![f].step = s]
Take(f, k) == locks[k] = "free" /\ locks' = [locks EXCEPT ![k] = f]
Drop(k) == locks' = [locks EXCEPT ![k] = "free"]

\* Mutant: the default organisation is committed before its user.
OrgFirst(m) == owned' = owned \cup {m} /\ UNCHANGED users
\* an address has one user; the user and the default organisation come together
AddUser(m) == users' = users \cup {m} /\ owned' = owned \cup {m}

\* Mutant: the look at the sentinel and the users is not under the lock.
BootstrapLooks(f) ==
  /\ Is(f, "bootstrap", "start")
  /\ Goto(f, IF sentinel \/ users # {} THEN "refused" ELSE "hash")
  /\ UNCHANGED <<users, sentinel, locks, bootstraps, orgs, owned, late, crossed, sessions>>

\* bootstrap_user_async: lock, sentinel and users read; the password is hashed
\* in an executor before the user is written.  The sentinel is flushed before the
\* hashing, but nobody sees it before the commit, which ends the second step, and
\* who would insert another waits for the lock
BootstrapReads(f) ==
  /\ Is(f, "bootstrap", "start")
  /\ IF sentinel \/ users # {}
     THEN locks["bootstrap"] = "free" /\ Goto(f, "refused") /\ UNCHANGED <<locks, crossed>>
     ELSE Take(f, "bootstrap") /\ Goto(f, "hash") /\ crossed' = FALSE
  /\ UNCHANGED <<users, sentinel, bootstraps, orgs, owned, late, sessions>>
BootstrapWrites(f) ==
  /\ Is(f, "bootstrap", "hash")
  /\ Drop("bootstrap")
  /\ IF doing[f].mail \in users
     THEN Goto(f, "refused") /\ UNCHANGED <<users, owned, sentinel, bootstraps, late>>
     ELSE /\ AddUser(doing[f].mail) /\ Goto(f, "done")
          /\ sentinel' = TRUE /\ bootstraps' = bootstraps + 1
          /\ late' = (late \/ users # {})
  /\ UNCHANGED <<orgs, crossed, sessions>>

\* register_user_async: nothing but the index on the address stands in the way
Register(f) ==
  /\ Is(f, "register", "start")
  /\ IF ~Signup \/ doing[f].mail \in users
     THEN Goto(f, "refused") /\ UNCHANGED <<users, owned, crossed>>
     ELSE /\ AddUser(doing[f].mail) /\ Goto(f, "done")
          /\ crossed' = (crossed \/ locks["bootstrap"] # "free")
  /\ UNCHANGED <<sentinel, locks, bootstraps, orgs, late, sessions>>

\* _resolve_org_id_unauth_async: read, then read again under the lock; without
\* users the organisation belongs to nobody, and its slug is unique
AllOrgs == orgs + Cardinality(owned)
UnauthReads(f) ==
  /\ Is(f, "unauth", "start")
  /\ Goto(f, CASE AllOrgs = 0 -> "make" [] AllOrgs = 1 -> "done" [] OTHER -> "refused")
  /\ UNCHANGED <<users, sentinel, locks, bootstraps, orgs, owned, late, crossed, sessions>>
UnauthMakes(f) ==
  /\ Is(f, "unauth", "make") /\ locks["org"] = "free"
  /\ \/ /\ AllOrgs = 0 /\ orgs' = orgs + 1 /\ Goto(f, "done")
     \/ /\ AllOrgs = 1 /\ Goto(f, "done") /\ UNCHANGED orgs
     \/ /\ AllOrgs > 1 /\ Goto(f, "refused") /\ UNCHANGED orgs
  /\ UNCHANGED <<users, sentinel, locks, bootstraps, owned, late, crossed, sessions>>

\* authenticate_user_async and create_session_async, a logout or an expiry
Login(f) ==
  /\ Is(f, "login", "start")
  /\ IF doing[f].mail \in users
     THEN Goto(f, "logged_in") /\ sessions' = [sessions EXCEPT ![doing[f].mail] = "live"]
     ELSE Goto(f, "refused") /\ UNCHANGED sessions
  /\ UNCHANGED <<users, sentinel, locks, bootstraps, orgs, owned, late, crossed>>
Logout(f) ==
  /\ Is(f, "login", "logged_in") /\ Goto(f, "done")
  /\ sessions' = [sessions EXCEPT ![doing[f].mail] = "over"]
  /\ UNCHANGED <<users, sentinel, locks, bootstraps, orgs, owned, late, crossed>>

Served ==
  /\ \A f \in Founders : doing[f].step \in {"done", "refused"}
  /\ UNCHANGED foundingVars

Next ==
  \/ \E f \in Founders :
       \/ BootstrapReads(f) \/ BootstrapWrites(f) \/ Register(f)
       \/ UnauthReads(f) \/ UnauthMakes(f) \/ Login(f) \/ Logout(f)
  \/ Served

Spec == Init /\ [][Next]_foundingVars

-----------------------------------------------------------------------------
TypeOK ==
  /\ users \subseteq Mails /\ owned \subseteq users
  /\ sentinel \in BOOLEAN /\ late \in BOOLEAN /\ crossed \in BOOLEAN
  /\ bootstraps \in Nat /\ orgs \in Nat
  /\ sessions \in [Mails -> {"none", "live", "over"}]

\* There is one bootstrap at most, and it meets users only when a registration,
\* which takes no lock, came between its look and its write
\* (auth_service.py:121-146 and 165).
BootstrapIsFirst == bootstraps <= 1 /\ (late => crossed)

\* However many requests come without a user, they make one organisation
\* (policy.py:36-78).
OneOrgForNobody == orgs <= 1

\* What is made once is made once: both of the above.
FoundingSound == BootstrapIsFirst /\ OneOrgForNobody
=============================================================================
