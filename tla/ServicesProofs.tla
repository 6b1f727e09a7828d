---------------------------- MODULE ServicesProofs ----------------------------
(***************************************************************************)
(* Founding: for any number of requests and addresses, what founds the     *)
(* service is done once.  A bootstrap under way holds its lock, has found   *)
(* no sentinel and, unless a registration has crossed it, no user.         *)
(* RateLimit: for any number of clients, requests and windows, no client   *)
(* is allowed more requests than the limit.  Redis counts no less than the *)
(* process allows: in the window that is open, the count of a client is at *)
(* least the number of its requests that were allowed in it; and what a    *)
(* lost answer has counted is not allowed.                                 *)
(* FileCaches, Routing, GraphMetrics, Resolve and ApiMatching follow, each *)
(* with its invariant, and last what holds of all of them side by side.    *)
(***************************************************************************)
EXTENDS MCServices, FiniteSetTheorems, WellFoundedInduction, TLAPS

-----------------------------------------------------------------------------
(* Founding.                                                               *)

DoingTypes ==
  doing \in [Founders -> [op: {"bootstrap", "register", "unauth", "login"}, mail: Mails,
                          step: {"start", "hash", "make", "logged_in", "done", "refused"}]]
LockTypes == locks \in [{"bootstrap", "org"} -> Founders \cup {"free"}]

Types == TypeOK /\ DoingTypes /\ LockTypes /\ IsFiniteSet(owned)

\* the sentinel stands for the one bootstrap, without which none is late
SentinelCounts ==
  /\ bootstraps = IF sentinel THEN 1 ELSE 0
  /\ late => sentinel
UnderWay ==
  \A f \in Founders : Is(f, "bootstrap", "hash") =>
    /\ locks["bootstrap"] = f
    /\ ~sentinel
    /\ users = {} \/ crossed

IInv == Types /\ SentinelCounts /\ UnderWay /\ FoundingSound

-----------------------------------------------------------------------------
\* Nothing has been founded at first.
LEMMA InitEstablishes == Init => IInv
<1> SUFFICES ASSUME Init PROVE IInv OBVIOUS
<1>1. IsFiniteSet(owned) BY FS_EmptySet DEF Init
<1>2. TypeOK BY DEF Init, TypeOK
<1>3. DoingTypes /\ LockTypes BY DEF Init, DoingTypes, LockTypes
<1>4. UnderWay BY DEF Init, UnderWay, Is
<1>5. SentinelCounts /\ FoundingSound
  BY DEF Init, SentinelCounts, FoundingSound, BootstrapIsFirst, OneOrgForNobody
<1> QED BY <1>1, <1>2, <1>3, <1>4, <1>5 DEF IInv, Types

\* Only the requests that do not bootstrap are moved by an action of another:
\* a request that is hashing was hashing before, or has just begun to.
LEMMA HashingIsOld ==
  ASSUME Types, NEW f \in Founders, NEW g \in Founders, NEW s,
         Goto(g, s), s # "hash", (Is(f, "bootstrap", "hash"))'
  PROVE  f # g /\ Is(f, "bootstrap", "hash")
BY DEF Types, DoingTypes, Goto, Is

\* A lock that is dropped is free, and has its holder no longer.
LEMMA FreeIsNobody == "free" \notin Founders
BY FoundingAssumption

\* The bootstrap that looks finds nothing, and holds the lock from then on.
LEMMA ReadsKeeps ==
  ASSUME IInv, NEW g \in Founders, BootstrapReads(g)
  PROVE  IInv'
<1> USE DEF IInv, Types
<1>1. CASE sentinel \/ users # {}
  <2>1. /\ Goto(g, "refused")
        /\ UNCHANGED <<users, sentinel, locks, bootstraps, orgs, owned, late, crossed, sessions>>
    BY <1>1 DEF BootstrapReads
  <2>2. DoingTypes' BY <2>1 DEF Goto, DoingTypes
  <2>3. TypeOK' /\ LockTypes' /\ IsFiniteSet(owned)' /\ SentinelCounts' /\ FoundingSound'
    BY <2>1 DEF TypeOK, LockTypes, SentinelCounts, FoundingSound, BootstrapIsFirst,
                OneOrgForNobody
  <2>4. UnderWay' BY <2>1, HashingIsOld DEF UnderWay
  <2> QED BY <2>2, <2>3, <2>4
<1>2. CASE ~sentinel /\ users = {}
  <2>1. /\ locks["bootstrap"] = "free" /\ locks' = [locks EXCEPT !["bootstrap"] = g]
        /\ Goto(g, "hash") /\ crossed' = FALSE
        /\ UNCHANGED <<users, sentinel, bootstraps, orgs, owned, late, sessions>>
    BY <1>2 DEF BootstrapReads, Take
  <2>2. DoingTypes' BY <2>1 DEF Goto, DoingTypes
  <2>3. TypeOK' /\ LockTypes' /\ IsFiniteSet(owned)' BY <2>1 DEF TypeOK, LockTypes
  <2>4. ~late BY <1>2 DEF SentinelCounts
  <2>5. SentinelCounts' /\ FoundingSound'
    BY <2>1, <2>4 DEF SentinelCounts, FoundingSound, BootstrapIsFirst, OneOrgForNobody
  <2>6. ASSUME NEW f \in Founders, f # g, Is(f, "bootstrap", "hash")' PROVE FALSE
    <3>1. Is(f, "bootstrap", "hash") BY <2>1, <2>6 DEF Goto, Is, DoingTypes
    <3> QED BY <3>1, <2>1, FreeIsNobody DEF UnderWay
  <2>7. locks'["bootstrap"] = g /\ ~sentinel' /\ users' = {}
    BY <2>1, <1>2 DEF LockTypes
  <2>8. UnderWay' BY <2>6, <2>7 DEF UnderWay
  <2> QED BY <2>2, <2>3, <2>5, <2>8
<1> QED BY <1>1, <1>2

\* The bootstrap that writes is the only one, and the first.
LEMMA WritesKeeps ==
  ASSUME IInv, NEW g \in Founders, BootstrapWrites(g)
  PROVE  IInv'
<1> USE DEF IInv, Types
<1>1. /\ Is(g, "bootstrap", "hash") /\ locks' = [locks EXCEPT !["bootstrap"] = "free"]
      /\ UNCHANGED <<orgs, crossed, sessions>>
  BY DEF BootstrapWrites, Drop
<1>2. locks["bootstrap"] = g /\ ~sentinel /\ (users = {} \/ crossed)
  BY <1>1 DEF UnderWay
<1>3. LockTypes' BY <1>1 DEF LockTypes
<1>4. PICK s \in {"refused", "done"} : Goto(g, s) BY DEF BootstrapWrites
<1>5. DoingTypes' BY <1>4 DEF Goto, DoingTypes
<1>6. UnderWay'
  <2> SUFFICES ASSUME NEW f \in Founders, Is(f, "bootstrap", "hash")' PROVE FALSE
    BY DEF UnderWay
  <2>1. f # g /\ Is(f, "bootstrap", "hash") BY <1>4, HashingIsOld
  <2> QED BY <2>1, <1>2 DEF UnderWay
<1>7. CASE doing[g].mail \in users
  <2>1. UNCHANGED <<users, owned, sentinel, bootstraps, late>>
    BY <1>7 DEF BootstrapWrites
  <2> QED BY <2>1, <1>1, <1>3, <1>5, <1>6 DEF TypeOK, SentinelCounts, FoundingSound,
                BootstrapIsFirst, OneOrgForNobody
<1>8. CASE doing[g].mail \notin users
  <2>1. /\ users' = users \cup {doing[g].mail} /\ owned' = owned \cup {doing[g].mail}
        /\ sentinel' = TRUE /\ bootstraps' = bootstraps + 1 /\ late' = (late \/ users # {})
    BY <1>8 DEF BootstrapWrites, AddUser
  <2>2. doing[g].mail \in Mails BY DEF DoingTypes
  <2>3. TypeOK' BY <1>1, <2>1, <2>2 DEF TypeOK
  <2>4. IsFiniteSet(owned') BY <2>1, FS_AddElement
  <2>5. ~late /\ bootstraps = 0 BY <1>2 DEF SentinelCounts
  <2>6. late' => crossed' BY <1>1, <1>2, <2>1, <2>5
  <2>7. SentinelCounts' /\ FoundingSound'
    BY <1>1, <2>1, <2>5, <2>6 DEF SentinelCounts, FoundingSound, BootstrapIsFirst,
                                  OneOrgForNobody
  <2> QED BY <1>3, <1>5, <1>6, <2>3, <2>4, <2>7
<1> QED BY <1>7, <1>8

\* A registration during a bootstrap is noted.
LEMMA RegisterKeeps ==
  ASSUME IInv, NEW g \in Founders, Register(g)
  PROVE  IInv'
<1> USE DEF IInv, Types
<1>1. UNCHANGED <<sentinel, locks, bootstraps, orgs, late, sessions>> BY DEF Register
<1>2. PICK s \in {"refused", "done"} : Goto(g, s) BY DEF Register
<1>3. DoingTypes' /\ LockTypes' BY <1>1, <1>2 DEF Goto, DoingTypes, LockTypes
<1>4. CASE ~Signup \/ doing[g].mail \in users
  <2>1. UNCHANGED <<users, owned, crossed>> BY <1>4 DEF Register
  <2>2. UnderWay' BY <1>1, <1>2, <2>1, HashingIsOld DEF UnderWay
  <2> QED BY <1>1, <1>3, <2>1, <2>2 DEF TypeOK, SentinelCounts, FoundingSound,
                BootstrapIsFirst, OneOrgForNobody
<1>5. CASE Signup /\ doing[g].mail \notin users
  <2>1. /\ users' = users \cup {doing[g].mail} /\ owned' = owned \cup {doing[g].mail}
        /\ crossed' = (crossed \/ locks["bootstrap"] # "free")
    BY <1>5 DEF Register, AddUser
  <2>2. doing[g].mail \in Mails BY DEF DoingTypes
  <2>3. TypeOK' BY <1>1, <2>1, <2>2 DEF TypeOK
  <2>4. IsFiniteSet(owned') BY <2>1, FS_AddElement
  <2>5. SentinelCounts' /\ FoundingSound'
    BY <1>1, <2>1 DEF SentinelCounts, FoundingSound, BootstrapIsFirst, OneOrgForNobody
  <2>6. ASSUME NEW f \in Founders, Is(f, "bootstrap", "hash")'
        PROVE  locks'["bootstrap"] = f /\ ~sentinel' /\ crossed'
    <3>1. Is(f, "bootstrap", "hash") BY <1>2, <2>6, HashingIsOld
    <3> QED BY <3>1, <1>1, <2>1, FreeIsNobody DEF UnderWay
  <2>7. UnderWay' BY <2>6 DEF UnderWay
  <2> QED BY <1>3, <2>3, <2>4, <2>5, <2>7
<1> QED BY <1>4, <1>5

\* The organisation for nobody is made when there is none at all.
LEMMA UnauthKeeps ==
  ASSUME IInv, NEW g \in Founders, UnauthReads(g) \/ UnauthMakes(g)
  PROVE  IInv'
<1> USE DEF IInv, Types
<1>1. UNCHANGED <<users, sentinel, locks, bootstraps, owned, late, crossed, sessions>>
  BY DEF UnauthReads, UnauthMakes
<1>2. PICK s \in {"make", "done", "refused"} : Goto(g, s)
  BY DEF UnauthReads, UnauthMakes
<1>3. DoingTypes' /\ LockTypes' BY <1>1, <1>2 DEF Goto, DoingTypes, LockTypes
<1>4. UnderWay' BY <1>1, <1>2, HashingIsOld DEF UnderWay
<1>5. orgs' \in Nat /\ orgs' <= 1
  <2>1. orgs \in Nat /\ orgs <= 1 BY DEF TypeOK, FoundingSound, OneOrgForNobody
  <2>2. Cardinality(owned) \in Nat BY FS_CardinalityType
  <2>3. orgs' = orgs \/ (AllOrgs = 0 /\ orgs' = orgs + 1)
    BY DEF UnauthReads, UnauthMakes
  <2>4. CASE orgs' = orgs BY <2>4, <2>1
  <2>5. CASE AllOrgs = 0 /\ orgs' = orgs + 1
    <3>1. orgs + Cardinality(owned) = 0 BY <2>5 DEF AllOrgs
    <3>2. orgs = 0 BY <3>1, <2>1, <2>2
    <3> QED BY <3>2, <2>5
  <2> QED BY <2>3, <2>4, <2>5
<1> QED BY <1>1, <1>3, <1>4, <1>5 DEF TypeOK, SentinelCounts, FoundingSound,
             BootstrapIsFirst, OneOrgForNobody

\* Sessions come and go without touching any of it.
LEMMA LoginKeeps ==
  ASSUME IInv, NEW g \in Founders, Login(g) \/ Logout(g)
  PROVE  IInv'
<1> USE DEF IInv, Types
<1>1. UNCHANGED <<users, sentinel, locks, bootstraps, orgs, owned, late, crossed>>
  BY DEF Login, Logout
<1>2. PICK s \in {"logged_in", "done", "refused"} : Goto(g, s) BY DEF Login, Logout
<1>3. DoingTypes' /\ LockTypes' BY <1>1, <1>2 DEF Goto, DoingTypes, LockTypes
<1>4. UnderWay' BY <1>1, <1>2, HashingIsOld DEF UnderWay
<1>5. sessions' \in [Mails -> {"none", "live", "over"}]
  BY DEF Login, Logout, TypeOK
<1> QED BY <1>1, <1>3, <1>4, <1>5 DEF TypeOK, SentinelCounts, FoundingSound,
             BootstrapIsFirst, OneOrgForNobody

\* The invariant is inductive.
LEMMA StepKeeps == IInv /\ [Next]_foundingVars => IInv'
<1> SUFFICES ASSUME IInv, [Next]_foundingVars PROVE IInv' OBVIOUS
<1>1. CASE UNCHANGED foundingVars
  BY <1>1 DEF foundingVars, IInv, Types, TypeOK, DoingTypes, LockTypes, SentinelCounts,
              UnderWay, Is, FoundingSound, BootstrapIsFirst, OneOrgForNobody
<1>2. CASE Served BY <1>1, <1>2 DEF Served
<1>3. ASSUME NEW f \in Founders,
             \/ BootstrapReads(f) \/ BootstrapWrites(f) \/ Register(f)
             \/ UnauthReads(f) \/ UnauthMakes(f) \/ Login(f) \/ Logout(f)
      PROVE  IInv'
  BY <1>3, ReadsKeeps, WritesKeeps, RegisterKeeps, UnauthKeeps, LoginKeeps
<1> QED BY <1>1, <1>2, <1>3 DEF Next

\* One bootstrap, first but for a registration that crossed it, and one
\* organisation for nobody (auth_service.py:121-146, policy.py:36-78).
THEOREM FoundedOnce == Spec => []FoundingSound
<1>1. IInv => FoundingSound BY DEF IInv
<1> QED BY <1>1, InitEstablishes, StepKeeps, PTL DEF Spec

\* Who owns an organisation is a user, and a session is of an address
\* (auth_service.py:121, policy.py:36).
THEOREM FoundingTypeCorrect == Spec => []TypeOK
<1>1. IInv => TypeOK BY DEF IInv, Types
<1> QED BY <1>1, InitEstablishes, StepKeeps, PTL DEF Spec

-----------------------------------------------------------------------------
(* RateLimit.                                                              *)

RateTypes == RateTypeOK /\ window \in [now : Nat, of : [Asking -> Nat]]

Allowed(c, w) == {r \in Asking : at[r] = "allowed" /\ Id(r) = c /\ window.of[r] = w}

\* the windows of the requests are past or open
Dated == \A r \in Asking : window.of[r] <= window.now
CountedAll == \A c \in Asking : Cardinality(Allowed(c, window.now)) <= counted[c]
WithinLimit == \A c \in Asking, w \in Nat : Cardinality(Allowed(c, w)) <= Limit

RateInv == RateTypes /\ Dated /\ CountedAll /\ WithinLimit

-----------------------------------------------------------------------------
\* Requests are counted under the name of one of those who ask.
LEMMA IdIsAsking ==
  ASSUME RateAssumption, NEW r \in Asking
  PROVE  Id(r) \in Asking
BY DEF RateAssumption, Id

\* What is allowed of a client is part of a finite set.
LEMMA AllowedIsFinite ==
  ASSUME RateAssumption, NEW c, NEW w
  PROVE  IsFiniteSet(Allowed(c, w)) /\ Cardinality(Allowed(c, w)) \in Nat
BY FS_Subset, FS_CardinalityType DEF RateAssumption, Allowed

\* Nothing is allowed at first.
LEMMA RateInitEstablishes == RateAssumption /\ RateInit => RateInv
<1> SUFFICES ASSUME RateAssumption, RateInit PROVE RateInv OBVIOUS
<1> USE DEF RateInit
<1>1. RateTypes
  <2>1. window \in [now : Nat, of : [Asking -> Nat]] /\ window.now = 0 OBVIOUS
  <2>2. window.now \in 0..MaxWindows BY <2>1 DEF RateAssumption
  <2>3. at \in [Asking -> {"start", "no_script", "allowed", "refused"}] OBVIOUS
  <2>4. shaKnown \in BOOLEAN /\ scriptLoaded \in BOOLEAN OBVIOUS
  <2>5. counted \in [Asking -> Nat] OBVIOUS
  <2> QED BY <2>1, <2>2, <2>3, <2>4, <2>5 DEF RateTypes, RateTypeOK
<1>2. \A c, w : Allowed(c, w) = {} BY DEF Allowed
<1>3. Cardinality({}) = 0 BY FS_EmptySet
<1>4. \A c, w : Cardinality(Allowed(c, w)) = 0 BY <1>2, <1>3
<1>5. window.now = 0 /\ \A r \in Asking : window.of[r] = 0 /\ counted[r] = 0 OBVIOUS
<1>6. Dated /\ CountedAll /\ WithinLimit
  BY <1>4, <1>5 DEF Dated, CountedAll, WithinLimit, RateAssumption
<1> QED BY <1>1, <1>6 DEF RateInv

\* Where no request comes to be allowed, and those that are keep their window,
\* no more are allowed than before.
LEMMA NoneAllowed ==
  ASSUME RateAssumption, RateInv, RateTypes', Dated',
         \A r \in Asking : at'[r] = "allowed" => at[r] = "allowed" /\ window'.of[r] = window.of[r],
         window'.now = window.now, \A c \in Asking : counted'[c] >= counted[c]
  PROVE  RateInv'
<1>1. \A c, w : Allowed(c, w)' \subseteq Allowed(c, w) BY DEF Allowed, Id
<1>2. \A c, w : Cardinality(Allowed(c, w)') <= Cardinality(Allowed(c, w))
  BY <1>1, AllowedIsFinite, FS_Subset
<1>3. \A c, w : Cardinality(Allowed(c, w)') \in Nat
  BY <1>1, AllowedIsFinite, FS_Subset, FS_CardinalityType
<1>4. CountedAll'
  <2> SUFFICES ASSUME NEW c \in Asking
      PROVE  Cardinality(Allowed(c, window.now)') <= counted'[c]
    BY DEF CountedAll, Allowed, Id
  <2>1. counted[c] \in Nat /\ counted'[c] \in Nat BY DEF RateInv, RateTypes, RateTypeOK
  <2>2. Cardinality(Allowed(c, window.now)) <= counted[c] BY DEF RateInv, CountedAll
  <2> QED BY <2>1, <2>2, <1>2, <1>3, AllowedIsFinite
<1>5. WithinLimit'
  BY <1>2, <1>3, AllowedIsFinite DEF WithinLimit, RateInv, RateAssumption
<1> QED BY <1>4, <1>5 DEF RateInv

\* A request that is counted is allowed only while the count is within the limit.
LEMMA CountKeeps ==
  ASSUME RateAssumption, RateInv, NEW r \in Asking, at[r] \in {"start", "no_script"},
         Count(r), Answer(r, counted[Id(r)] + 1),
         shaKnown' \in BOOLEAN, scriptLoaded' \in BOOLEAN
  PROVE  RateInv'
<1> DEFINE n == counted[Id(r)] + 1
<1>1. Id(r) \in Asking /\ counted \in [Asking -> Nat] /\ at[r] # "allowed"
  BY IdIsAsking DEF RateInv, RateTypes, RateTypeOK
<1>2. /\ window' = [window EXCEPT !.of[r] = window.now]
      /\ counted' = [counted EXCEPT ![Id(r)] = @ + 1]
      /\ at' = [at EXCEPT ![r] = IF n <= Limit THEN "allowed" ELSE "refused"]
  BY DEF Count, Answer
<1>3. RateTypes' /\ Dated'
  BY <1>1, <1>2 DEF RateInv, RateTypes, RateTypeOK, Dated, RateAssumption
<1>4. window'.now = window.now /\ \A c \in Asking : counted'[c] >= counted[c]
  BY <1>1, <1>2 DEF RateInv, RateTypes, RateTypeOK
<1>5. CASE n > Limit
  <2>1. \A q \in Asking : at'[q] = "allowed" => at[q] = "allowed" /\ window'.of[q] = window.of[q]
    BY <1>1, <1>2, <1>5 DEF RateInv, RateTypes, RateTypeOK, RateAssumption
  <2> QED BY <2>1, <1>3, <1>4, NoneAllowed
<1>6. CASE n <= Limit
  <2>1. \A c, w : Allowed(c, w)' = IF c = Id(r) /\ w = window.now THEN Allowed(c, w) \cup {r}
                                  ELSE Allowed(c, w)
    BY <1>1, <1>2, <1>6 DEF Allowed, Id, RateInv, RateTypes, RateTypeOK
  <2>2. Cardinality(Allowed(Id(r), window.now) \cup {r})
          <= Cardinality(Allowed(Id(r), window.now)) + 1
    <3>1. r \notin Allowed(Id(r), window.now) BY <1>1 DEF Allowed
    <3>2. /\ IsFiniteSet(Allowed(Id(r), window.now))
          /\ Cardinality(Allowed(Id(r), window.now)) \in Nat
      BY AllowedIsFinite
    <3>3. Cardinality(Allowed(Id(r), window.now) \cup {r})
            = Cardinality(Allowed(Id(r), window.now)) + 1
      BY <3>1, <3>2, FS_AddElement
    <3> QED BY <3>2, <3>3
  <2>3. Cardinality(Allowed(Id(r), window.now)) <= counted[Id(r)]
    BY <1>1 DEF RateInv, CountedAll
  <2>4. Cardinality(Allowed(Id(r), window.now) \cup {r}) \in Nat
    BY AllowedIsFinite, FS_AddElement, FS_CardinalityType
  <2>5. Cardinality(Allowed(Id(r), window.now) \cup {r}) <= n
    BY <2>2, <2>3, <2>4, <1>1, AllowedIsFinite
  <2>6. CountedAll'
    <3> SUFFICES ASSUME NEW c \in Asking
        PROVE  Cardinality(Allowed(c, window.now)') <= counted'[c]
      BY DEF CountedAll, Allowed, Id
    <3>1. CASE c = Id(r) BY <3>1, <2>1, <2>5, <1>1, <1>2, <1>4
    <3>2. CASE c # Id(r) BY <3>2, <2>1, <1>1, <1>2, <1>4 DEF RateInv, CountedAll
    <3> QED BY <3>1, <3>2
  <2>7. WithinLimit'
    <3> SUFFICES ASSUME NEW c \in Asking, NEW w \in Nat
        PROVE  Cardinality(Allowed(c, w)') <= Limit
      BY DEF WithinLimit, Allowed, Id
    <3>1. CASE c = Id(r) /\ w = window.now
      <4>1. Allowed(c, w)' = Allowed(Id(r), window.now) \cup {r} BY <3>1, <2>1
      <4>2. n \in Nat /\ Limit \in Nat BY <1>1 DEF RateAssumption
      <4> QED BY <4>1, <4>2, <2>4, <2>5, <1>6
    <3>2. CASE ~(c = Id(r) /\ w = window.now)
      BY <3>2, <2>1 DEF RateInv, WithinLimit
    <3> QED BY <3>1, <3>2
  <2> QED BY <2>6, <2>7, <1>3 DEF RateInv
<1> QED BY <1>1, <1>5, <1>6 DEF RateAssumption

\* A request without an answer is refused, whether or not it was counted.
LEMMA NoAnswerKeeps ==
  ASSUME RateAssumption, RateInv, NEW r \in Asking, NoAnswer(r)
  PROVE  RateInv'
<1>1. Id(r) \in Asking /\ at[r] # "allowed" BY IdIsAsking DEF NoAnswer
<1>2. /\ at' = [at EXCEPT ![r] = "refused"] /\ UNCHANGED <<shaKnown, scriptLoaded>>
      /\ Count(r) \/ UNCHANGED <<counted, window>>
  BY DEF NoAnswer
<1>3. RateTypes' /\ Dated' /\ window'.now = window.now
  BY <1>1, <1>2 DEF RateInv, RateTypes, RateTypeOK, Dated, RateAssumption, Count
<1>4. \A q \in Asking : at'[q] = "allowed" => at[q] = "allowed" /\ window'.of[q] = window.of[q]
  BY <1>1, <1>2 DEF RateInv, RateTypes, RateTypeOK, Count
<1>5. \A c \in Asking : counted'[c] >= counted[c]
  BY <1>1, <1>2 DEF RateInv, RateTypes, RateTypeOK, Count
<1> QED BY <1>3, <1>4, <1>5, NoneAllowed

\* A new window has no requests yet.
LEMMA PassesKeeps ==
  ASSUME RateAssumption, RateInv, WindowPasses
  PROVE  RateInv'
<1>1. /\ window' = [window EXCEPT !.now = @ + 1] /\ counted' = [r \in Asking |-> 0]
      /\ window.now < MaxWindows /\ UNCHANGED <<at, shaKnown, scriptLoaded>>
  BY DEF WindowPasses
<1>2. RateTypes' /\ Dated' /\ window'.of = window.of /\ window'.now = window.now + 1
  BY <1>1 DEF RateInv, RateTypes, RateTypeOK, Dated, RateAssumption
<1>3. \A c, w : Allowed(c, w)' = Allowed(c, w) BY <1>1, <1>2 DEF Allowed, Id
<1>4. \A c : Allowed(c, window.now + 1) = {}
  BY DEF Allowed, RateInv, Dated, RateTypes, RateTypeOK, RateAssumption
<1>5. CountedAll'
  <2> SUFFICES ASSUME NEW c \in Asking
      PROVE  Cardinality(Allowed(c, window.now)') <= counted'[c]
    BY DEF CountedAll, Allowed, Id
  <2> QED BY <1>1, <1>2, <1>3, <1>4, FS_EmptySet
<1>6. WithinLimit' BY <1>3 DEF RateInv, WithinLimit
<1> QED BY <1>2, <1>5, <1>6 DEF RateInv

\* The invariant is inductive.
LEMMA RateStepKeeps == RateAssumption /\ RateInv /\ [RateNext]_rateVars => RateInv'
<1> SUFFICES ASSUME RateAssumption, RateInv, [RateNext]_rateVars PROVE RateInv' OBVIOUS
<1>1. CASE UNCHANGED rateVars \/ AllAnswered
  <2>1. UNCHANGED rateVars BY <1>1 DEF AllAnswered
  <2>2. RateTypes' /\ Dated' BY <2>1 DEF rateVars, RateInv, RateTypes, RateTypeOK, Dated
  <2> QED BY <2>1, <2>2, NoneAllowed DEF rateVars, RateInv, RateTypes, RateTypeOK
<1>2. CASE ScriptsFlushed
  <2>1. RateTypes' /\ Dated' BY <1>2 DEF ScriptsFlushed, RateInv, RateTypes, RateTypeOK, Dated
  <2> QED BY <2>1, <1>2, NoneAllowed DEF ScriptsFlushed, RateInv, RateTypes, RateTypeOK
<1>3. CASE WindowPasses BY <1>3, PassesKeeps
<1>4. ASSUME NEW r \in Asking, LoadScript(r) \/ EvalSha(r) \/ Eval(r) \/ NoAnswer(r)
      PROVE  RateInv'
  <2>1. CASE LoadScript(r)
    <3>1. RateTypes' /\ Dated' BY <2>1 DEF LoadScript, RateInv, RateTypes, RateTypeOK, Dated
    <3> QED BY <3>1, <2>1, NoneAllowed DEF LoadScript, RateInv, RateTypes, RateTypeOK
  <2>2. CASE EvalSha(r) /\ scriptLoaded
    BY <2>2, CountKeeps DEF EvalSha, RateInv, RateTypes, RateTypeOK
  <2>3. CASE EvalSha(r) /\ ~scriptLoaded
    <3>1. at[r] = "start" /\ at' = [at EXCEPT ![r] = "no_script"]
          /\ UNCHANGED <<counted, window, shaKnown, scriptLoaded>>
      BY <2>3 DEF EvalSha
    <3>2. RateTypes' /\ Dated' BY <3>1 DEF RateInv, RateTypes, RateTypeOK, Dated
    <3>3. \A q \in Asking : at'[q] = "allowed" => at[q] = "allowed"
      BY <3>1 DEF RateInv, RateTypes, RateTypeOK
    <3> QED BY <3>1, <3>2, <3>3, NoneAllowed DEF RateInv, RateTypes, RateTypeOK
  <2>4. CASE Eval(r) BY <2>4, CountKeeps DEF Eval, RateInv, RateTypes, RateTypeOK
  <2>5. CASE NoAnswer(r) BY <2>5, NoAnswerKeeps
  <2> QED BY <1>4, <2>1, <2>2, <2>3, <2>4, <2>5
<1> QED BY <1>1, <1>2, <1>3, <1>4 DEF RateNext

\* No client is allowed more requests in a window than the limit
\* (rate_limit.py:58-69, 127-139).
THEOREM LimitAlwaysHolds ==
  ASSUME RateAssumption
  PROVE  RateSpec => []LimitHolds
<1>1. RateInv => LimitHolds
  <2> SUFFICES ASSUME RateInv, NEW c \in Asking, NEW w \in 0..MaxWindows
      PROVE  Cardinality(Allowed(c, w)) <= Limit
    BY DEF LimitHolds, Allowed
  <2> QED BY DEF RateInv, WithinLimit, RateAssumption
<1>2. RateInit => RateInv BY RateInitEstablishes
<1>3. RateInv /\ [RateNext]_rateVars => RateInv' BY RateStepKeeps
<1> QED BY <1>1, <1>2, <1>3, PTL DEF RateSpec

\* Counts are numbers, and the windows within their bound (rate_limit.py:58).
THEOREM RateTypeCorrect == ASSUME RateAssumption PROVE RateSpec => []RateTypeOK
<1>1. RateInv => RateTypeOK BY DEF RateInv, RateTypes
<1>2. RateInit => RateInv BY RateInitEstablishes
<1>3. RateInv /\ [RateNext]_rateVars => RateInv' BY RateStepKeeps
<1> QED BY <1>1, <1>2, <1>3, PTL DEF RateSpec

-----------------------------------------------------------------------------
(* FileCaches.  A request that nothing has crossed knows of the file and of *)
(* the index what is there now; the step that crosses it marks it torn.  A  *)
(* search result the index has left behind has a sweep still to come, or    *)
(* says that there is none; and disk and index differ only while a change   *)
(* waits for its scan.                                                      *)

ReaderAsks == [op : {Nothing, "search"} \cup PackKinds,
           at : {"start", "query", "get", "read", "fill", "over"},
           hash : Contents \cup {Nothing}, text : Contents \cup {Nothing, Empty}, torn : BOOLEAN]
Changing == [op : {Nothing, "mutate", "scan"},
             at : {"start", "sweep", "unlink", "queued", "done", "failed"},
             keys : SUBSET (PackKeys \cup {SearchKey})]
CacheTypes ==
  /\ CachesTypeOK
  /\ reader \in [Readers -> ReaderAsks] /\ changer \in [Changers -> Changing]

\* what a request that nothing has disturbed knows of file and index
Knows(q) ==
  /\ q.at = "query" => q.op = "search"
  /\ q.op \in PackKinds => q.hash \in Contents
  /\ q.at \in {"get", "read"} => q.op \in PackKinds /\ (~q.torn => q.hash = disk /\ disk = indexed)
  /\ q.at = "fill" /\ q.op = "search" => q.text \in Contents /\ (~q.torn => q.text = indexed)
  /\ q.at = "fill" /\ q.op \in PackKinds =>
       /\ q.text \in Contents \cup {Empty}
       /\ ~q.torn => q.text = q.hash \/ (q.op = "file" /\ q.text = Empty)
ReadersKnow == \A r \in Readers : Knows(reader[r])
\* who is still to take the search result away
Takes(c) ==
  /\ changer[c].op = "scan"
  /\ changer[c].at = "sweep" \/ (changer[c].at = "unlink" /\ SearchKey \in changer[c].keys)
SearchTaken ==
  found \notin {Nothing, indexed} => unswept \/ storedLate \/ \E c \in Changers : Takes(c)
\* whose change the index has not taken yet
Waits(c) == changer[c].op = "mutate" /\ changer[c].at \in {"sweep", "unlink", "queued", "failed"}
EditsWait == disk # indexed => \E c \in Changers : Waits(c)

CacheInv == CacheTypes /\ ReadersKnow /\ SearchTaken /\ PackMatchesHash /\ EditsWait

LEMMA CachesInitEstablishes == CachesAssumption /\ CachesInit => CacheInv
<1> SUFFICES ASSUME CachesAssumption, CachesInit PROVE CacheInv OBVIOUS
<1>1. disk \in Contents /\ indexed = disk BY DEF CachesAssumption, CachesInit
<1>2. CacheTypes
  BY <1>1 DEF CachesInit, CacheTypes, CachesTypeOK, ReaderAsks, Changing, PackKeys, Nothing
<1>3. ReadersKnow BY DEF CachesInit, ReadersKnow, Knows, Nothing, PackKinds
<1>4. SearchTaken /\ EditsWait BY <1>1 DEF CachesInit, SearchTaken, EditsWait
<1>5. PackMatchesHash BY DEF CachesInit, PackMatchesHash
<1> QED BY <1>2, <1>3, <1>4, <1>5 DEF CacheInv

\* What is kept of the search result and of the changes by a step of a request that
\* stores nothing.
LEMMA ReaderKeeps ==
  ASSUME CacheInv, NEW r \in Readers, NEW q \in ReaderAsks, Knows(q),
         reader' = [reader EXCEPT ![r] = q],
         UNCHANGED <<disk, indexed, found, packs, changer, unswept, storedLate, tornPacks>>
  PROVE  CacheInv'
<1>1. CacheTypes' BY DEF CacheInv, CacheTypes, CachesTypeOK
<1>2. ReadersKnow' BY DEF CacheInv, CacheTypes, ReadersKnow, Knows
<1>3. SearchTaken' BY DEF CacheInv, SearchTaken, Takes
<1>4. PackMatchesHash' BY DEF CacheInv, PackMatchesHash
<1>5. EditsWait' BY DEF CacheInv, EditsWait, Waits
<1> QED BY <1>1, <1>2, <1>3, <1>4, <1>5 DEF CacheInv

LEMMA AskingKeeps ==
  ASSUME CacheInv, NEW r \in Readers,
         \/ SearchGet(r) \/ SearchQuery(r) \/ ReadFails(r)
         \/ PackHash(r) \/ PackGet(r) \/ PackRead(r) \/ ContractBuild(r)
  PROVE  CacheInv'
<1> DEFINE p == reader[r]
<1>t. /\ reader \in [Readers -> ReaderAsks] /\ p \in ReaderAsks /\ Knows(p)
      /\ disk \in Contents /\ indexed \in Contents
  BY DEF CacheInv, CacheTypes, CachesTypeOK, ReadersKnow
<1>o. Over \in ReaderAsks /\ Knows(Over) BY DEF Over, ReaderAsks, Knows, Nothing, PackKinds
<1>1. CASE SearchGet(r)
  <2>1. CASE found = Nothing
    <3> DEFINE q == [p EXCEPT !.op = "search", !.at = "query"]
    <3>1. reader' = [reader EXCEPT ![r] = q] BY <1>1, <2>1, <1>t DEF SearchGet, ReaderAsks
    <3>2. q \in ReaderAsks /\ Knows(q) BY <1>1, <1>t DEF SearchGet, ReaderAsks, Knows, PackKinds
    <3> QED BY <3>1, <3>2, <1>1, ReaderKeeps DEF SearchGet
  <2>2. CASE found # Nothing
    BY <1>1, <2>2, <1>o, ReaderKeeps DEF SearchGet, End
  <2> QED BY <2>1, <2>2
<1>2. CASE SearchQuery(r)
  <2> DEFINE q == [p EXCEPT !.at = "fill", !.text = indexed, !.torn = FALSE]
  <2>1. reader' = [reader EXCEPT ![r] = q] BY <1>2, <1>t DEF SearchQuery, ReaderAsks
  <2>2. q \in ReaderAsks /\ Knows(q) BY <1>2, <1>t DEF SearchQuery, ReaderAsks, Knows, PackKinds
  <2> QED BY <2>1, <2>2, <1>2, ReaderKeeps DEF SearchQuery
<1>3. CASE ReadFails(r) BY <1>3, <1>o, ReaderKeeps DEF ReadFails, End
<1>4. CASE PackHash(r)
  <2>1. PICK kind \in PackKinds :
          reader' = [reader EXCEPT ![r] = [op |-> kind, at |-> "get", hash |-> indexed,
                                           text |-> Nothing, torn |-> disk # indexed]]
    BY <1>4 DEF PackHash
  <2> DEFINE q == [op |-> kind, at |-> "get", hash |-> indexed, text |-> Nothing,
                   torn |-> disk # indexed]
  <2>2. q \in ReaderAsks BY <1>t DEF ReaderAsks, PackKinds
  <2>3. Knows(q) BY <1>t DEF Knows
  <2> QED BY <2>1, <2>2, <2>3, <1>4, ReaderKeeps DEF PackHash
<1>5. CASE PackGet(r)
  <2>1. CASE packs[Key(r)] = Nothing
    <3> DEFINE q == [p EXCEPT !.at = "read"]
    <3>1. reader' = [reader EXCEPT ![r] = q] BY <1>5, <2>1, <1>t DEF PackGet, Step, ReaderAsks
    <3>2. q \in ReaderAsks /\ Knows(q) BY <1>5, <1>t DEF PackGet, ReaderAsks, Knows, PackKinds
    <3> QED BY <3>1, <3>2, <1>5, ReaderKeeps DEF PackGet
  <2>2. CASE packs[Key(r)] # Nothing
    BY <1>5, <2>2, <1>o, ReaderKeeps DEF PackGet, End
  <2> QED BY <2>1, <2>2
<1>6. CASE PackRead(r)
  <2>1. PICK text \in {disk, Empty} :
          reader' = [reader EXCEPT ![r].at = "fill", ![r].text = text]
    BY <1>6 DEF PackRead
  <2> DEFINE q == [p EXCEPT !.at = "fill", !.text = text]
  <2>2. reader' = [reader EXCEPT ![r] = q] BY <2>1, <1>t DEF ReaderAsks
  <2>3. q \in ReaderAsks /\ Knows(q) BY <1>6, <2>1, <1>t DEF PackRead, ReaderAsks, Knows, PackKinds
  <2> QED BY <2>2, <2>3, <1>6, ReaderKeeps DEF PackRead
<1>7. CASE ContractBuild(r)
  <2>1. CASE reader' = [reader EXCEPT ![r].at = "fill", ![r].text = disk]
    <3> DEFINE q == [p EXCEPT !.at = "fill", !.text = disk]
    <3>1. reader' = [reader EXCEPT ![r] = q] BY <2>1, <1>t DEF ReaderAsks
    <3>2. q \in ReaderAsks /\ Knows(q) BY <1>7, <1>t DEF ContractBuild, ReaderAsks, Knows, PackKinds
    <3> QED BY <3>1, <3>2, <1>7, ReaderKeeps DEF ContractBuild
  <2>2. CASE End(r) BY <1>7, <2>2, <1>o, ReaderKeeps DEF ContractBuild, End
  <2> QED BY <1>7, <2>1, <2>2 DEF ContractBuild
<1> QED BY <1>1, <1>2, <1>3, <1>4, <1>5, <1>6, <1>7

\* A search result is stored as the index has it, or the history says that it is late; a
\* pack as its hash says, or the history says that it was read across a change.
LEMMA FillKeeps ==
  ASSUME CacheInv, NEW r \in Readers, SearchFill(r) \/ PackFill(r)
  PROVE  CacheInv'
<1> DEFINE p == reader[r]
<1>t. /\ reader \in [Readers -> ReaderAsks] /\ p \in ReaderAsks /\ Knows(p)
      /\ disk \in Contents /\ indexed \in Contents
      /\ packs \in [PackKeys -> Contents \cup {Empty, Nothing}] /\ tornPacks \subseteq PackKeys
  BY DEF CacheInv, CacheTypes, CachesTypeOK, ReadersKnow
<1>o. Over \in ReaderAsks /\ Knows(Over) BY DEF Over, ReaderAsks, Knows, Nothing, PackKinds
<1>e. reader' = [reader EXCEPT ![r] = Over] /\ UNCHANGED <<disk, indexed, changer>>
  BY DEF SearchFill, PackFill, End
<1>1. ReadersKnow'
  BY <1>e, <1>o, <1>t DEF CacheInv, ReadersKnow, Knows, Over, PackKinds, Nothing
<1>2. EditsWait' BY <1>e DEF CacheInv, EditsWait, Waits
<1>3. CASE SearchFill(r)
  <2>1. /\ p.text \in Contents /\ (~p.torn => p.text = indexed) /\ p.torn \in BOOLEAN
        /\ found' = p.text /\ storedLate' = p.torn /\ unswept' = FALSE
        /\ UNCHANGED <<packs, tornPacks>>
    BY <1>3, <1>t DEF SearchFill, Knows, ReaderAsks
  <2>2. CacheTypes' BY <2>1, <1>e, <1>o, <1>t DEF CacheInv, CacheTypes, CachesTypeOK
  <2>3. SearchTaken' BY <2>1, <1>e DEF SearchTaken
  <2>4. PackMatchesHash' BY <2>1 DEF CacheInv, PackMatchesHash
  <2> QED BY <2>2, <2>3, <2>4, <1>1, <1>2 DEF CacheInv
<1>4. CASE PackFill(r)
  <2>1. /\ p.op \in PackKinds /\ p.hash \in Contents /\ p.text \in Contents \cup {Empty}
        /\ ~p.torn => p.text = p.hash \/ (p.op = "file" /\ p.text = Empty)
        /\ packs' = [packs EXCEPT ![Key(r)] = p.text]
        /\ tornPacks' = IF p.torn THEN tornPacks \cup {Key(r)} ELSE tornPacks \ {Key(r)}
        /\ UNCHANGED <<found, unswept, storedLate>>
    BY <1>4, <1>t DEF PackFill, Knows
  <2>2. Key(r) = <<p.op, p.hash>> /\ Key(r) \in PackKeys BY <2>1 DEF Key, PackKeys
  <2>3. CacheTypes'
    BY <2>1, <2>2, <1>e, <1>o, <1>t DEF CacheInv, CacheTypes, CachesTypeOK
  <2>4. SearchTaken' BY <2>1, <1>e DEF CacheInv, SearchTaken, Takes
  <2>5. PackMatchesHash'
    <3> SUFFICES ASSUME NEW k \in PackKeys, k \notin tornPacks'
        PROVE packs'[k] \in {k[2], Nothing} \cup (IF k[1] = "file" THEN {Empty} ELSE {})
      BY DEF PackMatchesHash
    <3>1. CASE k = Key(r)
      <4>1. ~p.torn BY <2>1, <3>1
      <4> QED BY <4>1, <2>1, <2>2, <3>1, <1>t
    <3>2. CASE k # Key(r)
      <4>1. k \notin tornPacks /\ packs'[k] = packs[k] BY <2>1, <3>2, <1>t
      <4> QED BY <4>1 DEF CacheInv, PackMatchesHash
    <3> QED BY <3>1, <3>2
  <2> QED BY <2>3, <2>4, <2>5, <1>1, <1>2 DEF CacheInv
<1> QED BY <1>3, <1>4

\* What is dropped is gone, and with it what was said of it.
LEMMA DropKeeps ==
  ASSUME CacheInv, NEW keys, DropKeys(keys)
  PROVE  /\ packs' \in [PackKeys -> Contents \cup {Empty, Nothing}] /\ tornPacks' \subseteq PackKeys
         /\ found' \in Contents \cup {Nothing} /\ unswept' \in BOOLEAN /\ storedLate' \in BOOLEAN
         /\ PackMatchesHash'
<1> USE DEF DropKeys
<1>t. /\ found \in Contents \cup {Nothing} /\ unswept \in BOOLEAN /\ storedLate \in BOOLEAN
      /\ packs \in [PackKeys -> Contents \cup {Empty, Nothing}] /\ tornPacks \subseteq PackKeys
  BY DEF CacheInv, CacheTypes, CachesTypeOK
<1>1. PackMatchesHash' BY <1>t DEF CacheInv, PackMatchesHash
<1>2. packs' \in [PackKeys -> Contents \cup {Empty, Nothing}] BY <1>t
<1> QED BY <1>1, <1>2, <1>t

\* Whoever reads across a change of file or index is marked as torn.
LEMMA DisturbKnows ==
  ASSUME CacheInv, Disturb
  PROVE  reader' \in [Readers -> ReaderAsks] /\ ReadersKnow'
<1>1. reader' \in [Readers -> ReaderAsks]
  BY DEF CacheInv, CacheTypes, Disturb, ReaderAsks
<1>2. ASSUME NEW r \in Readers PROVE Knows(reader[r])'
  <2>1. reader[r] \in ReaderAsks /\ Knows(reader[r])
        /\ reader'[r] = IF Torn(reader[r]) THEN [reader[r] EXCEPT !.torn = TRUE] ELSE reader[r]
    BY DEF CacheInv, CacheTypes, ReadersKnow, Disturb
  <2>2. CASE Torn(reader[r]) BY <2>1, <2>2 DEF Knows, Torn, ReaderAsks
  <2>3. CASE ~Torn(reader[r]) BY <2>1, <2>3 DEF Knows, Torn
  <2> QED BY <2>2, <2>3
<1> QED BY <1>1, <1>2 DEF ReadersKnow

LEMMA ChangeKeeps ==
  ASSUME CacheInv, NEW c \in Changers, Mutate(c) \/ Index(c)
  PROVE  CacheInv'
<1>t. /\ changer \in [Changers -> Changing] /\ disk \in Contents /\ indexed \in Contents
  BY DEF CacheInv, CacheTypes, CachesTypeOK
<1>p. PackMatchesHash'
  BY DEF CacheInv, PackMatchesHash, Mutate, Index
<1>1. CASE Mutate(c)
  <2>1. /\ disk' \in Contents /\ reader' \in [Readers -> ReaderAsks] /\ ReadersKnow'
        /\ UNCHANGED <<indexed, found, packs, unswept, storedLate, tornPacks>>
    BY <1>1, DisturbKnows DEF Mutate
  <2>2. /\ changer[c].at = "start"
        /\ changer' = [changer EXCEPT ![c] = [op |-> "mutate", at |-> "sweep", keys |-> {}]]
    BY <1>1 DEF Mutate, Start
  <2>3. CacheTypes'
    BY <2>1, <2>2, <1>t DEF CacheInv, CacheTypes, CachesTypeOK, Changing
  <2>4. \A d \in Changers : Takes(d) => Takes(d)' BY <2>2, <1>t DEF Takes
  <2>5. SearchTaken' BY <2>1, <2>4 DEF CacheInv, SearchTaken
  <2>6. Waits(c)' BY <2>2, <1>t DEF Waits
  <2> QED BY <2>1, <2>3, <2>5, <2>6, <1>p DEF CacheInv, EditsWait
<1>2. CASE Index(c)
  <2>1. /\ indexed' = disk /\ UNCHANGED <<disk, found, packs, storedLate, tornPacks>>
        /\ IF indexed # disk THEN Disturb ELSE UNCHANGED reader
    BY <1>2 DEF Index
  <2>2. reader' \in [Readers -> ReaderAsks] /\ ReadersKnow'
    <3>1. CASE indexed # disk BY <2>1, <3>1, DisturbKnows
    <3>2. CASE indexed = disk BY <2>1, <3>2 DEF CacheInv, CacheTypes, ReadersKnow, Knows
    <3> QED BY <3>1, <3>2
  <2>3. EditsWait' BY <2>1 DEF EditsWait
  <2>4. CASE /\ changer[c].op = "mutate" /\ changer[c].at = "queued" /\ Go(c, "done", {})
             /\ unswept' = (unswept \/ (indexed # disk /\ found # Nothing))
    <3>1. CacheTypes'
      BY <2>1, <2>2, <2>4, <1>t DEF CacheInv, CacheTypes, CachesTypeOK, Changing, Go
    <3>2. \A d \in Changers : Takes(d) => Takes(d)' BY <2>4, <1>t DEF Takes, Go
    <3>3. SearchTaken' BY <2>1, <2>4, <3>2 DEF CacheInv, SearchTaken
    <3> QED BY <2>2, <2>3, <3>1, <3>3, <1>p DEF CacheInv
  <2>5. CASE Start(c, "scan") /\ UNCHANGED unswept
    <3>1. CacheTypes'
      BY <2>1, <2>2, <2>5, <1>t DEF CacheInv, CacheTypes, CachesTypeOK, Changing, Start
    <3>2. Takes(c)' BY <2>5, <1>t DEF Takes, Start
    <3>3. SearchTaken' BY <3>2 DEF SearchTaken
    <3> QED BY <2>2, <2>3, <3>1, <3>3, <1>p DEF CacheInv
  <2> QED BY <1>2, <2>4, <2>5 DEF Index
<1> QED BY <1>1, <1>2

LEMMA SweepKeeps ==
  ASSUME CacheInv, NEW c \in Changers, SweepScan(c) \/ SweepUnlink(c) \/ SweepFails(c)
  PROVE  CacheInv'
<1>t. /\ changer \in [Changers -> Changing] /\ disk \in Contents /\ indexed \in Contents
      /\ found \in Contents \cup {Nothing} /\ unswept \in BOOLEAN /\ storedLate \in BOOLEAN
  BY DEF CacheInv, CacheTypes, CachesTypeOK
<1>r. UNCHANGED <<disk, indexed, reader>> BY DEF SweepScan, SweepUnlink, SweepFails
<1>k. ReadersKnow' BY <1>r DEF CacheInv, ReadersKnow, Knows
<1>g. PICK s \in {"unlink", "queued", "done", "failed"},
           keys \in SUBSET (PackKeys \cup {SearchKey}) : Go(c, s, keys)
  <2>1. Present \subseteq PackKeys \cup {SearchKey} BY DEF Present
  <2>2. CASE SweepScan(c) BY <2>1, <2>2 DEF SweepScan
  <2>3. CASE SweepUnlink(c) BY <2>3 DEF SweepUnlink
  <2>4. CASE SweepFails(c) BY <2>4 DEF SweepFails
  <2> QED BY <2>2, <2>3, <2>4
<1>c. changer' \in [Changers -> Changing] BY <1>g, <1>t DEF Go, Changing
<1>d. \A d \in Changers \ {c} : changer'[d] = changer[d] BY <1>g, <1>t DEF Go
<1>1. EditsWait'
  <2>1. \A d \in Changers : Waits(d) => Waits(d)'
    <3>1. CASE SweepScan(c) BY <3>1, <1>t DEF Waits, SweepScan, Go
    <3>2. CASE SweepUnlink(c) BY <3>2, <1>t DEF Waits, SweepUnlink, Go
    <3>3. CASE SweepFails(c) BY <3>3, <1>t DEF Waits, SweepFails, Go
    <3> QED BY <3>1, <3>2, <3>3
  <2> QED BY <2>1, <1>r DEF CacheInv, EditsWait
<1>2. CASE SweepScan(c)
  <2>1. UNCHANGED <<found, packs, unswept, storedLate, tornPacks>> BY <1>2 DEF SweepScan
  <2>2. CacheTypes' BY <2>1, <1>r, <1>c DEF CacheInv, CacheTypes, CachesTypeOK
  <2>3. PackMatchesHash' BY <2>1 DEF CacheInv, PackMatchesHash
  <2>4. found # Nothing /\ Takes(c) => Takes(c)'
    BY <1>2, <1>t DEF Takes, SweepScan, Go, Present
  <2>5. SearchTaken' BY <2>1, <2>4, <1>r, <1>d DEF CacheInv, SearchTaken, Takes
  <2> QED BY <2>2, <2>3, <2>5, <1>1, <1>k DEF CacheInv
<1>3. CASE SweepUnlink(c)
  <2>1. changer[c].at = "unlink" /\ DropKeys(changer[c].keys) BY <1>3 DEF SweepUnlink
  <2>2. CacheTypes' /\ PackMatchesHash'
    BY <2>1, <1>r, <1>c, DropKeeps DEF CacheInv, CacheTypes, CachesTypeOK
  <2>3. CASE SearchKey \in changer[c].keys
    BY <2>1, <2>2, <2>3, <1>1, <1>k DEF CacheInv, SearchTaken, DropKeys
  <2>4. CASE SearchKey \notin changer[c].keys
    <3>1. ~Takes(c) BY <2>1, <2>4 DEF Takes
    <3>2. SearchTaken' BY <2>1, <2>4, <3>1, <1>r, <1>d DEF CacheInv, SearchTaken, Takes, DropKeys
    <3> QED BY <2>2, <3>2, <1>1, <1>k DEF CacheInv
  <2> QED BY <2>3, <2>4
<1>4. CASE SweepFails(c)
  <2>1. /\ UNCHANGED <<found, packs, storedLate, tornPacks>>
        /\ unswept' = (unswept \/ (changer[c].op = "scan" /\ found # Nothing))
    BY <1>4 DEF SweepFails
  <2>2. CacheTypes' BY <2>1, <1>r, <1>c DEF CacheInv, CacheTypes, CachesTypeOK
  <2>3. PackMatchesHash' BY <2>1 DEF CacheInv, PackMatchesHash
  <2>4. SearchTaken' BY <2>1, <1>r, <1>d DEF CacheInv, SearchTaken, Takes
  <2> QED BY <2>2, <2>3, <2>4, <1>1, <1>k DEF CacheInv
<1> QED BY <1>2, <1>3, <1>4

LEMMA CachesStepKeeps == CacheInv /\ [CachesNext]_cacheVars => CacheInv'
<1> SUFFICES ASSUME CacheInv, [CachesNext]_cacheVars PROVE CacheInv' OBVIOUS
<1>1. ASSUME NEW r \in Readers,
             \/ SearchGet(r) \/ SearchQuery(r) \/ SearchFill(r) \/ ReadFails(r)
             \/ PackHash(r) \/ PackGet(r) \/ PackRead(r) \/ ContractBuild(r) \/ PackFill(r)
      PROVE  CacheInv'
  BY <1>1, AskingKeeps, FillKeeps
<1>2. ASSUME NEW c \in Changers,
             Mutate(c) \/ Index(c) \/ SweepScan(c) \/ SweepUnlink(c) \/ SweepFails(c)
      PROVE  CacheInv'
  BY <1>2, ChangeKeeps, SweepKeeps
<1>3. CASE ExpireKey
  <2>1. PICK k \in Present : DropKeys({k}) BY <1>3 DEF ExpireKey
  <2>2. UNCHANGED <<disk, indexed, reader, changer>> BY <1>3 DEF ExpireKey
  <2>3. CacheTypes' /\ PackMatchesHash'
    BY <2>1, <2>2, DropKeeps DEF CacheInv, CacheTypes, CachesTypeOK
  <2>4. ReadersKnow' BY <2>2 DEF CacheInv, ReadersKnow, Knows
  <2>5. SearchTaken' BY <2>1, <2>2 DEF CacheInv, SearchTaken, Takes, DropKeys
  <2>6. EditsWait' BY <2>2 DEF CacheInv, EditsWait, Waits
  <2> QED BY <2>3, <2>4, <2>5, <2>6 DEF CacheInv
<1>4. CASE UNCHANGED cacheVars
  BY <1>4 DEF cacheVars, CacheInv, CacheTypes, CachesTypeOK, ReadersKnow, Knows, SearchTaken,
              Takes, PackMatchesHash, EditsWait, Waits
<1> QED BY <1>1, <1>2, <1>3, <1>4 DEF CachesNext, AllServed

\* For any contents, requests and changes: a search result that the index has left
\* behind, a pack whose text is not what its hash names, and a change that the index
\* never takes are what the property says, and nothing else.
THEOREM CachesAlwaysExplained == ASSUME CachesAssumption PROVE CachesSpec => []CachesExplained
<1>1. CachesInit => CacheInv BY CachesInitEstablishes
<1>2. CacheInv /\ [CachesNext]_cacheVars => CacheInv' BY CachesStepKeeps
<1>3. CacheInv => CachesExplained
  <2> SUFFICES ASSUME CacheInv PROVE CachesExplained OBVIOUS
  <2>1. SearchStaleExplained BY DEF CacheInv, SearchTaken, Takes, SearchStaleExplained
  <2>2. LeftOutExplained BY DEF CacheInv, EditsWait, Waits, LeftOutExplained
  <2> QED BY <2>1, <2>2 DEF CacheInv, CachesExplained
<1> QED BY <1>1, <1>2, <1>3, PTL DEF CachesSpec

\* The caches hold contents of the file, the empty pack or nothing (context_pack.py:36).
THEOREM CachesTypeCorrect == ASSUME CachesAssumption PROVE CachesSpec => []CachesTypeOK
<1>1. CachesInit => CacheInv BY CachesInitEstablishes
<1>2. CacheInv /\ [CachesNext]_cacheVars => CacheInv' BY CachesStepKeeps
<1>3. CacheInv => CachesTypeOK BY DEF CacheInv, CacheTypes
<1> QED BY <1>1, <1>2, <1>3, PTL DEF CachesSpec

-----------------------------------------------------------------------------
(* Routing.  A window has a largest latency, so what is derived from it are *)
(* numbers, kept in order by the clamps; what is stored or to be stored     *)
(* under the key of the thresholds is then what a read accepts.  A run that *)
(* was not chosen by telemetry has the policy of the thresholds it read,    *)
(* and more complexity asks for no weaker a model of the same thresholds.   *)

LEMMA Quotient == \A a \in Int, b \in Nat \ {0} : a \div b \in Int
  OBVIOUS

LEMMA Clamped ==
  ASSUME NEW x \in Int, NEW lo \in Int, NEW hi \in Int, lo <= hi
  PROVE  Clamp(x, lo, hi) \in Int
BY DEF Clamp, AtLeast, AtMost

Good(t) == Accepted(t) /\ t[1] \in Int /\ t[2] \in Int /\ t[3] \in Int
Telemetry == [failed: Nat, retried: Nat, unsure: Nat, latency: Nat, tokens: Nat]

\* A set of numbers has a first, unless it is empty.
LEMMA FirstOfNumbers ==
  ASSUME NEW S \in SUBSET Nat, S # {}
  PROVE  \E i \in S : \A k \in S : i <= k
<1> DEFINE Less == OpToRel(<, Nat)
<1>1. \A i, k \in Nat : k < i => <<k, i>> \in Less BY DEF OpToRel
<1>2. IsWellFoundedOn(Less, Nat) BY NatLessThanWellFounded
<1> HIDE DEF Less
<1>3. PICK i \in S : \A k \in S : ~(<<k, i>> \in Less) BY <1>2, WFMin
<1>4. \A k \in S : ~(k < i) BY <1>1, <1>3
<1> QED BY <1>4

\* Among finitely many numbers there is a largest.
LEMMA PeakExists ==
  ASSUME NEW f, NEW last \in Nat \ {0}, \A i \in 1..last : f[i] \in Int
  PROVE  \E k \in 1..last : \A i \in 1..last : f[i] <= f[k]
<1> DEFINE Peak(n) == \E k \in 1..n : \A i \in 1..n : f[i] <= f[k]
           Bad == {n \in 1..last : ~Peak(n)}
           Less == OpToRel(<, Nat)
<1>1. IsWellFoundedOn(Less, Nat) BY NatLessThanWellFounded
<1>2. \A i, j \in Nat : i < j => <<i, j>> \in Less BY DEF OpToRel
<1>3. Bad = {}
  <2> SUFFICES ASSUME Bad # {} PROVE FALSE OBVIOUS
  <2>1. Bad \subseteq Nat OBVIOUS
  <2>2. \E n \in Bad : \A m \in Bad : ~(<<m, n>> \in Less)
    <3> HIDE DEF Bad, Less
    <3> QED BY <1>1, <2>1, WFMin
  <2>3. PICK n \in Bad : \A m \in Bad : ~(m < n)
    <3> HIDE DEF Less, Bad
    <3>1. PICK n \in Bad : \A m \in Bad : ~(<<m, n>> \in Less) BY <2>2
    <3>2. \A m \in Bad : m \in Nat /\ n \in Nat BY <2>1
    <3> QED BY <3>1, <3>2, <1>2
  <2>4. n \in 1..last /\ ~Peak(n) OBVIOUS
  <2>5. n # 1 BY <2>4
  <2>6. n - 1 \in 1..last /\ n - 1 < n BY <2>4, <2>5
  <2>7. PICK k \in 1..(n - 1) : \A i \in 1..(n - 1) : f[i] <= f[k] BY <2>3, <2>6
  <2>8. /\ f[n] \in Int /\ f[k] \in Int /\ k \in 1..n /\ n \in 1..n
        /\ \A i \in 1..n : f[i] \in Int /\ (i = n \/ i \in 1..(n - 1))
    BY <2>4, <2>6
  <2>9. Peak(n)
    <3>1. CASE f[n] <= f[k] BY <3>1, <2>7, <2>8
    <3>2. CASE ~(f[n] <= f[k])
      <4>1. \A i \in 1..n : f[i] <= f[n] BY <3>2, <2>7, <2>8
      <4> QED BY <4>1, <2>8
    <3> QED BY <3>1, <3>2
  <2> QED BY <2>4, <2>9
<1>4. Peak(last)
  <2> HIDE DEF Peak
  <2> QED BY <1>3
<1> QED BY <1>4

\* A window that is not empty has a largest of each number.
LEMMA LargestIsANumber ==
  ASSUME NEW rows \in Seq(Telemetry), rows # <<>>, NEW field \in {"latency", "tokens"}
  PROVE  Largest(rows, field) \in Nat
<1> DEFINE f == [i \in 1..Len(rows) |-> rows[i][field]]
<1>1. Len(rows) \in Nat \ {0} OBVIOUS
<1>2. ASSUME NEW i \in 1..Len(rows) PROVE rows[i][field] \in Nat
  <2>1. rows[i] \in Telemetry OBVIOUS
  <2>2. rows[i].latency \in Nat /\ rows[i].tokens \in Nat BY <2>1 DEF Telemetry
  <2>3. CASE field = "latency" BY <2>2, <2>3
  <2>4. CASE field = "tokens" BY <2>2, <2>4
  <2> QED BY <2>3, <2>4
<1>3. PICK k \in 1..Len(rows) : \A i \in 1..Len(rows) : f[i] <= f[k]
  <2>1. \A i \in 1..Len(rows) : f[i] \in Int BY <1>2
  <2> HIDE DEF f
  <2> QED BY <1>1, <2>1, PeakExists
<1>4. \E v \in {rows[i][field] : i \in 1..Len(rows)} :
        \A i \in 1..Len(rows) : rows[i][field] <= v
  BY <1>3
<1>5. Largest(rows, field) \in {rows[i][field] : i \in 1..Len(rows)}
  BY <1>4 DEF Largest
<1> QED BY <1>5, <1>2

LEMMA CountIsANumber ==
  ASSUME NEW rows, Len(rows) \in Nat, NEW field
  PROVE  CountOf(rows, field) \in Nat
<1> DEFINE S == {i \in 1..Len(rows) : rows[i][field] > 0}
<1>1. IsFiniteSet(1..Len(rows)) /\ S \subseteq 1..Len(rows) BY FS_Interval
<1>2. CountOf(rows, field) = Cardinality(S) BY DEF CountOf
<1> HIDE DEF S
<1> QED BY <1>1, <1>2, FS_Subset, FS_CardinalityType

LEMMA DefaultsAreGood == Good(Defaults)
BY RoutingAssumption DEF Good

\* Whatever the telemetry, what is derived from it is in order and in range.
LEMMA DerivedIsGood ==
  ASSUME NEW rows \in Windows, Len(rows) >= MinSamples
  PROVE  Good(Thresholds(rows)) /\ Thresholds(rows) \in [1..3 -> Int]
<1>1. rows \in Seq(Telemetry) /\ rows # <<>> /\ Len(rows) \in Nat \ {0}
  BY RoutingAssumption DEF Telemetry
<1>2. Defaults[1] \in Int /\ Defaults[2] \in Int /\ Defaults[3] \in Int
  BY DefaultsAreGood DEF Good
<1>3. \A field : CountOf(rows, field) \in Nat BY <1>1, CountIsANumber
<1> DEFINE bad == CountOf(rows, "failed") + CountOf(rows, "retried") + CountOf(rows, "unsure")
           q == (bad * 1000) \div AtLeast(1, Len(rows))
           slow == (Largest(rows, "latency") - 4000) \div 6
           l == Clamp(slow, 0, 1000)
           lower == Defaults[1] + (80 * q - 40 * l) \div 1000
           middle == Defaults[2] + (100 * q - 60 * l) \div 1000
           upper == Defaults[3] + (120 * q - 80 * l) \div 1000
           low == Clamp(lower, 1000, 2000)
           mid == Clamp(middle, low, 2000)
           high == Clamp(upper, mid, 2000)
<1>4. bad \in Nat BY <1>3
<1>5. AtLeast(1, Len(rows)) \in Nat \ {0} BY <1>1 DEF AtLeast
<1>6. q \in Int
  <2> HIDE DEF bad
  <2> QED BY <1>4, <1>5, Quotient
<1>7. slow \in Int BY <1>1, LargestIsANumber, Quotient
<1>8. l \in Int
  <2> HIDE DEF slow
  <2> QED BY <1>7, Clamped
<1>9. lower \in Int /\ middle \in Int /\ upper \in Int
  <2> HIDE DEF q, l
  <2> QED BY <1>2, <1>6, <1>8, Quotient
<1>10. low \in Int /\ 1000 <= low /\ low <= 2000
  <2> HIDE DEF lower
  <2> QED BY <1>9 DEF Clamp, AtLeast, AtMost
<1>11. mid \in Int /\ low <= mid /\ mid <= 2000
  <2> HIDE DEF middle, low
  <2> QED BY <1>9, <1>10 DEF Clamp, AtLeast, AtMost
<1>12. high \in Int /\ mid <= high /\ high <= 2000
  <2> HIDE DEF upper, mid
  <2> QED BY <1>9, <1>10, <1>11 DEF Clamp, AtLeast, AtMost
<1>13. Thresholds(rows) = <<low, mid, high>> BY <1>1 DEF Thresholds
<1> HIDE DEF low, mid, high
<1> QED BY <1>10, <1>11, <1>12, <1>13 DEF Good, Accepted

\* More complexity asks for no weaker a model.
LEMMA RankIsMonotone ==
  ASSUME NEW pool, Len(pool) \in Nat \ {0}, NEW t, Good(t), NEW low \in Int, NEW high \in Int,
         low <= high
  PROVE  Rank(pool, low, t) <= Rank(pool, high, t)
<1> DEFINE n == Len(pool)
<1>1. t[1] \in Int /\ t[2] \in Int /\ t[3] \in Int BY DEF Good
<1>2. n \in Nat \ {0} OBVIOUS
<1>3. \A c : Rank(pool, c, t) = CASE n = 1 -> 1
                                 [] n = 2 -> IF c >= t[2] THEN 2 ELSE 1
                                 [] OTHER -> IF c >= t[3] THEN n
                                             ELSE IF c >= t[1] THEN 2 ELSE 1
  BY DEF Rank
<1> HIDE DEF n
<1>4. CASE n = 1 BY <1>3, <1>4
<1>5. CASE n = 2 BY <1>1, <1>3, <1>5
<1>6. CASE n > 2
  <2>1. \A c : Rank(pool, c, t) = IF c >= t[3] THEN n ELSE IF c >= t[1] THEN 2 ELSE 1
    BY <1>2, <1>3, <1>6
  <2> QED BY <1>1, <1>2, <1>6, <2>1
<1> QED BY <1>2, <1>4, <1>5, <1>6

Harder(r) == [r EXCEPT !.complexity = AtMost(2000, @ + 250), !.prompt = @ + 100]

LEMMA HarderIsNoWeaker ==
  ASSUME NEW r \in Requests, NEW t, Good(t)
  PROVE  /\ Policy(Harder(r), t).analysis >= Policy(r, t).analysis
         /\ Policy(Harder(r), t).patch >= Policy(r, t).patch
<1> DEFINE bias == IF r.fix THEN 150 ELSE 0
           c == Clamp(r.complexity + bias, 1000, 2000)
           d == Clamp(AtMost(2000, r.complexity + 250) + bias, 1000, 2000)
<1>1. /\ r.complexity \in Nat /\ r.fix \in BOOLEAN
      /\ r = [fix |-> r.fix, complexity |-> r.complexity, prompt |-> r.prompt, nodes |-> r.nodes]
  BY RoutingAssumption
<1>2. c \in Int /\ d \in Int /\ c <= d BY <1>1 DEF Clamp, AtLeast, AtMost
<1>3. Harder(r).fix = r.fix /\ Harder(r).complexity = AtMost(2000, r.complexity + 250)
  BY <1>1 DEF Harder
<1>4. /\ Policy(r, t).analysis = Rank(Pools.analysis, c, t)
      /\ Policy(r, t).patch = Rank(Pools.patch, c, t)
  BY DEF Policy
<1>5. /\ Policy(Harder(r), t).analysis = Rank(Pools.analysis, d, t)
      /\ Policy(Harder(r), t).patch = Rank(Pools.patch, d, t)
  BY <1>3 DEF Policy
<1>6. \A stage \in {"analysis", "patch"} : Len(Pools[stage]) \in Nat \ {0} BY RoutingAssumption
<1>7. /\ Rank(Pools.analysis, c, t) <= Rank(Pools.analysis, d, t)
      /\ Rank(Pools.patch, c, t) <= Rank(Pools.patch, d, t)
  <2> HIDE DEF c, d
  <2> QED BY <1>2, <1>6, RankIsMonotone
<1>8. \A complexity : /\ Rank(Pools.analysis, complexity, t) \in Int
                      /\ Rank(Pools.patch, complexity, t) \in Int
  BY <1>6 DEF Rank
<1> QED BY <1>4, <1>5, <1>7, <1>8

-----------------------------------------------------------------------------
Lacking == \/ \E a \in lacks : a \notin MayGo
           \/ \E a, b \in lacks : a # b

RunFields == {"step", "request", "read", "fallback", "weights", "selected", "policy", "first",
              "again"}
Shaped(q) == q = [field \in RunFields |-> q[field]]
\* what a run has chosen by the thresholds it read is what they say
RunPart(q) ==
  /\ Shaped(q)
  /\ q.step \in {"weights", "select", "call", "answered"} => q.request \in Requests /\ Good(q.read)
  /\ q.step \in {"weights", "select"} => q.fallback = Policy(q.request, q.read)
  /\ q.step = "call" /\ q.selected = None => q.policy = Policy(q.request, q.read)
  /\ q.step = "answered" /\ q.selected = None => q.first = Policy(q.request, q.read)
  /\ q.step = "again" => \/ /\ q.policy.analysis >= q.first.analysis
                            /\ q.policy.patch >= q.first.patch
                         \/ q.selected # None
                         \/ q.again # q.read
  /\ q.step = "unwrapped" => Lacking
RunsFit == /\ run = [c \in Tasks |-> run[c]]
           /\ \A c \in Tasks : RunPart(run[c])

ThresholdsGood ==
  /\ stored = [k \in StoredKeys |-> stored[k]] /\ todo = [k \in Calibrators |-> todo[k]]
  /\ stored["thresholds"] = None \/ Good(stored["thresholds"])
  /\ \A k \in Calibrators : \A e \in todo[k] : e[1] = "thresholds" => Good(e[2])

RoutingInv == ThresholdsGood /\ RunsFit

LEMMA RoutingInitEstablishes == RoutingInit => RoutingInv
BY DEF RoutingInit, RoutingInv, ThresholdsGood, RunsFit, RunPart, Shaped, RunFields, Idle, StoredKeys

LEMMA CalibrationKeeps ==
  ASSUME RoutingInv, NEW k \in Calibrators,
         \/ \E rows \in Windows : Calibrate(k, rows)
         \/ \E e \in todo[k] : Store(k, e) \/ StoreFails(k, e)
  PROVE  RoutingInv'
<1>1. RunsFit' BY DEF RoutingInv, RunsFit, RunPart, Lacking, Calibrate, Store, StoreFails
<1>2. ThresholdsGood'
  <2>1. ASSUME NEW rows \in Windows, Calibrate(k, rows) PROVE ThresholdsGood'
    <3>1. Len(rows) >= MinSamples /\ stored' = stored /\ todo' = [todo EXCEPT ![k] = Entries(rows)]
      BY <2>1 DEF Calibrate
    <3>2. Good(Thresholds(rows)) BY <3>1, DerivedIsGood
    <3>3. \A e \in Entries(rows) : e[1] = "thresholds" => Good(e[2])
      BY <3>2, RoutingAssumption DEF Entries
    <3> QED BY <3>1, <3>3 DEF RoutingInv, ThresholdsGood
  <2>2. ASSUME NEW e \in todo[k], Store(k, e) \/ StoreFails(k, e) PROVE ThresholdsGood'
    <3>1. todo' = [todo EXCEPT ![k] = @ \ {e}] BY <2>2 DEF Store, StoreFails
    <3>2. stored' = stored \/ stored' = [stored EXCEPT ![e[1]] = e[2]]
      BY <2>2 DEF Store, StoreFails
    <3>3. \A j \in Calibrators : todo'[j] \subseteq todo[j]
      BY <3>1 DEF RoutingInv, ThresholdsGood
    <3>4. e[1] = "thresholds" => Good(e[2]) BY <2>2 DEF RoutingInv, ThresholdsGood
    <3>5. "thresholds" \in StoredKeys BY DEF StoredKeys
    <3>6. stored'["thresholds"] = None \/ Good(stored'["thresholds"])
      BY <3>2, <3>4, <3>5 DEF RoutingInv, ThresholdsGood
    <3>7. stored' = [j \in StoredKeys |-> stored'[j]] /\ todo' = [j \in Calibrators |-> todo'[j]]
      BY <3>1, <3>2 DEF RoutingInv, ThresholdsGood
    <3> QED BY <3>3, <3>6, <3>7 DEF RoutingInv, ThresholdsGood
  <2> QED BY <2>1, <2>2
<1> QED BY <1>1, <1>2 DEF RoutingInv

LEMMA ExpiryKeeps ==
  ASSUME RoutingInv, NEW key \in StoredKeys, ExpireStored(key)
  PROVE  RoutingInv'
<1>1. RunsFit' BY DEF RoutingInv, RunsFit, RunPart, Lacking, ExpireStored
<1>2. ThresholdsGood' BY DEF RoutingInv, ThresholdsGood, ExpireStored, StoredKeys
<1> QED BY <1>1, <1>2 DEF RoutingInv

LEMMA WhatIsReadIsGood == RoutingInv => \A t \in ReadThresholds : Good(t)
BY DefaultsAreGood DEF RoutingInv, ThresholdsGood, ReadThresholds

\* A step of one run: the others, and what is stored, stay.
LEMMA RunStepKeeps ==
  ASSUME RoutingInv, NEW c \in Tasks, NEW q, RunPart(q), run' = [run EXCEPT ![c] = q],
         UNCHANGED <<stored, todo, made, lacks>>
  PROVE  RoutingInv'
<1>1. ThresholdsGood' BY DEF RoutingInv, ThresholdsGood
<1>2. Lacking' = Lacking BY DEF Lacking
<1>3. \A d \in Tasks : RunPart(run'[d]) BY DEF RoutingInv, RunsFit
<1>4. \A d \in Tasks : RunPart(run[d])'
  BY <1>2, <1>3 DEF RunPart
<1>5. run' = [d \in Tasks |-> run'[d]] BY DEF RoutingInv, RunsFit
<1> QED BY <1>1, <1>4, <1>5 DEF RoutingInv, RunsFit

LEMMA ChoiceKeeps ==
  ASSUME RoutingInv, NEW c \in Tasks,
         \/ \E r \in Requests, t \in ReadThresholds : Begin(c, r, t)
         \/ \E w \in ReadWeights : TakeWeights(c, w)
         \/ \E t \in ReadThresholds : Select(c, t) \/ AskAgain(c, t)
  PROVE  RoutingInv'
<1>0. RunPart(run[c]) /\ run = [d \in Tasks |-> run[d]] BY DEF RoutingInv, RunsFit
<1> DEFINE q == run[c]
<1>q. Shaped(q) BY <1>0 DEF RunPart
<1>1. ASSUME NEW r \in Requests, NEW t \in ReadThresholds, Begin(c, r, t) PROVE RoutingInv'
  <2> DEFINE s == [Idle EXCEPT !.step = "weights", !.request = r, !.read = t,
                               !.fallback = Policy(r, t)]
  <2>1. /\ Shaped(s) /\ s.step = "weights" /\ s.request = r /\ s.read = t
        /\ s.fallback = Policy(r, t)
    BY DEF Idle, Shaped, RunFields
  <2>2. Good(t) BY WhatIsReadIsGood
  <2>3. RunPart(s)
    <3> HIDE DEF s
    <3> QED BY <2>1, <2>2 DEF RunPart
  <2>4. run' = [run EXCEPT ![c] = s] /\ UNCHANGED <<stored, todo, made, lacks>>
    BY <1>1 DEF Begin
  <2> HIDE DEF s
  <2> QED BY <2>3, <2>4, RunStepKeeps
<1>2. ASSUME NEW w \in ReadWeights, TakeWeights(c, w) PROVE RoutingInv'
  <2> DEFINE s == [q EXCEPT !.step = "select", !.weights = w]
  <2>1. /\ Shaped(s) /\ s.step = "select" /\ s.request = q.request /\ s.read = q.read
        /\ s.fallback = q.fallback
    <3> HIDE DEF q
    <3> QED BY <1>q DEF Shaped, RunFields
  <2>2. q.step = "weights" BY <1>2 DEF TakeWeights
  <2>3. RunPart(s)
    <3> HIDE DEF s
    <3> QED BY <2>1, <2>2, <1>0 DEF RunPart
  <2>4. run' = [run EXCEPT ![c] = s] /\ UNCHANGED <<stored, todo, made, lacks>>
    BY <1>0, <1>2 DEF TakeWeights
  <2> HIDE DEF s
  <2> QED BY <2>3, <2>4, RunStepKeeps
<1>3. ASSUME NEW t \in ReadThresholds, Select(c, t) PROVE RoutingInv'
  <2> DEFINE p == Selection(run[c].request, Normal(Biased(run[c].weights, Profile)), t)
             s == [q EXCEPT !.step = "call", !.selected = p,
                            !.policy = IF p = None THEN q.fallback ELSE p,
                            !.weights = None, !.fallback = None]
  <2> HIDE DEF p
  <2>1. /\ Shaped(s) /\ s.step = "call" /\ s.request = q.request /\ s.read = q.read
        /\ s.selected = p /\ (p = None => s.policy = q.fallback)
    <3> HIDE DEF q
    <3> QED BY <1>q DEF Shaped, RunFields
  <2>2. q.step = "select" BY <1>3 DEF Select
  <2>3. RunPart(s)
    <3> HIDE DEF s
    <3> QED BY <2>1, <2>2, <1>0 DEF RunPart
  <2>4. run' = [run EXCEPT ![c] = s] /\ UNCHANGED <<stored, todo, made, lacks>>
    BY <1>0, <1>3 DEF Select, p
  <2> HIDE DEF s
  <2> QED BY <2>3, <2>4, RunStepKeeps
<1>4. ASSUME NEW t \in ReadThresholds, AskAgain(c, t) PROVE RoutingInv'
  <2> DEFINE p == Policy(Harder(q.request), t)
             s == [q EXCEPT !.step = "again", !.policy = p, !.again = t, !.request = None]
  <2>0. q.step = "answered" BY <1>4 DEF AskAgain
  <2>a. q.request \in Requests /\ Good(q.read) BY <2>0, <1>0 DEF RunPart
  <2>b. q.selected = None /\ t = q.read =>
          p.analysis >= q.first.analysis /\ p.patch >= q.first.patch
    BY <2>0, <2>a, <1>0, HarderIsNoWeaker DEF RunPart
  <2>c. run' = [run EXCEPT ![c] = s] /\ UNCHANGED <<stored, todo, made, lacks>>
    <3>1. /\ run' = [run EXCEPT ![c].step = "again", ![c].policy = p, ![c].again = t,
                                 ![c].request = None]
          /\ UNCHANGED <<stored, todo, made, lacks>>
      BY <1>4 DEF AskAgain, Harder
    <3> HIDE DEF p
    <3> QED BY <3>1, <1>0
  <2> HIDE DEF p
  <2>1. /\ Shaped(s) /\ s.step = "again" /\ s.read = q.read /\ s.selected = q.selected
        /\ s.policy = p /\ s.first = q.first /\ s.again = t
    <3> HIDE DEF q
    <3> QED BY <1>q DEF Shaped, RunFields
  <2>3. RunPart(s)
    <3> HIDE DEF s
    <3> QED BY <2>1, <2>b DEF RunPart
  <2> HIDE DEF s
  <2> QED BY <2>3, <2>c, RunStepKeeps
<1> QED BY <1>1, <1>2, <1>3, <1>4

LEMMA CallKeeps ==
  ASSUME RoutingInv, NEW c \in Tasks, (\E reply \in Answers : Call(c, reply)) \/ CallFails(c)
  PROVE  RoutingInv'
<1> DEFINE q == run[c]
           over(step) == [Idle EXCEPT !.step = step]
           s == [q EXCEPT !.step = "answered", !.first = q.policy]
<1>1. /\ RunPart(q) /\ Shaped(q) /\ run = [d \in Tasks |-> run[d]] /\ q.step = "call"
      /\ UNCHANGED <<stored, todo, made, lacks>>
  BY DEF RoutingInv, RunsFit, RunPart, Call, CallFails
<1>2. /\ Shaped(s) /\ s.step = "answered" /\ s.request = q.request /\ s.read = q.read
      /\ s.selected = q.selected /\ s.first = q.policy
  <2> HIDE DEF q
  <2> QED BY <1>1 DEF Shaped, RunFields
<1>3. RunPart(s)
  <2> HIDE DEF s
  <2> QED BY <1>1, <1>2 DEF RunPart
<1>4. Accepts \/ Lacking
  <2>1. ASSUME ~Accepts PROVE Lacking
    <3>1. PICK i \in Refused : Arguments[i] \notin MayGo \/ Refused # {i} BY <2>1 DEF Accepts
    <3>2. CASE Arguments[i] \notin MayGo BY <3>2, <3>1 DEF Refused, Lacking
    <3>3. CASE Refused # {i}
      <4>1. PICK j \in Refused : j # i BY <3>1, <3>3
      <4>2. Arguments[i] # Arguments[j]
        <5>1. Len(Arguments) = 5 BY DEF Arguments
        <5>2. i \in 1..5 /\ j \in 1..5 BY <5>1, <3>1, <4>1 DEF Refused
        <5> QED BY <5>2, <4>1 DEF Arguments
      <4> QED BY <4>1, <4>2, <3>1 DEF Refused, Lacking
    <3> QED BY <3>1, <3>2, <3>3
  <2> QED BY <2>1
<1>5. /\ \A step : Shaped(over(step)) /\ over(step).step = step
      /\ RunPart(over("failed")) /\ (~Accepts => RunPart(over("unwrapped")))
  <2>1. \A step : Shaped(over(step)) /\ over(step).step = step BY DEF Idle, Shaped, RunFields
  <2> HIDE DEF over
  <2> QED BY <2>1, <1>4 DEF RunPart
<1>6. \/ run' = [run EXCEPT ![c] = s]
      \/ run' = [run EXCEPT ![c] = over("failed")]
      \/ ~Accepts /\ run' = [run EXCEPT ![c] = over("unwrapped")]
  <2>1. CASE \E reply \in Answers : Call(c, reply)
    BY <2>1, <1>1 DEF Call, Fail
  <2>2. CASE CallFails(c)
    BY <2>2, <1>1 DEF CallFails, Fail
  <2> QED BY <2>1, <2>2
<1> HIDE DEF s, over
<1> QED BY <1>1, <1>3, <1>5, <1>6, RunStepKeeps

LEMMA RoutingStepKeeps == RoutingInv /\ [RoutingNext]_routingVars => RoutingInv'
<1> SUFFICES ASSUME RoutingInv, [RoutingNext]_routingVars PROVE RoutingInv' OBVIOUS
<1>1. CASE UNCHANGED routingVars
  BY <1>1 DEF routingVars, RoutingInv, ThresholdsGood, RunsFit, RunPart, Lacking
<1>2. CASE RoutingNext
  BY <1>1, <1>2, CalibrationKeeps, ExpiryKeeps, ChoiceKeeps, CallKeeps DEF RoutingNext, AllOver
<1> QED BY <1>1, <1>2

\* For any telemetry, configuration that is accepted, client and runs: the thresholds that a
\* calibration stores are those the runs take, a run that asks again gets no weaker model for
\* no reason, and a call fails for the client's sake only when it lacks what may not go, or
\* two parameters (routing_thresholds.py:30, task_service.py:1618, llm/orchestrator.py:147).
THEOREM RoutingAlwaysExplained == RoutingSpec => []RoutingExplained
<1>1. RoutingInit => RoutingInv BY RoutingInitEstablishes
<1>2. RoutingInv /\ [RoutingNext]_routingVars => RoutingInv' BY RoutingStepKeeps
<1>3. RoutingInv => RoutingExplained
  <2> SUFFICES ASSUME RoutingInv PROVE RoutingExplained OBVIOUS
  <2>1. StoredIsTaken BY DEF RoutingInv, ThresholdsGood, Good, StoredIsTaken, ReadThresholds
  <2>2. WeakerRetryExplained BY DEF RoutingInv, RunsFit, RunPart, WeakerRetryExplained
  <2>3. UnwrappedIsExplained
    BY DEF RoutingInv, RunsFit, RunPart, Lacking, UnwrappedIsExplained
  <2> QED BY <2>1, <2>2, <2>3 DEF RoutingExplained
<1> QED BY <1>1, <1>2, <1>3, PTL DEF RoutingSpec

Numbers == [1..4 -> Int]
Shares == [1..4 -> 0..1000]

PartOf(a, b) == (a * 1000) \div b

\* a part of a whole, in thousandths
LEMMA Share ==
  ASSUME NEW a \in Nat, NEW b \in Nat \ {0}, a <= b
  PROVE  PartOf(a, b) \in 0..1000
<1> DEFINE c == a * 1000
           d == c \div b
<1>1. c \in Nat /\ c <= 1000 * b OBVIOUS
<1> HIDE DEF c
<1>2. d \in Int /\ b * d <= c /\ d >= 0 BY <1>1
<1> HIDE DEF d
<1>3. d <= 1000
  <2> SUFFICES ASSUME d >= 1001 PROVE FALSE BY <1>2
  <2>1. b * d >= b * 1001 BY <1>2
  <2> QED BY <2>1, <1>1, <1>2
<1>4. d \in 0..1000 BY <1>2, <1>3
<1> QED BY <1>4 DEF d, c, PartOf

LEMMA NormalFits ==
  ASSUME NEW w \in Numbers
  PROVE  Normal(w) \in Shares
<1> USE DEF Numbers
<1>1. CASE (\E i \in 1..4 : w[i] < 0) \/ Total(w) = 0
  <2>1. Normal(w) = <<400, 250, 200, 150>> BY <1>1 DEF Normal
  <2>2. <<400, 250, 200, 150>> \in Shares BY ONLY DEF Shares
  <2> QED BY ONLY <2>1, <2>2
<1>2. CASE ~((\E i \in 1..4 : w[i] < 0) \/ Total(w) = 0)
  <2>1. w[1] \in Nat /\ w[2] \in Nat /\ w[3] \in Nat /\ w[4] \in Nat BY <1>2
  <2>2. Total(w) \in Nat \ {0} BY <1>2, <2>1 DEF Total
  <2>3. ASSUME NEW i \in 1..4 PROVE w[i] \in Nat /\ w[i] <= Total(w)
    <3>1. i \in {1, 2, 3, 4} OBVIOUS
    <3> QED BY <2>1, <3>1 DEF Total
  <2>4. Normal(w) = [i \in 1..4 |-> PartOf(w[i], Total(w))] BY <1>2 DEF Normal, PartOf
  <2>5. \A i \in 1..4 : PartOf(w[i], Total(w)) \in 0..1000
    BY <2>2, <2>3, Share
  <2>6. ASSUME NEW i \in 1..4 PROVE Normal(w)[i] \in 0..1000
    <3>1. Normal(w)[i] = PartOf(w[i], Total(w)) BY <2>4
    <3>2. PartOf(w[i], Total(w)) \in 0..1000 BY <2>5
    <3> QED BY <3>1, <3>2
  <2>7. Normal(w) = [i \in 1..4 |-> Normal(w)[i]] BY <2>4
  <2> QED BY <2>6, <2>7, Zenon DEF Shares
<1> QED BY <1>1, <1>2

LEMMA SharesAreNumbers == Shares \subseteq Numbers
<1> SUFFICES ASSUME NEW w \in Shares PROVE w \in Numbers OBVIOUS
<1>1. w = [i \in 1..4 |-> w[i]] /\ \A i \in 1..4 : w[i] \in 0..1000 BY DEF Shares
<1>2. \A i \in 1..4 : w[i] \in Int BY <1>1
<1> QED BY <1>1, <1>2 DEF Numbers

LEMMA BiasedAreNumbers ==
  ASSUME NEW w \in Numbers, NEW p
  PROVE  Biased(w, p) \in Numbers
<1>1. w[1] \in Int /\ w[2] \in Int /\ w[3] \in Int /\ w[4] \in Int BY DEF Numbers
<1>2. \A a, b, c, d \in Int : <<a, b, c, d>> \in Numbers BY DEF Numbers
<1>3. /\ (w[2] * 135) \div 100 \in Int /\ (w[3] * 9) \div 10 \in Int
      /\ (w[1] * 9) \div 10 \in Int /\ (w[3] * 14) \div 10 \in Int
      /\ (w[1] * 14) \div 10 \in Int /\ (w[2] * 9) \div 10 \in Int
  BY <1>1
<1> QED BY <1>1, <1>2, <1>3 DEF Biased

LEMMA WeightsFit ==
  ASSUME NEW rows \in Windows, Len(rows) >= MinSamples
  PROVE  Weights(rows) \in Shares
<1>1. rows \in Seq(Telemetry) /\ rows # <<>> /\ Len(rows) \in Nat \ {0}
  BY RoutingAssumption DEF Telemetry
<1>2. \A field : CountOf(rows, field) \in Nat BY <1>1, CountIsANumber
<1>3. Largest(rows, "latency") \in Nat /\ Largest(rows, "tokens") \in Nat
  BY <1>1, LargestIsANumber
<1> DEFINE n == AtLeast(1, Len(rows))
           fails == (CountOf(rows, "failed") * 1000) \div n
           again == (CountOf(rows, "retried") * 500) \div n
           unsure == (CountOf(rows, "unsure") * 1000) \div n
           q == (5 * fails + 3 * unsure + 2 * again) \div 10
           slow == (Largest(rows, "latency") - 2000) \div 8
           l == Clamp(slow, 0, 1000)
           long == (Largest(rows, "tokens") - 2000) \div 8
           t == Clamp(long, 0, 1000)
           base == Normal(BaseWeights)
           better == base[1] + (200 * q - 25 * (l + t)) \div 1000
           faster == base[2] + (220 * l - 40 * q) \div 1000
           cheaper == base[3] + (220 * t - 30 * q) \div 1000
           surer == base[4] + (180 * ((65 * fails + 35 * again) \div 100)) \div 1000
           all == <<AtLeast(0, better), AtLeast(0, faster), AtLeast(0, cheaper), surer>>
<1>4. n \in Nat \ {0} BY <1>1 DEF AtLeast
<1>5. fails \in Int /\ again \in Int /\ unsure \in Int
  <2> HIDE DEF n
  <2>1. /\ CountOf(rows, "failed") * 1000 \in Int /\ CountOf(rows, "retried") * 500 \in Int
        /\ CountOf(rows, "unsure") * 1000 \in Int
    BY <1>2
  <2> QED BY <1>4, <2>1, Quotient
<1>6. slow \in Int /\ long \in Int BY <1>3, Quotient
<1>7. l \in Int /\ t \in Int
  <2> HIDE DEF slow, long
  <2>1. l \in Int BY <1>6, Clamped
  <2>2. t \in Int BY <1>6, Clamped
  <2> QED BY <2>1, <2>2
<1>8. q \in Int
  <2> HIDE DEF fails, again, unsure
  <2> QED BY <1>5, Quotient
<1>9. base[1] \in Int /\ base[2] \in Int /\ base[3] \in Int /\ base[4] \in Int
  <2>1. BaseWeights \in Numbers BY RoutingAssumption DEF Numbers
  <2>2. base \in Numbers BY <2>1, NormalFits, SharesAreNumbers
  <2> HIDE DEF base
  <2> QED BY <2>2 DEF Numbers
<1>10. better \in Int /\ faster \in Int /\ cheaper \in Int
  <2> HIDE DEF q, l, t, base
  <2> QED BY <1>7, <1>8, <1>9, Quotient
<1>11. surer \in Int
  <2> HIDE DEF fails, again, base
  <2>1. (65 * fails + 35 * again) \div 100 \in Int BY <1>5, Quotient
  <2> QED BY <1>9, <2>1, Quotient
<1>12. Weights(rows) = Normal(all) BY DEF Weights
<1>13. all \in Numbers
  <2> HIDE DEF better, faster, cheaper, surer
  <2>1. AtLeast(0, better) \in Int /\ AtLeast(0, faster) \in Int /\ AtLeast(0, cheaper) \in Int
    BY <1>10 DEF AtLeast
  <2>2. \A a, b, c, d \in Int : <<a, b, c, d>> \in Numbers BY DEF Numbers
  <2> QED BY <1>11, <2>1, <2>2
<1> HIDE DEF all
<1> QED BY <1>12, <1>13, NormalFits

-----------------------------------------------------------------------------
\* Among finitely many there is one with the largest number.
LEMMA PeakOfSet ==
  ASSUME NEW S, IsFiniteSet(S), S # {}, NEW f, \A x \in S : f[x] \in Int
  PROVE  \E k \in S : \A x \in S : f[x] <= f[k]
<1> DEFINE n == Cardinality(S)
<1>1. n \in Nat \ {0} BY FS_CardinalityType, FS_EmptySet
<1>2. ExistsBijection(1..n, S) BY FS_CardinalityType
<1>3. PICK s \in Bijection(1..n, S) : TRUE BY <1>2 DEF ExistsBijection
<1>4. s \in [1..n -> S] /\ \A x \in S : \E i \in 1..n : s[i] = x
  BY <1>3 DEF Bijection, Surjection, Injection
<1> HIDE DEF n
<1> DEFINE g == [i \in 1..n |-> f[s[i]]]
<1>5. \A i \in 1..n : g[i] \in Int /\ g[i] = f[s[i]] BY <1>4
<1>6. PICK k \in 1..n : \A i \in 1..n : g[i] <= g[k]
  <2> HIDE DEF g
  <2> QED BY <1>1, <1>5, PeakExists
<1> QED BY <1>4, <1>5, <1>6

LEMMA SpreadIsANumber ==
  ASSUME NEW m \in DOMAIN Stats, NEW i \in 1..4
  PROVE  Spread(Stats[m][i], i) \in Int
<1> DEFINE all == {Stats[k][i] : k \in DOMAIN Stats}
           f == [k \in DOMAIN Stats |-> Stats[k][i]]
           g == [k \in DOMAIN Stats |-> 0 - Stats[k][i]]
           lo == CHOOSE v \in all : \A u \in all : v <= u
           hi == CHOOSE v \in all : \A u \in all : v >= u
<1>1. IsFiniteSet(DOMAIN Stats) /\ \A k \in DOMAIN Stats : Stats[k][i] \in Int
  BY RoutingAssumption
<1>2. \A k \in DOMAIN Stats : f[k] \in Int /\ g[k] \in Int /\ f[k] = Stats[k][i] /\ g[k] = 0 - Stats[k][i]
  BY <1>1
<1>3. \E k \in DOMAIN Stats : \A x \in DOMAIN Stats : f[x] <= f[k]
  <2> HIDE DEF f
  <2> QED BY <1>1, <1>2, PeakOfSet
<1>4. \E k \in DOMAIN Stats : \A x \in DOMAIN Stats : g[x] <= g[k]
  <2> HIDE DEF g
  <2> QED BY <1>1, <1>2, PeakOfSet
<1>5. \E v \in all : \A u \in all : v >= u BY <1>1, <1>2, <1>3
<1>6. \E v \in all : \A u \in all : v <= u
  <2>1. PICK k \in DOMAIN Stats : \A x \in DOMAIN Stats : g[x] <= g[k] BY <1>4
  <2>2. \A x \in DOMAIN Stats : Stats[k][i] <= Stats[x][i]
    <3> HIDE DEF g
    <3> QED BY <1>1, <1>2, <2>1
  <2> QED BY <2>2
<1>7. hi \in all /\ lo \in all BY <1>5, <1>6
<1>8. hi \in Int /\ lo \in Int
  <2>1. all \subseteq Int BY <1>1
  <2> HIDE DEF all, hi, lo
  <2> QED BY <1>7, <2>1
<1>9. Spread(Stats[m][i], i)
        = IF hi <= lo THEN 500 ELSE ((Stats[m][i] - lo) * 1000) \div (hi - lo)
  BY DEF Spread
<1>10. CASE hi <= lo BY <1>9, <1>10
<1>11. CASE ~(hi <= lo)
  <2> HIDE DEF hi, lo
  <2>1. hi - lo \in Nat \ {0} /\ (Stats[m][i] - lo) * 1000 \in Int BY <1>1, <1>8, <1>11
  <2> QED BY <1>9, <1>11, <2>1, Quotient
<1> QED BY <1>10, <1>11

LEMMA ScoreIsANumber ==
  ASSUME NEW m \in DOMAIN Stats, NEW w \in Numbers
  PROVE  Score(m, w) \in Int
<1>1. /\ Spread(Stats[m][2], 2) \in Int /\ Spread(Stats[m][3], 3) \in Int
  BY SpreadIsANumber
<1>2. Clamp(Stats[m][1], 0, 1000) \in Int /\ Clamp(Stats[m][4], 0, 1000) \in Int
  <2>1. Stats[m][1] \in Int /\ Stats[m][4] \in Int BY RoutingAssumption
  <2>2. \A x \in Int : Clamp(x, 0, 1000) \in Int BY Clamped
  <2> QED BY <2>1, <2>2
<1>3. w[1] \in Int /\ w[2] \in Int /\ w[3] \in Int /\ w[4] \in Int BY DEF Numbers
<1> DEFINE a == Clamp(Stats[m][1], 0, 1000)
           b == Spread(Stats[m][2], 2)
           c == Spread(Stats[m][3], 3)
           d == Clamp(Stats[m][4], 0, 1000)
           s == a * w[1] + (1000 - b) * w[2] + (1000 - c) * w[3] + (1000 - d) * w[4]
<1>4. s \in Int
  <2> HIDE DEF a, b, c, d
  <2>1. a \in Int /\ b \in Int /\ c \in Int /\ d \in Int BY <1>1, <1>2 DEF a, b, c, d
  <2> QED BY <1>3, <2>1
<1>5. Score(m, w) = s \div 1000 BY DEF Score
<1> HIDE DEF s
<1> QED BY <1>4, <1>5, Quotient

\* The model that is picked is one of the pool.
LEMMA PickFits ==
  ASSUME NEW pool, Len(pool) \in Nat \ {0}, NEW w \in Numbers
  PROVE  Pick(pool, w).rank \in 0..Len(pool)
<1> DEFINE known == {i \in 1..Len(pool) : pool[i] \in DOMAIN Stats}
           f == [i \in known |-> Score(pool[i], w)]
           First(i) == \A j \in known :
                \/ Score(pool[i], w) > Score(pool[j], w)
                \/ Score(pool[i], w) = Score(pool[j], w) /\ i <= j
<1>1. CASE known = {} BY <1>1 DEF Pick
<1>2. CASE known # {}
  <2>1. IsFiniteSet(known)
    <3>1. IsFiniteSet(1..Len(pool)) /\ known \subseteq 1..Len(pool) BY FS_Interval
    <3> HIDE DEF known
    <3> QED BY <3>1, FS_Subset
  <2>2. \A i \in known : f[i] \in Int /\ f[i] = Score(pool[i], w) BY ScoreIsANumber
  <2>3. PICK k \in known : \A i \in known : f[i] <= f[k]
    <3> HIDE DEF known, f
    <3> QED BY <1>2, <2>1, <2>2, PeakOfSet
  <2> DEFINE tops == {i \in known : f[i] = f[k]}
  <2>4. tops \subseteq Nat /\ tops # {} BY <2>3
  <2>5. PICK i \in tops : \A j \in tops : i <= j
    <3> HIDE DEF tops
    <3> QED BY <2>4, FirstOfNumbers
  <2>6. i \in known /\ f[i] = f[k] BY <2>5
  <2>7. First(i)
    <3> SUFFICES ASSUME NEW j \in known
        PROVE  f[i] > f[j] \/ (f[i] = f[j] /\ i <= j)
      BY <2>2, <2>6
    <3>1. f[j] \in Int /\ f[i] \in Int /\ f[j] <= f[i] BY <2>2, <2>3, <2>6
    <3>2. CASE f[j] = f[i] BY <3>2, <2>5, <2>6
    <3>3. CASE f[j] # f[i] BY <3>1, <3>3
    <3> QED BY <3>2, <3>3
  <2>8. \E x \in known : First(x) BY <2>6, <2>7
  <2> DEFINE best == CHOOSE x \in known : First(x)
  <2>9. best \in known BY <2>8
  <2>10. Pick(pool, w).rank = best BY <1>2 DEF Pick
  <2> QED BY <2>9, <2>10
<1> QED BY <1>1, <1>2

LEMMA RankFits ==
  ASSUME NEW pool, Len(pool) \in Nat \ {0}, NEW c, NEW t
  PROVE  Rank(pool, c, t) \in 1..Len(pool)
<1> DEFINE n == Len(pool)
<1>1. Rank(pool, c, t) = CASE n = 1 -> 1
                           [] n = 2 -> IF c >= t[2] THEN 2 ELSE 1
                           [] OTHER -> IF c >= t[3] THEN n ELSE IF c >= t[1] THEN 2 ELSE 1
  BY DEF Rank
<1>2. n \in Nat \ {0} OBVIOUS
<1> HIDE DEF n
<1> SUFFICES Rank(pool, c, t) \in 1..n BY DEF n
<1>3. CASE n = 1 BY <1>1, <1>3
<1>4. CASE n = 2
  <2>1. Rank(pool, c, t) \in {1, 2} BY <1>1, <1>4
  <2> QED BY <2>1, <1>4
<1>5. CASE n > 2
  <2>1. Rank(pool, c, t) \in {n, 2, 1} BY <1>1, <1>2, <1>5
  <2> QED BY <2>1, <1>2, <1>5
<1> QED BY <1>2, <1>3, <1>4, <1>5

LEMMA PolicyFits == ASSUME NEW r, NEW t PROVE PolicyOK(Policy(r, t))
<1>1. \A stage \in {"triage", "analysis", "patch"} : Len(Pools[stage]) \in Nat \ {0}
  BY RoutingAssumption
<1>2. \A c : /\ Rank(Pools.triage, c, t) \in 1..Len(Pools.triage)
             /\ Rank(Pools.analysis, c, t) \in 1..Len(Pools.analysis)
             /\ Rank(Pools.patch, c, t) \in 1..Len(Pools.patch)
  BY <1>1, RankFits
<1>3. \A c : VerifierEffort(r, c, t) \in {"low", "medium", "high"} BY DEF VerifierEffort
<1> QED BY <1>2, <1>3 DEF Policy, PolicyOK

LEMMA SelectionFits ==
  ASSUME NEW r, NEW w \in Numbers, NEW t
  PROVE  PolicyOK(Selection(r, w, t))
<1> DEFINE more == <<w[1], (w[2] * 115) \div 100, (w[3] * 11) \div 10, w[4]>>
           v == IF EdgeCase(r, t) THEN w ELSE Normal(more)
           picks == <<Pick(Pools.triage, w), Pick(Pools.analysis, w), Pick(Pools.patch, w),
                      Pick(Pools.analysis, v)>>
<1>1. v \in Numbers
  <2>1. w[1] \in Int /\ w[2] \in Int /\ w[3] \in Int /\ w[4] \in Int BY DEF Numbers
  <2>2. (w[2] * 115) \div 100 \in Int /\ (w[3] * 11) \div 10 \in Int BY <2>1
  <2>3. \A a, b, c, d \in Int : <<a, b, c, d>> \in Numbers BY DEF Numbers
  <2>4. more \in Numbers BY <2>1, <2>2, <2>3
  <2> HIDE DEF more
  <2> QED BY <2>4, NormalFits, SharesAreNumbers
<1>2. \A stage \in {"triage", "analysis", "patch"} : Len(Pools[stage]) \in Nat \ {0}
  BY RoutingAssumption
<1> HIDE DEF v
<1>3. /\ picks[1].rank \in 0..Len(Pools.triage) /\ picks[2].rank \in 0..Len(Pools.analysis)
      /\ picks[3].rank \in 0..Len(Pools.patch) /\ picks[4].rank \in 0..Len(Pools.analysis)
  BY <1>1, <1>2, PickFits
<1>4. Selection(r, w, t) =
        IF \E i \in 1..4 : picks[i].rank = 0 \/ picks[i].sure < Confidence THEN None
        ELSE [triage |-> picks[1].rank, analysis |-> picks[2].rank, patch |-> picks[3].rank,
              verifier |-> picks[4].rank,
              effort |-> IF EdgeCase(r, t) THEN "high" ELSE "medium"]
  BY DEF Selection, v
<1> HIDE DEF picks
<1>5. CASE \E i \in 1..4 : picks[i].rank = 0 \/ picks[i].sure < Confidence
  BY <1>4, <1>5 DEF PolicyOK
<1>6. CASE ~(\E i \in 1..4 : picks[i].rank = 0 \/ picks[i].sure < Confidence)
  <2>1. picks[1].rank # 0 /\ picks[2].rank # 0 /\ picks[3].rank # 0 /\ picks[4].rank # 0
    BY <1>6
  <2> QED BY <1>2, <1>3, <1>4, <1>6, <2>1 DEF PolicyOK
<1> QED BY <1>5, <1>6

-----------------------------------------------------------------------------
RunSteps == {"idle", "weights", "select", "call", "answered", "failed", "unwrapped", "again"}
\* what is stored, or to be stored, under a key
Top == 2000
Orders == [1..3 -> 0..Top]
ValueFits(key, v) == (key = "thresholds" /\ v \in Orders) \/ (key # "thresholds" /\ v \in Shares)
ChoiceFits(q) ==
  /\ q.step \in RunSteps /\ (q.step = "select" => q.weights \in Numbers)
  /\ PolicyOK(q.fallback) /\ PolicyOK(q.selected) /\ PolicyOK(q.policy)
RoutingFits ==
  /\ \A key \in StoredKeys : stored[key] = None \/ ValueFits(key, stored[key])
  /\ \A k \in Calibrators : \A e \in todo[k] : ValueFits(e[1], e[2])
  /\ \A c \in Tasks : ChoiceFits(run[c])

LEMMA EntriesFit ==
  ASSUME NEW rows \in Windows, Len(rows) >= MinSamples, NEW e \in Entries(rows)
  PROVE  ValueFits(e[1], e[2])
<1>1. CASE e = <<"thresholds", Thresholds(rows)>>
  <2> DEFINE t == Thresholds(rows)
  <2>1. Good(t) /\ t \in [1..3 -> Int] BY DerivedIsGood
  <2>2. ASSUME NEW i \in 1..3 PROVE t[i] \in 0..Top
    <3> HIDE DEF t
    <3>0. Good(t) BY <2>1
    <3>1. /\ 0 <= t[1] /\ t[1] <= Top /\ 0 <= t[2] /\ t[2] <= Top /\ 0 <= t[3] /\ t[3] <= Top
      BY ONLY <3>0 DEF Good, Accepted, Top
    <3>2. t[i] \in Int /\ 0 <= t[i] /\ t[i] <= Top
      <4>1. i \in {1, 2, 3} OBVIOUS
      <4> QED BY <2>1, <3>1, <4>1
    <3>3. Top \in Int BY DEF Top
    <3> QED BY <3>2, <3>3
  <2>3. e[1] = "thresholds" /\ e[2] = t BY <1>1
  <2> HIDE DEF t
  <2>4. t \in Orders BY <2>1, <2>2 DEF Orders
  <2> QED BY <2>3, <2>4 DEF ValueFits
<1>2. ASSUME NEW p \in Profiles, e = <<p, Normal(Biased(Weights(rows), p))>>
      PROVE  ValueFits(e[1], e[2])
  <2>1. Normal(Biased(Weights(rows), p)) \in Shares
    BY WeightsFit, SharesAreNumbers, BiasedAreNumbers, NormalFits
  <2>2. p # "thresholds" BY RoutingAssumption
  <2> QED BY <1>2, <2>1, <2>2 DEF ValueFits
<1> QED BY <1>1, <1>2 DEF Entries

LEMMA WhatIsReadFits == ASSUME RoutingFits PROVE ReadWeights \subseteq Numbers
<1>1. BaseWeights \in Numbers BY RoutingAssumption DEF Numbers
<1>2. stored[Profile] = None \/ stored[Profile] \in Shares
  <2>1. Profile \in StoredKeys /\ Profile # "thresholds"
    BY RoutingAssumption DEF StoredKeys
  <2> QED BY <2>1 DEF RoutingFits, ValueFits
<1> QED BY <1>1, <1>2, NormalFits, SharesAreNumbers DEF ReadWeights

LEMMA RunStepFits ==
  ASSUME RoutingInv, RoutingFits, NEW c \in Tasks, NEW q, ChoiceFits(q),
         run' = [run EXCEPT ![c] = q], UNCHANGED <<stored, todo, made, lacks>>
  PROVE  RoutingFits'
<1>1. \A d \in Tasks : ChoiceFits(run'[d]) BY DEF RoutingInv, RunsFit, RoutingFits
<1>2. \A d \in Tasks : ChoiceFits(run[d])' BY <1>1 DEF ChoiceFits, PolicyOK
<1> QED BY <1>2 DEF RoutingFits

LEMMA CalibrationFits ==
  ASSUME RoutingInv, RoutingFits, NEW k \in Calibrators,
         \/ \E rows \in Windows : Calibrate(k, rows)
         \/ \E e \in todo[k] : Store(k, e) \/ StoreFails(k, e)
  PROVE  RoutingFits'
<1>1. run' = run BY DEF Calibrate, Store, StoreFails
<1>2. \A c \in Tasks : ChoiceFits(run'[c]) BY <1>1 DEF RoutingFits
<1>3. ASSUME NEW rows \in Windows, Calibrate(k, rows) PROVE RoutingFits'
  <2>1. Len(rows) >= MinSamples /\ stored' = stored /\ todo' = [todo EXCEPT ![k] = Entries(rows)]
    BY <1>3 DEF Calibrate
  <2>2. \A e \in Entries(rows) : ValueFits(e[1], e[2]) BY <2>1, EntriesFit
  <2>3. \A j \in Calibrators : \A e \in todo'[j] : ValueFits(e[1], e[2])
    BY <2>1, <2>2 DEF RoutingInv, ThresholdsGood, RoutingFits
  <2> QED BY <1>1, <2>1, <2>3 DEF RoutingFits
<1>4. ASSUME NEW e \in todo[k], Store(k, e) \/ StoreFails(k, e) PROVE RoutingFits'
  <2>1. todo' = [todo EXCEPT ![k] = @ \ {e}] BY <1>4 DEF Store, StoreFails
  <2>2. stored' = stored \/ stored' = [stored EXCEPT ![e[1]] = e[2]]
    BY <1>4 DEF Store, StoreFails
  <2>3. \A j \in Calibrators : todo'[j] \subseteq todo[j]
    BY <2>1 DEF RoutingInv, ThresholdsGood
  <2>4. ValueFits(e[1], e[2]) BY DEF RoutingFits
  <2>5. \A key \in StoredKeys : stored'[key] = None \/ ValueFits(key, stored'[key])
    BY <2>2, <2>4 DEF RoutingInv, ThresholdsGood, RoutingFits
  <2> QED BY <1>1, <2>3, <2>5 DEF RoutingFits
<1> QED BY <1>3, <1>4

LEMMA ChoiceStepFits ==
  ASSUME RoutingInv, RoutingFits, NEW c \in Tasks,
         \/ \E r \in Requests, t \in ReadThresholds : Begin(c, r, t)
         \/ \E w \in ReadWeights : TakeWeights(c, w)
         \/ \E t \in ReadThresholds : Select(c, t) \/ AskAgain(c, t)
         \/ \E reply \in Answers : Call(c, reply)
         \/ CallFails(c)
  PROVE  RoutingFits'
<1> DEFINE q == run[c]
<1>0. /\ Shaped(q) /\ run = [d \in Tasks |-> run[d]] /\ ChoiceFits(q)
  BY DEF RoutingInv, RunsFit, RunPart, RoutingFits
<1>1. ASSUME NEW r \in Requests, NEW t \in ReadThresholds, Begin(c, r, t) PROVE RoutingFits'
  <2> DEFINE p == Policy(r, t)
             s == [Idle EXCEPT !.step = "weights", !.request = r, !.read = t, !.fallback = p]
  <2>1. PolicyOK(p) /\ PolicyOK(None) BY PolicyFits DEF PolicyOK
  <2>2. run' = [run EXCEPT ![c] = s] /\ UNCHANGED <<stored, todo, made, lacks>>
    BY <1>1 DEF Begin
  <2> HIDE DEF p
  <2>3. s.step = "weights" /\ s.fallback = p /\ s.selected = None /\ s.policy = None
    BY DEF Idle
  <2> HIDE DEF s
  <2>4. ChoiceFits(s) BY <2>1, <2>3 DEF ChoiceFits, RunSteps
  <2> QED BY <2>2, <2>4, RunStepFits
<1>2. ASSUME NEW w \in ReadWeights, TakeWeights(c, w) PROVE RoutingFits'
  <2> DEFINE s == [q EXCEPT !.step = "select", !.weights = w]
  <2>1. w \in Numbers BY WhatIsReadFits
  <2>2. run' = [run EXCEPT ![c] = s] /\ UNCHANGED <<stored, todo, made, lacks>>
    BY <1>0, <1>2 DEF TakeWeights
  <2>3. /\ s.step = "select" /\ s.weights = w /\ s.fallback = q.fallback
        /\ s.selected = q.selected /\ s.policy = q.policy
    <3> HIDE DEF q
    <3> QED BY <1>0 DEF Shaped, RunFields
  <2> HIDE DEF s
  <2>4. ChoiceFits(s) BY <1>0, <2>1, <2>3 DEF ChoiceFits, RunSteps
  <2> QED BY <2>2, <2>4, RunStepFits
<1>3. ASSUME NEW t \in ReadThresholds, Select(c, t) PROVE RoutingFits'
  <2> DEFINE p == Selection(run[c].request, Normal(Biased(run[c].weights, Profile)), t)
             s == [q EXCEPT !.step = "call", !.selected = p,
                            !.policy = IF p = None THEN q.fallback ELSE p,
                            !.weights = None, !.fallback = None]
  <2>1. PolicyOK(p)
    <3>1. run[c].weights \in Numbers BY <1>0, <1>3 DEF ChoiceFits, Select
    <3>2. Normal(Biased(run[c].weights, Profile)) \in Numbers
      BY <3>1, BiasedAreNumbers, NormalFits, SharesAreNumbers
    <3> QED BY <3>2, SelectionFits
  <2> HIDE DEF p
  <2>2. run' = [run EXCEPT ![c] = s] /\ UNCHANGED <<stored, todo, made, lacks>>
    BY <1>0, <1>3 DEF Select, p
  <2>3. /\ s.step = "call" /\ s.fallback = None /\ s.selected = p
        /\ s.policy = IF p = None THEN q.fallback ELSE p
    <3> HIDE DEF q
    <3> QED BY <1>0 DEF Shaped, RunFields
  <2>4. PolicyOK(None) BY DEF PolicyOK
  <2> HIDE DEF s
  <2>5. ChoiceFits(s) BY <1>0, <2>1, <2>3, <2>4 DEF ChoiceFits, RunSteps
  <2> QED BY <2>2, <2>5, RunStepFits
<1>4. ASSUME NEW t \in ReadThresholds, AskAgain(c, t) PROVE RoutingFits'
  <2> DEFINE p == Policy(Harder(q.request), t)
             s == [q EXCEPT !.step = "again", !.policy = p, !.again = t, !.request = None]
  <2>1. PolicyOK(p) BY PolicyFits
  <2>2. /\ run' = [run EXCEPT ![c].step = "again", ![c].policy = p, ![c].again = t,
                               ![c].request = None]
        /\ UNCHANGED <<stored, todo, made, lacks>>
    BY <1>4 DEF AskAgain, Harder
  <2> HIDE DEF p
  <2>3. run' = [run EXCEPT ![c] = s] BY <1>0, <2>2
  <2>4. /\ s.step = "again" /\ s.fallback = q.fallback /\ s.selected = q.selected
        /\ s.policy = p
    <3> HIDE DEF q
    <3> QED BY <1>0 DEF Shaped, RunFields
  <2> HIDE DEF s
  <2>5. ChoiceFits(s) BY <1>0, <2>1, <2>4 DEF ChoiceFits, RunSteps
  <2> QED BY <2>2, <2>3, <2>5, RunStepFits
<1>5. CASE (\E reply \in Answers : Call(c, reply)) \/ CallFails(c)
  <2> DEFINE over(step) == [Idle EXCEPT !.step = step]
             s == [q EXCEPT !.step = "answered", !.first = q.policy]
  <2>1. /\ s.step = "answered" /\ s.fallback = q.fallback /\ s.selected = q.selected
        /\ s.policy = q.policy
    <3> HIDE DEF q
    <3> QED BY <1>0 DEF Shaped, RunFields
  <2>2. ChoiceFits(s)
    <3> HIDE DEF s
    <3> QED BY <1>0, <2>1 DEF ChoiceFits, RunSteps
  <2>3. \A step \in {"failed", "unwrapped"} : ChoiceFits(over(step))
    BY DEF ChoiceFits, Idle, RunSteps, PolicyOK
  <2>4. UNCHANGED <<stored, todo, made, lacks>> BY <1>5 DEF Call, CallFails
  <2>5. \/ run' = [run EXCEPT ![c] = s]
        \/ \E step \in {"failed", "unwrapped"} : run' = [run EXCEPT ![c] = over(step)]
    <3>1. CASE \E reply \in Answers : Call(c, reply) BY <3>1, <1>0 DEF Call, Fail
    <3>2. CASE CallFails(c) BY <3>2, <1>0 DEF CallFails, Fail
    <3> QED BY <1>5, <3>1, <3>2
  <2> HIDE DEF s, over
  <2> QED BY <2>2, <2>3, <2>4, <2>5, RunStepFits
<1> QED BY <1>1, <1>2, <1>3, <1>4, <1>5

LEMMA RoutingFitsKept ==
  ASSUME RoutingInv, RoutingFits, [RoutingNext]_routingVars PROVE RoutingFits'
<1>1. CASE UNCHANGED routingVars
  BY <1>1 DEF routingVars, RoutingFits, ChoiceFits, PolicyOK
<1>2. ASSUME NEW key \in StoredKeys, ExpireStored(key) PROVE RoutingFits'
  <2>1. UNCHANGED <<todo, run>> BY <1>2 DEF ExpireStored
  <2>2. \A j \in StoredKeys : stored'[j] = stored[j] \/ stored'[j] = None
    BY <1>2 DEF ExpireStored, RoutingInv, ThresholdsGood
  <2> QED BY <2>1, <2>2 DEF RoutingFits
<1> QED BY <1>1, <1>2, CalibrationFits, ChoiceStepFits DEF RoutingNext, AllOver

LEMMA RoutingWholeHolds ==
  /\ RoutingInit => RoutingFits
  /\ RoutingFits => RoutingTypeOK
<1>1. RoutingInit => RoutingFits
  BY DEF RoutingInit, RoutingFits, ChoiceFits, Idle, RunSteps, PolicyOK, StoredKeys
<1>2. ASSUME RoutingFits PROVE RoutingTypeOK
  <2>1. ASSUME NEW k \in StoredKeys, stored[k] # None, NEW i \in DOMAIN stored[k]
        PROVE  stored[k][i] \in 0..Top
    <3>1. CASE stored[k] \in Orders BY <3>1 DEF Orders
    <3>2. CASE stored[k] \in Shares
      <4>1. stored[k][i] \in 0..1000 BY <3>2 DEF Shares
      <4> QED BY <4>1 DEF Top
    <3> QED BY <1>2, <2>1, <3>1, <3>2 DEF RoutingFits, ValueFits
  <2>2. 0..Top = 0..2000 BY DEF Top
  <2> QED BY <1>2, <2>1, <2>2 DEF RoutingFits, RoutingTypeOK, ChoiceFits, RunSteps
<1> QED BY <1>1, <1>2

\* What a calibration stores is in its range, whatever the telemetry, and every model a
\* policy names is one of its pool (routing_calibration_service.py:36, policy.py:94,
\* routing_selector.py:120).
THEOREM RoutingTypeCorrect == RoutingSpec => []RoutingTypeOK
<1>1. RoutingInit => RoutingInv /\ RoutingFits BY RoutingInitEstablishes, RoutingWholeHolds
<1>2. RoutingInv /\ RoutingFits /\ [RoutingNext]_routingVars => RoutingInv' /\ RoutingFits'
  BY RoutingStepKeeps, RoutingFitsKept
<1>3. RoutingFits => RoutingTypeOK BY RoutingWholeHolds
<1> QED BY <1>1, <1>2, <1>3, PTL DEF RoutingSpec

-----------------------------------------------------------------------------
(* GraphMetrics.                                                           *)

\* the edges of a graph, along which one may go both ways
Weak(E) == E \cup {<<e[2], e[1]>> : e \in E}
FansKnown(S) == \A f \in S : fanIn[f] = Into(edges, f) /\ fanOut[f] = OutOf(edges, f)
SccKnown(S) ==
  \A f \in S : \A g \in Around({f}) \cap nodes : scc[f] = scc[g] <=> Mutual(edges, f, g)

UpdateSteps == {"idle", "part", "part_write", "full", "full_write", "over"}
UpdateFields == {"at", "paths", "removed", "read", "comp", "edges"}
MetricsShapes ==
  /\ nodes \subseteq Files /\ edges \subseteq Files \X Files
  /\ fanIn = [f \in Files |-> fanIn[f]] /\ fanOut = [f \in Files |-> fanOut[f]]
  /\ scc = [f \in Files |-> scc[f]] /\ stale \in BOOLEAN
  /\ updater = [u \in Updaters |-> updater[u]]
  /\ \A u \in Updaters : /\ updater[u] = [k \in UpdateFields |-> updater[u][k]]
                         /\ updater[u].at \in UpdateSteps
\* what an update that nothing has crossed leaves as it is on record, until it writes
UpdateFits(u) ==
  LET q == updater[u] IN
  /\ q.at = "part" =>
       \E f \in Files : /\ q.paths = {f} /\ FansKnown(nodes \ Affected(u))
                        /\ (f \in nodes => SccKnown(nodes \ Around({f})))
  /\ q.at = "part_write" =>
       \E f \in Files : /\ q.comp = Around({f}) /\ q.edges = edges
                        /\ FansKnown(nodes \ q.read) /\ SccKnown(nodes \ q.comp)
  /\ q.at = "full_write" =>
       q.edges = edges /\ q.read = nodes /\ q.comp = nodes \cup Ends(edges)
OneUpdates == \A u, v \in Updaters : Updating(u) /\ Updating(v) => u = v
MetricsInv ==
  /\ MetricsShapes
  /\ ~stale => OneUpdates /\ \A u \in Updaters : UpdateFits(u)
  /\ Settled => FansKnown(nodes) /\ SccKnown(nodes)

\* what is reached holds where it begins, and is closed
LEMMA GrownHolds ==
  ASSUME NEW R \in SUBSET (Files \X Files), NEW from \in SUBSET Files
  PROVE  /\ from \subseteq Grown(R, from) /\ Grown(R, from) \subseteq Files
         /\ Closed(R, Grown(R, from))
BY DEF Grown, Closed

\* and is the least set that does
LEMMA GrownLeast ==
  ASSUME NEW R, NEW from, NEW S \in SUBSET Files, from \subseteq S, Closed(R, S)
  PROVE  Grown(R, from) \subseteq S
BY DEF Grown

\* what is reached from there is no more
LEMMA GrownFurther ==
  ASSUME NEW R \in SUBSET (Files \X Files), NEW f \in Files, NEW g \in Grown(R, {f})
  PROVE  Grown(R, {g}) \subseteq Grown(R, {f})
BY GrownHolds, GrownLeast

\* both ways, who is reached reaches
LEMMA WeakBothWays ==
  ASSUME NEW E \in SUBSET (Files \X Files), NEW f \in Files, NEW g \in Grown(Weak(E), {f})
  PROVE  /\ g \in Files /\ f \in Grown(Weak(E), {g})
         /\ Grown(Weak(E), {g}) = Grown(Weak(E), {f})
<1>1. Weak(E) \in SUBSET (Files \X Files) BY DEF Weak
<1>2. g \in Files BY <1>1, GrownHolds
<1> DEFINE S == Files \ Grown(Weak(E), {g})
<1>3. Closed(Weak(E), S)
  <2> SUFFICES ASSUME NEW e \in Weak(E), e[1] \in S, e[2] \notin S PROVE FALSE BY DEF Closed
  <2>1. e \in Files \X Files /\ e[2] \in Grown(Weak(E), {g}) BY <1>1
  <2>2. <<e[2], e[1]>> \in Weak(E) BY <2>1 DEF Weak
  <2>3. Closed(Weak(E), Grown(Weak(E), {g})) BY <1>1, <1>2, GrownHolds
  <2> QED BY <2>1, <2>2, <2>3 DEF Closed
<1>4. f \in Grown(Weak(E), {g})
  <2> SUFFICES ASSUME f \in S PROVE FALSE OBVIOUS
  <2>1. Grown(Weak(E), {f}) \subseteq S BY <1>3, GrownLeast
  <2>2. g \in Grown(Weak(E), {g}) BY <1>1, <1>2, GrownHolds
  <2> QED BY <2>1, <2>2
<1> QED BY <1>1, <1>2, <1>4, GrownFurther

\* what edges reach is reached both ways
LEMMA WeakHolds ==
  ASSUME NEW E \in SUBSET (Files \X Files), NEW f \in Files
  PROVE  /\ Grown(E, {f}) \subseteq Grown(Weak(E), {f})
         /\ Weak(E) \in SUBSET (Files \X Files) /\ f \in Grown(Weak(E), {f})
         /\ Grown(Weak(E), {f}) \subseteq Files
<1>1. Weak(E) \in SUBSET (Files \X Files) BY DEF Weak
<1>2. Closed(E, Grown(Weak(E), {f})) BY <1>1, GrownHolds DEF Closed, Weak
<1> QED BY <1>1, <1>2, GrownHolds, GrownLeast

\* graphs that differ in nothing but the edges from f
DifferAt(E, F, f) == \A e \in (E \ F) \cup (F \ E) : e[1] = f

\* Two graphs that differ in the edges from f alone are the same to a file that is not
\* connected with f in the second.
LEMMA FarFromChange ==
  ASSUME NEW E \in SUBSET (Files \X Files), NEW F \in SUBSET (Files \X Files),
         NEW f \in Files, NEW g \in Files \ Grown(Weak(F), {f}),
         DifferAt(E, F, f)
  PROVE  /\ Grown(E, {g}) = Grown(F, {g})
         /\ Grown(Weak(F), {g}) \subseteq Grown(Weak(E), {g})
         /\ f \notin Grown(Weak(F), {g})
<1> DEFINE W == Grown(Weak(F), {g})
           V == Grown(Weak(E), {g})
<1>1. f \notin W
  BY WeakBothWays
<1>2. g \in W /\ W \subseteq Files /\ Closed(Weak(F), W) /\ g \in V /\ Closed(Weak(E), V)
  BY WeakHolds, GrownHolds
<1> HIDE DEF W, V
<1>3. ASSUME NEW e \in F PROVE e[1] \in W <=> e[2] \in W
  <2> DEFINE b == <<e[2], e[1]>>
  <2>1. e \in Weak(F) /\ b \in Weak(F) /\ b[1] = e[2] /\ b[2] = e[1] BY DEF Weak
  <2> HIDE DEF b
  <2> QED BY <1>2, <2>1 DEF Closed
<1>4. \A e \in E : e[1] \in W => e \in F /\ e[2] \in W
  BY <1>1, <1>3 DEF DifferAt
<1>5. \A e \in F : e[1] \in W \/ e[2] \in W => e \in E
  BY <1>1, <1>3 DEF DifferAt
<1>6. W \subseteq V
  <2> DEFINE S == W \cap V
  <2>1. Closed(Weak(F), S)
    <3> SUFFICES ASSUME NEW e \in Weak(F), e[1] \in S PROVE e[2] \in S BY DEF Closed
    <3>1. e[2] \in W BY <1>2 DEF Closed
    <3>2. e \in Weak(E)
      <4>1. CASE e \in F BY <4>1, <1>5 DEF Weak
      <4>2. CASE \E d \in F : e = <<d[2], d[1]>>
        <5>1. PICK d \in F : e = <<d[2], d[1]>> BY <4>2
        <5>2. d \in E BY <5>1, <1>5
        <5> QED BY <5>1, <5>2 DEF Weak
      <4> QED BY <4>1, <4>2 DEF Weak
    <3>3. e[2] \in V BY <3>2, <1>2 DEF Closed
    <3> QED BY <3>1, <3>3
  <2>2. g \in S /\ S \in SUBSET Files BY <1>2
  <2> HIDE DEF S
  <2>3. W \subseteq S BY <2>1, <2>2, GrownLeast DEF W
  <2> QED BY <2>3 DEF S
<1>7. Grown(E, {g}) \subseteq W
  BY <1>2, <1>4, GrownLeast DEF Closed
<1>8. Grown(F, {g}) \subseteq W
  BY WeakHolds DEF W
<1>9. Closed(E, Grown(F, {g}))
  BY <1>4, <1>8, GrownHolds DEF Closed
<1>10. Closed(F, Grown(E, {g}))
  BY <1>5, <1>7, GrownHolds DEF Closed
<1>11. Grown(E, {g}) = Grown(F, {g})
  <2>1. g \in Grown(E, {g}) /\ g \in Grown(F, {g}) BY GrownHolds
  <2>2. Grown(E, {g}) \in SUBSET Files /\ Grown(F, {g}) \in SUBSET Files BY GrownHolds
  <2>3. Grown(E, {g}) \subseteq Grown(F, {g}) BY <1>9, <2>1, <2>2, GrownLeast
  <2>4. Grown(F, {g}) \subseteq Grown(E, {g}) BY <1>10, <2>1, <2>2, GrownLeast
  <2> QED BY <2>3, <2>4
<1> QED BY <1>1, <1>6, <1>11 DEF W, V

\* files that reach one another do so in turn
LEMMA MutualJoins ==
  ASSUME NEW E \in SUBSET (Files \X Files), NEW f \in Files, NEW g \in Files, NEW h \in Files
  PROVE  /\ Mutual(E, f, f)
         /\ Mutual(E, f, g) => Mutual(E, g, f)
         /\ Mutual(E, f, g) /\ Mutual(E, g, h) => Mutual(E, f, h)
BY GrownHolds, GrownFurther DEF Mutual

\* a set of files has a first
LEMMA FirstOfSet ==
  ASSUME NEW c \in SUBSET Files, c # {}
  PROVE  \E f \in c : \A g \in c : f <= g
BY MetricsAssumption, FirstOfNumbers

\* two files of the graph have one number exactly when each is reached from the other
LEMMA SccsTell ==
  ASSUME NEW E \in SUBSET (Files \X Files), NEW comp \in SUBSET Files,
         NEW f \in comp, NEW g \in comp
  PROVE  Sccs(E, comp)[f] = Sccs(E, comp)[g] <=> Mutual(E, f, g)
<1> DEFINE C(k) == SameScc(E, comp, k)
           all == {C(k) : k \in comp}
           below(c) == {d \in all : Earlier(d, c)}
<1>1. Sccs(E, comp)[f] = Cardinality(below(C(f))) /\ Sccs(E, comp)[g] = Cardinality(below(C(g)))
  BY DEF Sccs
<1>2. \A k \in comp : C(k) \in SUBSET Files /\ k \in C(k) BY MutualJoins DEF SameScc
<1>3. \A k, l \in comp : Mutual(E, k, l) => C(k) = C(l)
  BY MutualJoins DEF SameScc
<1>4. \A k, l \in comp, h \in Files : h \in C(k) /\ h \in C(l) => Mutual(E, k, l)
  BY MutualJoins DEF SameScc
<1>5. IsFiniteSet(all)
  <2>1. IsFiniteSet(SUBSET Files) BY MetricsAssumption, FS_SUBSET
  <2>2. all \in SUBSET (SUBSET Files) BY <1>2
  <2> HIDE DEF all
  <2> QED BY <2>1, <2>2, FS_Subset
<1>6. \A c \in all : c \in SUBSET Files /\ c # {} BY <1>2
<1>7. \A c, d \in all : Earlier(c, d) \/ Earlier(d, c)
  <2> SUFFICES ASSUME NEW c \in all, NEW d \in all PROVE Earlier(c, d) \/ Earlier(d, c) OBVIOUS
  <2>1. PICK x \in c : \A y \in c : x <= y BY <1>6, FirstOfSet
  <2>2. PICK z \in d : \A y \in d : z <= y BY <1>6, FirstOfSet
  <2>3. c \subseteq Nat /\ d \subseteq Nat BY <1>6, MetricsAssumption
  <2> HIDE DEF all
  <2> QED BY <2>1, <2>2, <2>3 DEF Earlier
<1>8. \A b, c, d \in all : Earlier(b, c) /\ Earlier(c, d) => Earlier(b, d)
  <2> SUFFICES ASSUME NEW b \in all, NEW c \in all, NEW d \in all, Earlier(b, c), Earlier(c, d)
               PROVE  Earlier(b, d)
    OBVIOUS
  <2>1. b \subseteq Nat /\ c \subseteq Nat /\ d \subseteq Nat BY <1>6, MetricsAssumption
  <2> HIDE DEF all
  <2>2. PICK x \in b : \A y \in c : x <= y BY DEF Earlier
  <2>3. PICK z \in c : \A y \in d : z <= y BY DEF Earlier
  <2> QED BY <2>1, <2>2, <2>3 DEF Earlier
<1>9. \A c, d \in all : Earlier(c, d) /\ Earlier(d, c) => \E x \in Files : x \in c /\ x \in d
  <2> SUFFICES ASSUME NEW c \in all, NEW d \in all, Earlier(c, d), Earlier(d, c)
               PROVE  \E x \in Files : x \in c /\ x \in d
    OBVIOUS
  <2>1. c \subseteq Files /\ d \subseteq Files /\ Files \subseteq Nat
    BY <1>6, MetricsAssumption
  <2> HIDE DEF all
  <2>2. PICK x \in c : \A y \in d : x <= y BY DEF Earlier
  <2>3. PICK z \in d : \A y \in c : z <= y BY DEF Earlier
  <2>4. x = z BY <2>1, <2>2, <2>3
  <2> QED BY <2>1, <2>2, <2>3, <2>4
<1>10. \A c, d \in all : Earlier(c, d) /\ Cardinality(below(c)) = Cardinality(below(d))
                           => Earlier(d, c)
  <2> SUFFICES ASSUME NEW c \in all, NEW d \in all, Earlier(c, d),
                      Cardinality(below(c)) = Cardinality(below(d))
               PROVE  Earlier(d, c)
    OBVIOUS
  <2>1. d \in below(d) BY <1>7
  <2> HIDE DEF all
  <2>2. below(c) \subseteq below(d) BY <1>8
  <2>3. IsFiniteSet(below(d)) BY <1>5, FS_Subset
  <2>4. below(c) = below(d)
    <3> HIDE DEF below
    <3> QED BY <2>2, <2>3, FS_Subset
  <2> QED BY <2>1, <2>4
<1>11. C(f) \in all /\ C(g) \in all OBVIOUS
<1>12. ASSUME Cardinality(below(C(f))) = Cardinality(below(C(g))) PROVE Mutual(E, f, g)
  <2> HIDE DEF all, C
  <2>1. Earlier(C(f), C(g)) /\ Earlier(C(g), C(f))
    <3> HIDE DEF below
    <3> QED BY <1>7, <1>10, <1>11, <1>12
  <2>2. PICK x \in Files : x \in C(f) /\ x \in C(g) BY <2>1, <1>9, <1>11
  <2> QED BY <2>2, <1>4
<1>13. ASSUME Mutual(E, f, g) PROVE Cardinality(below(C(f))) = Cardinality(below(C(g)))
  <2> HIDE DEF C
  <2>1. C(f) = C(g) BY <1>3, <1>13
  <2> QED BY <2>1
<1> HIDE DEF below, C
<1> QED BY <1>1, <1>12, <1>13

-----------------------------------------------------------------------------
\* All is known of a project that was scanned as a whole.
LEMMA MetricsInitEstablishes == MetricsInit => MetricsInv
<1> SUFFICES ASSUME MetricsInit PROVE MetricsInv OBVIOUS
<1>1. edges \in SUBSET (Files \X Files) BY MetricsAssumption DEF MetricsInit
<1>2. scc = [f \in Files |-> scc[f]]
  <2> DEFINE ids == Sccs(edges, Files)
  <2>1. ids = [f \in Files |-> ids[f]] BY DEF Sccs
  <2>2. scc = ids BY DEF MetricsInit
  <2> HIDE DEF ids
  <2> QED BY <2>1, <2>2
<1>3. \A u \in Updaters : updater[u] = AtRest BY DEF MetricsInit
<1>4. MetricsShapes
  BY <1>1, <1>2, <1>3 DEF MetricsInit, MetricsShapes, AtRest, UpdateFields, UpdateSteps
<1>5. OneUpdates /\ \A u \in Updaters : UpdateFits(u)
  BY <1>3 DEF OneUpdates, Updating, UpdateFits, AtRest
<1>6. FansKnown(nodes) BY DEF MetricsInit, FansKnown
<1>7. SccKnown(nodes)
  <2> SUFFICES ASSUME NEW f \in nodes, NEW g \in Around({f}) \cap nodes
               PROVE  scc[f] = scc[g] <=> Mutual(edges, f, g)
    BY DEF SccKnown
  <2>1. f \in Files /\ g \in Files BY DEF MetricsInit
  <2> QED BY <1>1, <2>1, SccsTell DEF MetricsInit
<1> QED BY <1>4, <1>5, <1>6, <1>7 DEF MetricsInv

\* A step of the one update, after which no other is under way.
LEMMA UpdateStepKeeps ==
  ASSUME MetricsShapes', NEW u \in Updaters,
         \A v \in Updaters \ {u} : updater'[v] = updater[v],
         ~stale' => \A v \in Updaters \ {u} : ~Updating(v),
         ~stale' => UpdateFits(u)',
         ~stale' /\ updater'[u].at \in {"idle", "over"} => FansKnown(nodes)' /\ SccKnown(nodes)'
  PROVE  MetricsInv'
<1>1. ~stale' => \A v \in Updaters : Updating(v)' => v = u
  BY DEF Updating
<1>2. ~stale' => OneUpdates' BY <1>1 DEF OneUpdates
<1>3. ASSUME ~stale', NEW v \in Updaters PROVE UpdateFits(v)'
  <2>1. CASE v = u BY <1>3, <2>1
  <2>2. CASE v # u
    <3>1. updater'[v].at \in {"idle", "over"} BY <1>1, <1>3, <2>2 DEF Updating
    <3> QED BY <3>1 DEF UpdateFits
  <2> QED BY <2>1, <2>2
<1>4. Settled' => FansKnown(nodes)' /\ SccKnown(nodes)'
  BY DEF Settled, Updating
<1> QED BY <1>2, <1>3, <1>4 DEF MetricsInv

\* What a commit leaves on record for the files it does not touch.
LEMMA CommitKeeps == ASSUME MetricsInv, NEW u \in Updaters, Change(u) PROVE MetricsInv'
<1>p. PICK f \in Files, outs \in SUBSET Files, gone \in BOOLEAN, whole \in BOOLEAN :
       /\ f \notin outs /\ (gone => outs = {})
       /\ LET lost == {e \in edges : e[1] = f \/ (gone /\ e[2] = f)} IN
          /\ nodes' = IF gone THEN nodes \ {f} ELSE nodes \cup {f}
          /\ edges' = (edges \ lost) \cup {<<f, d>> : d \in outs}
          /\ updater' = [updater EXCEPT ![u].at = IF whole THEN "full" ELSE "part",
                                        ![u].paths = {f}, ![u].removed = Ends(lost)]
          /\ fanIn' = IF gone \/ f \notin nodes THEN [fanIn EXCEPT ![f] = 0] ELSE fanIn
          /\ fanOut' = IF gone \/ f \notin nodes THEN [fanOut EXCEPT ![f] = 0] ELSE fanOut
          /\ scc' = IF gone \/ f \notin nodes THEN [scc EXCEPT ![f] = NoScc] ELSE scc
  BY DEF Change
<1> DEFINE lost == {e \in edges : e[1] = f \/ (gone /\ e[2] = f)}
           added == {<<f, d>> : d \in outs}
           q == updater[u]
           step == IF whole THEN "full" ELSE "part"
<1>0. /\ MetricsShapes /\ updater[u].at = "idle"
      /\ stale' = (stale \/ \E o \in Updaters \ {u} : Updating(o))
  BY DEF MetricsInv, Change
<1>1. /\ q = [k \in UpdateFields |-> q[k]] /\ nodes \subseteq Files
      /\ edges \subseteq Files \X Files
  BY <1>0 DEF MetricsShapes
<1>2. /\ updater' = [updater EXCEPT ![u] = [q EXCEPT !.at = step, !.paths = {f},
                                                     !.removed = Ends(lost)]]
      /\ updater = [v \in Updaters |-> updater[v]]
  <2> HIDE DEF lost
  <2> QED BY <1>p, <1>0 DEF MetricsShapes, lost
<1> DEFINE p == [q EXCEPT !.at = step, !.paths = {f}, !.removed = Ends(lost)]
<1>3. /\ p = [k \in UpdateFields |-> p[k]] /\ p.at = step /\ p.paths = {f}
      /\ p.removed = Ends(lost)
  <2> HIDE DEF lost, q, step
  <2> QED BY <1>1 DEF UpdateFields
<1>4. /\ updater' = [v \in Updaters |-> updater'[v]] /\ updater'[u] = p
      /\ \A v \in Updaters \ {u} : updater'[v] = updater[v]
  <2> HIDE DEF p
  <2> QED BY <1>2 DEF p
<1>5. /\ nodes' \subseteq Files /\ edges' \subseteq Files \X Files
      /\ edges' = (edges \ lost) \cup added
  <2>1. added \subseteq Files \X Files OBVIOUS
  <2>2. edges' = (edges \ lost) \cup added BY <1>p
  <2> HIDE DEF added
  <2> QED BY <1>p, <1>1, <2>1, <2>2
<1>6. \A g \in Files \ {f} : /\ g \in nodes' <=> g \in nodes
                             /\ fanIn'[g] = fanIn[g] /\ fanOut'[g] = fanOut[g]
                             /\ scc'[g] = scc[g]
  BY <1>p, <1>0 DEF MetricsShapes
<1>7. MetricsShapes'
  <2>1. /\ fanIn' = [g \in Files |-> fanIn'[g]] /\ fanOut' = [g \in Files |-> fanOut'[g]]
        /\ scc' = [g \in Files |-> scc'[g]]
    BY <1>p, <1>0 DEF MetricsShapes
  <2>2. stale' \in BOOLEAN BY <1>0 DEF MetricsShapes
  <2>3. step \in UpdateSteps BY DEF UpdateSteps
  <2> HIDE DEF p, lost, added, step
  <2>4. \A v \in Updaters : /\ updater'[v] = [k \in UpdateFields |-> updater'[v][k]]
                            /\ updater'[v].at \in UpdateSteps
    BY <1>0, <1>3, <1>4, <2>3 DEF MetricsShapes
  <2> QED BY <1>4, <1>5, <2>1, <2>2, <2>4 DEF MetricsShapes
<1>8. ASSUME ~stale' PROVE UpdateFits(u)'
  <2>1. Settled
    BY <1>0, <1>8 DEF Settled, Updating
  <2>2. FansKnown(nodes) /\ SccKnown(nodes) BY <2>1 DEF MetricsInv
  <2>3. FansKnown(nodes \ Affected(u))'
    <3> SUFFICES ASSUME NEW g \in nodes', g \notin Affected(u)'
                 PROVE  fanIn'[g] = Into(edges', g) /\ fanOut'[g] = OutOf(edges', g)
      BY DEF FansKnown
    <3>1. /\ g # f /\ g \notin Ends(lost)
          /\ \A e \in edges' : e[1] = f \/ e[2] = f => g # e[1] /\ g # e[2]
      <4> HIDE DEF lost, added, p
      <4>1. Affected(u)' = {f} \cup Ends(lost) \cup Ends({e \in edges' : e[1] = f \/ e[2] = f})
        <5>1. updater'[u].paths = {f} /\ updater'[u].removed = Ends(lost) BY <1>3, <1>4
        <5> QED BY <5>1 DEF Affected
      <4> QED BY <4>1 DEF Ends
    <3>2. {e \in edges' : e[2] = g} = {e \in edges : e[2] = g}
      <4>1. \A e \in edges' : e[2] = g => e \in edges BY <1>5, <3>1
      <4>2. \A e \in edges : e[2] = g => e \in edges' BY <1>5, <3>1 DEF Ends
      <4> QED BY <4>1, <4>2
    <3>3. {e \in edges' : e[1] = g} = {e \in edges : e[1] = g}
      <4>1. \A e \in edges' : e[1] = g => e \in edges BY <1>5, <3>1
      <4>2. \A e \in edges : e[1] = g => e \in edges' BY <1>5, <3>1 DEF Ends
      <4> QED BY <4>1, <4>2
    <3>4. Into(edges', g) = Into(edges, g) /\ OutOf(edges', g) = OutOf(edges, g)
      BY <3>2, <3>3 DEF Into, OutOf
    <3>5. g \in nodes /\ g \in Files BY <1>5, <1>6, <3>1
    <3> QED BY <1>6, <2>2, <3>1, <3>4, <3>5 DEF FansKnown
  <2>4. ASSUME f \in nodes' PROVE SccKnown(nodes \ Around({f}))'
    <3> SUFFICES ASSUME NEW g \in nodes', g \notin Grown(Weak(edges'), {f}),
                        NEW h \in Grown(Weak(edges'), {g}), h \in nodes'
                 PROVE  scc'[g] = scc'[h] <=> Mutual(edges', g, h)
      BY DEF SccKnown, Around, Weak
    <3>1. ~gone BY <1>p, <2>4
    <3>2. DifferAt(edges, edges', f) BY <1>5, <3>1 DEF DifferAt
    <3>3. /\ edges \in SUBSET (Files \X Files) /\ edges' \in SUBSET (Files \X Files)
          /\ g \in Files /\ h \in Files
      BY <1>1, <1>5
    <3> HIDE DEF lost, added, p
    <3>4. /\ Grown(edges, {g}) = Grown(edges', {g})
          /\ h \in Grown(Weak(edges), {g}) /\ h # f
      <4>1. /\ Grown(edges, {g}) = Grown(edges', {g})
            /\ Grown(Weak(edges'), {g}) \subseteq Grown(Weak(edges), {g})
            /\ f \notin Grown(Weak(edges'), {g})
        BY <3>2, <3>3, FarFromChange
      <4> QED BY <4>1
    <3>5. h \notin Grown(Weak(edges'), {f})
      <4> SUFFICES ASSUME h \in Grown(Weak(edges'), {f}) PROVE FALSE OBVIOUS
      <4>1. Grown(Weak(edges'), {h}) = Grown(Weak(edges'), {f}) BY <3>3, WeakBothWays
      <4>2. g \in Grown(Weak(edges'), {h}) BY <3>3, WeakBothWays
      <4> QED BY <4>1, <4>2
    <3>6. Grown(edges, {h}) = Grown(edges', {h})
      BY <3>2, <3>3, <3>5, FarFromChange
    <3>7. Mutual(edges, g, h) <=> Mutual(edges', g, h) BY <3>4, <3>6 DEF Mutual
    <3>8. g # f BY <3>3, WeakHolds
    <3>9. g \in nodes /\ h \in nodes BY <1>6, <3>3, <3>4, <3>8
    <3>10. h \in Around({g}) BY <3>4 DEF Around, Weak
    <3> QED BY <1>6, <2>2, <3>3, <3>4, <3>7, <3>8, <3>9, <3>10 DEF SccKnown
  <2>5. updater'[u].at = step /\ updater'[u].paths = {f}
    <3> HIDE DEF p, step
    <3> QED BY <1>3, <1>4
  <2>6. updater'[u].at \in {"part", "full"} BY <2>5
  <2> HIDE DEF p, q, step, lost, added
  <2> QED BY <2>3, <2>4, <2>5, <2>6 DEF UpdateFits
<1>9. updater'[u].at \notin {"idle", "over"}
  <2> HIDE DEF p
  <2> QED BY <1>3, <1>4
<1>10. ~stale' => \A v \in Updaters \ {u} : ~Updating(v) BY <1>0
<1> HIDE DEF p
<1> QED BY <1>4, <1>7, <1>8, <1>9, <1>10, UpdateStepKeeps

\* The shapes after a step that leaves the graph as it is and moves one update on.
LEMMA ShapesKept ==
  ASSUME MetricsShapes, NEW u \in Updaters, NEW q, updater' = [updater EXCEPT ![u] = q],
         q = [k \in UpdateFields |-> q[k]], q.at \in UpdateSteps,
         UNCHANGED <<nodes, edges>>, stale' \in BOOLEAN,
         fanIn' = [f \in Files |-> fanIn'[f]], fanOut' = [f \in Files |-> fanOut'[f]],
         scc' = [f \in Files |-> scc'[f]]
  PROVE  /\ MetricsShapes' /\ updater'[u] = q
         /\ \A v \in Updaters \ {u} : updater'[v] = updater[v]
<1>1. updater' = [v \in Updaters |-> IF v = u THEN q ELSE updater[v]] BY DEF MetricsShapes
<1> QED BY <1>1 DEF MetricsShapes

LEMMA RestShape ==
  LET q == [AtRest EXCEPT !.at = "over"] IN
  q = [k \in UpdateFields |-> q[k]] /\ q.at = "over" /\ "over" \in UpdateSteps
BY DEF AtRest, UpdateFields, UpdateSteps

\* An update that reads the part it is about takes what may have changed.
LEMMA PartReadsKeeps == ASSUME MetricsInv, NEW u \in Updaters, PartReads(u) PROVE MetricsInv'
<1> DEFINE own == updater[u]
           next == IF NeedsWhole(u) THEN [own EXCEPT !.at = "full"]
                   ELSE [own EXCEPT !.at = "part_write", !.read = Affected(u),
                                    !.comp = Around(own.paths), !.edges = edges]
<1>0. /\ MetricsShapes /\ own.at = "part" /\ UNCHANGED <<nodes, edges, fanIn, fanOut, scc, stale>>
      /\ own = [k \in UpdateFields |-> own[k]]
  BY DEF MetricsInv, PartReads, MetricsShapes
<1>1. updater' = [updater EXCEPT ![u] = next]
  BY <1>0 DEF PartReads, MetricsShapes
<1>2. /\ next = [k \in UpdateFields |-> next[k]]
      /\ NeedsWhole(u) => next.at = "full"
      /\ ~NeedsWhole(u) => /\ next.at = "part_write" /\ next.read = Affected(u)
                           /\ next.comp = Around(own.paths) /\ next.edges = edges
  <2> HIDE DEF own
  <2>1. CASE NeedsWhole(u) BY <1>0, <2>1 DEF UpdateFields
  <2>2. CASE ~NeedsWhole(u) BY <1>0, <2>2 DEF UpdateFields
  <2> QED BY <2>1, <2>2
<1> HIDE DEF next
<1>3. next.at \in {"full", "part_write"} /\ next.at \in UpdateSteps BY <1>2 DEF UpdateSteps
<1>4. /\ MetricsShapes' /\ updater'[u] = next
      /\ \A v \in Updaters \ {u} : updater'[v] = updater[v]
  BY <1>0, <1>1, <1>2, <1>3, ShapesKept DEF MetricsShapes
<1>5. ~stale' => \A v \in Updaters \ {u} : ~Updating(v)
  BY <1>0 DEF MetricsInv, OneUpdates, Updating
<1>6. ASSUME ~stale' PROVE UpdateFits(u)'
  <2>1. UpdateFits(u) BY <1>0, <1>6 DEF MetricsInv
  <2>2. CASE NeedsWhole(u) BY <1>2, <1>4, <2>2 DEF UpdateFits
  <2>3. CASE ~NeedsWhole(u)
    <3>1. PICK f \in Files : /\ own.paths = {f} /\ FansKnown(nodes \ Affected(u))
                             /\ (f \in nodes => SccKnown(nodes \ Around({f})))
      BY <1>0, <2>1 DEF UpdateFits
    <3>2. f \in nodes BY <2>3, <3>1 DEF NeedsWhole
    <3>3. /\ updater'[u].at = "part_write" /\ updater'[u].read = Affected(u)
          /\ updater'[u].comp = Around({f}) /\ updater'[u].edges = edges
      BY <1>2, <1>4, <2>3, <3>1
    <3>4. Around({f})' = Around({f}) BY <1>0 DEF Around
    <3>5. /\ \A g \in nodes \ Affected(u) : fanIn'[g] = Into(edges', g) /\ fanOut'[g] = OutOf(edges', g)
          /\ \A g \in nodes \ Around({f}) : \A h \in Around({g})' \cap nodes' :
               scc'[g] = scc'[h] <=> Mutual(edges', g, h)
      BY <1>0, <3>1, <3>2 DEF FansKnown, SccKnown, Around
    <3> QED BY <1>0, <3>3, <3>4, <3>5 DEF UpdateFits, FansKnown, SccKnown
  <2> QED BY <2>2, <2>3
<1> HIDE DEF own
<1> QED BY <1>3, <1>4, <1>5, <1>6, UpdateStepKeeps

\* And leaves nothing of the graph unknown when it writes.
LEMMA PartWritesKeeps == ASSUME MetricsInv, NEW u \in Updaters, PartWrites(u) PROVE MetricsInv'
<1> DEFINE q == updater[u]
           rest == [AtRest EXCEPT !.at = "over"]
           ids == Sccs(q.edges, q.comp)
<1>0. /\ MetricsShapes /\ q.at = "part_write" /\ UNCHANGED <<nodes, edges, stale>>
      /\ updater' = [updater EXCEPT ![u] = rest]
  BY DEF MetricsInv, PartWrites
<1>1. /\ fanIn' = [f \in Files |-> IF f \in q.read \cap nodes THEN Into(q.edges, f) ELSE fanIn[f]]
      /\ fanOut' = [f \in Files |-> IF f \in q.read \cap nodes THEN OutOf(q.edges, f) ELSE fanOut[f]]
      /\ scc' = [f \in Files |-> IF f \in q.comp \cap nodes THEN ids[f] ELSE scc[f]]
  BY DEF PartWrites
<1> HIDE DEF ids
<1>2. /\ fanIn' = [f \in Files |-> fanIn'[f]] /\ fanOut' = [f \in Files |-> fanOut'[f]]
      /\ scc' = [f \in Files |-> scc'[f]]
  BY <1>1
<1>3. rest = [k \in UpdateFields |-> rest[k]] /\ rest.at = "over" /\ rest.at \in UpdateSteps
  BY RestShape
<1> HIDE DEF rest
<1>4. /\ MetricsShapes' /\ updater'[u] = rest
      /\ \A v \in Updaters \ {u} : updater'[v] = updater[v]
  BY <1>0, <1>2, <1>3, ShapesKept DEF MetricsShapes
<1>5. ~stale' => \A v \in Updaters \ {u} : ~Updating(v)
  BY <1>0 DEF MetricsInv, OneUpdates, Updating
<1>6. UpdateFits(u)' BY <1>3, <1>4 DEF UpdateFits
<1>7. ASSUME ~stale' PROVE FansKnown(nodes)' /\ SccKnown(nodes)'
  <2>1. PICK f \in Files : /\ q.comp = Around({f}) /\ q.edges = edges
                           /\ FansKnown(nodes \ q.read) /\ SccKnown(nodes \ q.comp)
    BY <1>0, <1>7 DEF MetricsInv, UpdateFits
  <2>2. FansKnown(nodes)' BY <1>0, <1>1, <2>1 DEF FansKnown, MetricsShapes
  <2>3. SccKnown(nodes)'
    <3> SUFFICES ASSUME NEW g \in nodes, NEW h \in Around({g}) \cap nodes
                 PROVE  scc'[g] = scc'[h] <=> Mutual(edges, g, h)
      BY <1>0 DEF SccKnown, Around
    <3>1. edges \in SUBSET (Files \X Files) /\ g \in Files /\ h \in Files
      BY <1>0 DEF MetricsShapes
    <3>2. h \in Grown(Weak(edges), {g}) /\ q.comp = Grown(Weak(edges), {f})
      BY <2>1 DEF Around, Weak
    <3>3. q.comp \in SUBSET Files
      <4>1. Grown(Weak(edges), {f}) \subseteq Files BY <3>1, WeakHolds
      <4> QED BY <3>2, <4>1
    <3>4. g \in q.comp <=> h \in q.comp
      <4>1. g \in Grown(Weak(edges), {h}) BY <3>1, <3>2, WeakBothWays
      <4>2. ASSUME NEW x \in Files, NEW y \in Files, x \in q.comp, y \in Grown(Weak(edges), {x})
            PROVE  y \in q.comp
        <5>1. x \in Grown(Weak(edges), {f}) BY <3>2, <4>2
        <5>2. Grown(Weak(edges), {x}) = Grown(Weak(edges), {f}) BY <3>1, <5>1, WeakBothWays
        <5> QED BY <3>2, <4>2, <5>2
      <4> QED BY <3>1, <3>2, <4>1, <4>2
    <3>5. CASE g \in q.comp
      <4>1. scc'[g] = ids[g] /\ scc'[h] = ids[h] BY <1>1, <3>1, <3>4, <3>5
      <4>2. ids[g] = ids[h] <=> Mutual(edges, g, h)
        <5> HIDE DEF q
        <5> QED BY <2>1, <3>1, <3>3, <3>4, <3>5, SccsTell DEF ids
      <4> QED BY <4>1, <4>2
    <3>6. CASE g \notin q.comp
      <4>1. scc'[g] = scc[g] /\ scc'[h] = scc[h] BY <1>1, <3>1, <3>4, <3>6
      <4> QED BY <2>1, <3>6, <4>1 DEF SccKnown
    <3> QED BY <3>5, <3>6
  <2> QED BY <2>2, <2>3
<1> HIDE DEF q
<1> QED BY <1>4, <1>5, <1>6, <1>7, UpdateStepKeeps

\* A whole computation reads the graph as it is.
LEMMA FullReadsKeeps == ASSUME MetricsInv, NEW u \in Updaters, FullReads(u) PROVE MetricsInv'
<1> DEFINE own == updater[u]
           next == [own EXCEPT !.at = "full_write", !.read = nodes, !.edges = edges,
                               !.comp = nodes \cup Ends(edges)]
<1>0. /\ MetricsShapes /\ own = [k \in UpdateFields |-> own[k]]
      /\ UNCHANGED <<nodes, edges, fanIn, fanOut, scc>>
      /\ stale' = \E o \in Updaters \ {u} : Updating(o)
  BY DEF MetricsInv, FullReads, MetricsShapes
<1>1. updater' = [updater EXCEPT ![u] = next]
  BY <1>0 DEF FullReads, MetricsShapes
<1>2. /\ next = [k \in UpdateFields |-> next[k]]
      /\ next.at = "full_write" /\ next.read = nodes /\ next.edges = edges
      /\ next.comp = nodes \cup Ends(edges)
  <2> HIDE DEF own
  <2> QED BY <1>0 DEF UpdateFields
<1> HIDE DEF next
<1>3. /\ MetricsShapes' /\ updater'[u] = next
      /\ \A v \in Updaters \ {u} : updater'[v] = updater[v]
  <2>1. "full_write" \in UpdateSteps /\ stale' \in BOOLEAN BY <1>0 DEF UpdateSteps
  <2> QED BY <1>0, <1>1, <1>2, <2>1, ShapesKept DEF MetricsShapes
<1>4. ~stale' => \A v \in Updaters \ {u} : ~Updating(v) BY <1>0
<1>5. UpdateFits(u)' BY <1>0, <1>2, <1>3 DEF UpdateFits
<1>6. updater'[u].at \notin {"idle", "over"} BY <1>2, <1>3
<1> HIDE DEF own
<1> QED BY <1>3, <1>4, <1>5, <1>6, UpdateStepKeeps

\* And writes it whole.
LEMMA FullWritesKeeps == ASSUME MetricsInv, NEW u \in Updaters, FullWrites(u) PROVE MetricsInv'
<1> DEFINE q == updater[u]
           rest == [AtRest EXCEPT !.at = "over"]
           ids == Sccs(q.edges, q.comp)
<1>0. /\ MetricsShapes /\ q.at = "full_write" /\ UNCHANGED <<nodes, edges, stale>>
      /\ updater' = [updater EXCEPT ![u] = rest]
  BY DEF MetricsInv, FullWrites
<1>1. /\ fanIn' = [f \in Files |-> IF f \in q.read \cap nodes THEN Into(q.edges, f) ELSE fanIn[f]]
      /\ fanOut' = [f \in Files |-> IF f \in q.read \cap nodes THEN OutOf(q.edges, f) ELSE fanOut[f]]
      /\ scc' = [f \in Files |-> IF f \in q.read \cap nodes THEN ids[f] ELSE scc[f]]
  BY DEF FullWrites
<1> HIDE DEF ids
<1>2. /\ fanIn' = [f \in Files |-> fanIn'[f]] /\ fanOut' = [f \in Files |-> fanOut'[f]]
      /\ scc' = [f \in Files |-> scc'[f]]
  BY <1>1
<1>3. rest = [k \in UpdateFields |-> rest[k]] /\ rest.at = "over" /\ rest.at \in UpdateSteps
  BY RestShape
<1> HIDE DEF rest
<1>4. /\ MetricsShapes' /\ updater'[u] = rest
      /\ \A v \in Updaters \ {u} : updater'[v] = updater[v]
  BY <1>0, <1>2, <1>3, ShapesKept DEF MetricsShapes
<1>5. ~stale' => \A v \in Updaters \ {u} : ~Updating(v)
  BY <1>0 DEF MetricsInv, OneUpdates, Updating
<1>6. UpdateFits(u)' BY <1>3, <1>4 DEF UpdateFits
<1>7. ASSUME ~stale' PROVE FansKnown(nodes)' /\ SccKnown(nodes)'
  <2>1. q.edges = edges /\ q.read = nodes /\ q.comp = nodes \cup Ends(edges)
    BY <1>0, <1>7 DEF MetricsInv, UpdateFits
  <2>2. FansKnown(nodes)' BY <1>0, <1>1, <2>1 DEF FansKnown, MetricsShapes
  <2>3. SccKnown(nodes)'
    <3> SUFFICES ASSUME NEW g \in nodes, NEW h \in nodes
                 PROVE  scc'[g] = scc'[h] <=> Mutual(edges, g, h)
      BY <1>0 DEF SccKnown
    <3>1. edges \in SUBSET (Files \X Files) /\ g \in Files /\ h \in Files
      BY <1>0 DEF MetricsShapes
    <3>2. q.comp \in SUBSET Files BY <1>0, <2>1, <3>1 DEF MetricsShapes, Ends
    <3>3. scc'[g] = ids[g] /\ scc'[h] = ids[h] BY <1>1, <2>1, <3>1
    <3>4. ids[g] = ids[h] <=> Mutual(edges, g, h)
      <4>1. g \in q.comp /\ h \in q.comp BY <2>1
      <4>2. ids = Sccs(edges, q.comp) BY <2>1 DEF ids
      <4> HIDE DEF q
      <4> QED BY <3>1, <3>2, <4>1, <4>2, SccsTell
    <3> QED BY <3>3, <3>4
  <2> QED BY <2>2, <2>3
<1> HIDE DEF q
<1> QED BY <1>4, <1>5, <1>6, <1>7, UpdateStepKeeps

\* An update that is lost says so.
LEMMA LostKeeps == ASSUME MetricsInv, NEW u \in Updaters, Lost(u) PROVE MetricsInv'
<1> DEFINE rest == [AtRest EXCEPT !.at = "over"]
<1>1. /\ MetricsShapes /\ stale' = TRUE /\ UNCHANGED <<nodes, edges, fanIn, fanOut, scc>>
      /\ updater' = [updater EXCEPT ![u] = rest]
  BY DEF MetricsInv, Lost
<1>2. rest = [k \in UpdateFields |-> rest[k]] /\ rest.at = "over" /\ rest.at \in UpdateSteps
  BY RestShape
<1> HIDE DEF rest
<1>3. MetricsShapes' BY <1>1, <1>2, ShapesKept DEF MetricsShapes
<1> QED BY <1>1, <1>3 DEF MetricsInv, Settled

LEMMA MetricsStepKeeps == MetricsInv /\ [MetricsNext]_graphVars => MetricsInv'
<1> SUFFICES ASSUME MetricsInv, [MetricsNext]_graphVars PROVE MetricsInv' OBVIOUS
<1>1. CASE UNCHANGED graphVars
  <2>1. MetricsShapes' <=> MetricsShapes BY <1>1 DEF graphVars, MetricsShapes
  <2>2. OneUpdates' <=> OneUpdates BY <1>1 DEF graphVars, OneUpdates, Updating
  <2>3. \A S : /\ (FansKnown(S)' <=> FansKnown(S)) /\ (SccKnown(S)' <=> SccKnown(S))
              /\ Around(S)' = Around(S)
    BY <1>1 DEF graphVars, FansKnown, SccKnown, Around
  <2>4. \A u \in Updaters : UpdateFits(u)' <=> UpdateFits(u)
    BY <1>1 DEF graphVars, UpdateFits, FansKnown, SccKnown, Around, Affected
  <2>5. Settled' <=> Settled BY <1>1 DEF graphVars, Settled, Updating
  <2> QED BY <1>1, <2>1, <2>2, <2>3, <2>4, <2>5 DEF graphVars, MetricsInv, FansKnown, SccKnown,
                                                     Around
<1>2. CASE MetricsNext
  BY <1>1, <1>2, CommitKeeps, PartReadsKeeps, PartWritesKeeps, FullReadsKeeps, FullWritesKeeps,
     LostKeeps DEF MetricsNext, MetricsOver
<1> QED BY <1>1, <1>2

\* For any files, graphs and updates, when no update is under way and none has crossed another
\* or was lost since all was computed alone, the fans of a file are those its edges give it,
\* and two connected files have one component exactly when each is reached from the other
\* (graph.py:231, 294-315, 404-437).
THEOREM MetricsAlwaysExplained == MetricsSpec => []MetricsExplained
<1>1. MetricsInit => MetricsInv BY MetricsInitEstablishes
<1>2. MetricsInv /\ [MetricsNext]_graphVars => MetricsInv' BY MetricsStepKeeps
<1>3. MetricsInv => MetricsExplained
  BY DEF MetricsInv, MetricsExplained, FansExplained, SccExplained, FansKnown, SccKnown
<1> QED BY <1>1, <1>2, <1>3, PTL DEF MetricsSpec

\* the components are no more than the files, and so are the numbers
LEMMA NumbersFit ==
  ASSUME NEW E, NEW comp \in SUBSET Files
  PROVE  Sccs(E, comp) \in [Files -> 0..Cardinality(Files)]
<1> DEFINE components == {SameScc(E, comp, f) : f \in comp}
           first(f) == {c \in components : Earlier(c, SameScc(E, comp, f))}
           scOf == [f \in comp |-> SameScc(E, comp, f)]
<1>1. IsFiniteSet(Files) BY MetricsAssumption
<1>2. IsFiniteSet(comp) /\ Cardinality(comp) <= Cardinality(Files) BY <1>1, FS_Subset
<1>3. scOf \in Surjection(comp, components)
  BY DEF Surjection
<1>4. IsFiniteSet(components) /\ Cardinality(components) <= Cardinality(comp)
  <2> HIDE DEF components, scOf
  <2> QED BY <1>2, <1>3, FS_Surjection
<1>5. ASSUME NEW f \in Files PROVE Cardinality(first(f)) \in 0..Cardinality(Files)
  <2>1. first(f) \subseteq components OBVIOUS
  <2> HIDE DEF first, components
  <2>2. IsFiniteSet(first(f)) /\ Cardinality(first(f)) <= Cardinality(components)
    BY <2>1, <1>4, FS_Subset
  <2>3. /\ Cardinality(first(f)) \in Nat /\ Cardinality(components) \in Nat
        /\ Cardinality(comp) \in Nat /\ Cardinality(Files) \in Nat
    BY <1>1, <1>2, <1>4, <2>2, FS_CardinalityType
  <2> QED BY <1>2, <1>4, <2>2, <2>3
<1>6. Sccs(E, comp) = [f \in Files |-> IF f \notin comp THEN NoScc ELSE Cardinality(first(f))]
  BY DEF Sccs
<1>7. NoScc \in 0..Cardinality(Files) BY <1>1, FS_CardinalityType DEF NoScc
<1> HIDE DEF first, components
<1> QED BY <1>5, <1>6, <1>7

MetricsSizes ==
  /\ scc \in [Files -> 0..Cardinality(Files)]
  /\ \A u \in Updaters : updater[u].comp \subseteq Files

LEMMA SizesKeep ==
  ASSUME MetricsShapes, MetricsSizes, [MetricsNext]_graphVars
  PROVE  MetricsSizes'
<1>0. NoScc \in 0..Cardinality(Files)
  BY FS_CardinalityType, MetricsAssumption DEF NoScc
<1>1. CASE UNCHANGED graphVars BY <1>1 DEF graphVars, MetricsSizes
<1>2. ASSUME NEW u \in Updaters, Change(u) PROVE MetricsSizes'
  <2>1. \/ scc' = scc
        \/ \E f \in Files : scc' = [scc EXCEPT ![f] = NoScc]
    BY <1>2 DEF Change
  <2>2. scc' \in [Files -> 0..Cardinality(Files)] BY <2>1, <1>0 DEF MetricsSizes
  <2>3. \A v \in Updaters : updater'[v].comp = updater[v].comp
    BY <1>2 DEF Change, MetricsShapes, UpdateFields
  <2> QED BY <2>2, <2>3 DEF MetricsSizes
<1>3. ASSUME NEW u \in Updaters, PartReads(u) PROVE MetricsSizes'
  <2>1. Around(updater[u].paths) \subseteq Files BY DEF Around, Grown
  <2>2. updater[u] = [k \in UpdateFields |-> updater[u][k]] BY DEF MetricsShapes
  <2>3. \A v \in Updaters : \/ updater'[v].comp = updater[v].comp
                            \/ updater'[v].comp = Around(updater[u].paths)
    BY <1>3, <2>2 DEF PartReads, MetricsShapes, UpdateFields
  <2> QED BY <1>3, <2>1, <2>3 DEF MetricsSizes, PartReads
<1>4. ASSUME NEW u \in Updaters, FullReads(u) PROVE MetricsSizes'
  <2>1. nodes \cup Ends(edges) \subseteq Files BY DEF Ends, MetricsShapes
  <2>2. updater[u] = [k \in UpdateFields |-> updater[u][k]] BY DEF MetricsShapes
  <2>3. \A v \in Updaters : \/ updater'[v].comp = updater[v].comp
                            \/ updater'[v].comp = nodes \cup Ends(edges)
    BY <1>4, <2>2 DEF FullReads, MetricsShapes, UpdateFields
  <2> QED BY <1>4, <2>1, <2>3 DEF MetricsSizes, FullReads
<1>5. ASSUME NEW u \in Updaters, PartWrites(u) \/ FullWrites(u) \/ Lost(u) PROVE MetricsSizes'
  <2>1. \A v \in Updaters : updater'[v].comp \in {updater[v].comp, {}}
    BY <1>5 DEF PartWrites, FullWrites, Lost, AtRest, MetricsShapes
  <2>2. \/ scc' = scc
        \/ \E S : scc' = [f \in Files |->
                            IF f \in S THEN Sccs(updater[u].edges, updater[u].comp)[f] ELSE scc[f]]
    BY <1>5 DEF PartWrites, FullWrites, Lost
  <2>3. Sccs(updater[u].edges, updater[u].comp) \in [Files -> 0..Cardinality(Files)]
    BY NumbersFit DEF MetricsSizes
  <2>4. scc' \in [Files -> 0..Cardinality(Files)] BY <2>2, <2>3 DEF MetricsSizes
  <2> QED BY <2>1, <2>4 DEF MetricsSizes
<1> QED BY <1>1, <1>2, <1>3, <1>4, <1>5 DEF MetricsNext, MetricsOver

MetricsWhole == MetricsInv /\ MetricsSizes
LEMMA MetricsWholeHolds ==
  /\ MetricsInit => MetricsWhole
  /\ MetricsWhole /\ [MetricsNext]_graphVars => MetricsWhole'
  /\ MetricsWhole => MetricsTypeOK
<1>1. MetricsInit => MetricsSizes
  <2> SUFFICES ASSUME MetricsInit PROVE MetricsSizes OBVIOUS
  <2>1. Files \in SUBSET Files OBVIOUS
  <2>2. scc = Sccs(edges, Files) BY DEF MetricsInit
  <2>3. scc \in [Files -> 0..Cardinality(Files)] BY <2>1, <2>2, NumbersFit
  <2> QED BY <2>3 DEF MetricsInit, MetricsSizes, AtRest
<1>2. MetricsInv => MetricsShapes BY DEF MetricsInv
<1> QED BY <1>1, <1>2, SizesKeep, MetricsInitEstablishes, MetricsStepKeeps
        DEF MetricsWhole, MetricsTypeOK, MetricsSizes, MetricsShapes

\* The numbers of the components are no more than there are files (graph.py:404).
THEOREM MetricsTypeCorrect == MetricsSpec => []MetricsTypeOK
BY MetricsWholeHolds, PTL DEF MetricsSpec

-----------------------------------------------------------------------------
(* Resolve.                                                                *)

\* What a new process sees is the configuration and the replacements as they are,
\* and so does one that would read what it asks for as it has read it.
NewSees(known, keys) == \A k \in keys \cap DOMAIN known : known[k] = ReadFor(k)

LEMMA SeenAlike ==
  ASSUME NEW known, NEW keys, NewSees(known, keys), NEW k \in keys
  PROVE  Seen(known, k) = Seen(<<>>, k)
<1>1. DOMAIN <<>> = {} OBVIOUS
<1> QED BY <1>1 DEF Seen, NewSees

\* The answer of an import depends on nothing but what it asks for.
LEMMA AskedDecides ==
  ASSUME NEW known, NEW imp, NewSees(known, Asked(known, imp)),
         imp.spec.kind \notin {"js", "py"}
  PROVE  ResolveSpec(known, imp) = ResolveSpec(<<>>, imp)
<1> DEFINE dir == Front(imp.importer)
           asked == Asked(known, imp)
           spec == imp.spec
<1>1. \A k \in asked : Seen(known, k) = Seen(<<>>, k) BY SeenAlike
<1>2. CASE Php(dir, spec) # NoFile BY <1>2 DEF ResolveSpec, Or
<1>3. CASE Php(dir, spec) = NoFile
  <2>1. TsConfig(known, imp.importer, spec) = TsConfig(<<>>, imp.importer, spec)
    <3>1. CASE Suffix(imp.importer) \notin ToSet(JsExts) BY <3>1 DEF TsConfig
    <3>2. CASE Suffix(imp.importer) \in ToSet(JsExts)
      <4>1. <<"ts", dir>> \in asked BY <1>3, <3>2 DEF Asked
      <4>2. TsInfo(known, dir) = TsInfo(<<>>, dir) BY <1>1, <4>1 DEF TsInfo
      <4> QED BY <4>2 DEF TsConfig
    <3> QED BY <3>1, <3>2
  <2>2. CASE TsConfig(known, imp.importer, spec) # NoFile
    BY <2>1, <2>2 DEF ResolveSpec, Or
  <2>3. CASE TsConfig(known, imp.importer, spec) = NoFile
    <3>1. <<"packages">> \in asked BY <1>3, <2>3 DEF Asked
    <3>2. Packages(known) = Packages(<<>>) BY <1>1, <3>1 DEF Packages
    <3>3. LocalPackage(known, spec) = LocalPackage(<<>>, spec) BY <3>2 DEF LocalPackage
    <3>4. CASE LocalPackage(known, spec) # NoFile BY <2>1, <3>3, <3>4 DEF ResolveSpec, Or
    <3>5. CASE LocalPackage(known, spec) = NoFile
      <4> DEFINE works == GoWorkDir(known, dir)
                 near == GoModule(known, dir)
                 uses == UNION {GoUses(known, w) : w \in works}
      <4>0. Or(TsConfig(known, imp.importer, spec), LocalPackage(known, spec)) = NoFile
        BY <2>3, <3>5 DEF Or
      <4>1. /\ <<"gomod", dir>> \in asked /\ <<"gowork", dir>> \in asked
            /\ \A w \in works : <<"work", w>> \in asked
            /\ \A m \in near \cup uses : <<"replaces", m.dir>> \in asked
        BY <1>3, <4>0 DEF Asked
      <4>2. near = GoModule(<<>>, dir) BY <1>1, <4>1 DEF GoModule
      <4>3. works = GoWorkDir(<<>>, dir) BY <1>1, <4>1 DEF GoWorkDir
      <4>4. ASSUME NEW w \in works
            PROVE  /\ GoUses(known, w) = GoUses(<<>>, w)
                   /\ GoWorkReplaces(known, w) = GoWorkReplaces(<<>>, w)
        BY <1>1, <4>1 DEF GoUses, GoWorkReplaces
      <4>5. ASSUME NEW m \in near \cup uses, NEW rank
            PROVE  Replaces(known, m.dir, rank) = Replaces(<<>>, m.dir, rank)
        BY <1>1, <4>1 DEF Replaces
      <4>6. uses = UNION {GoUses(<<>>, w) : w \in works} BY <4>4
      <4> DEFINE far == GoModule(<<>>, dir)
      <4>7. /\ {Replaces(known, m.dir, 0) : m \in near} = {Replaces(<<>>, m.dir, 0) : m \in near}
            /\ {Replaces(known, m.dir, 2) : m \in uses} = {Replaces(<<>>, m.dir, 2) : m \in uses}
            /\ {GoWorkReplaces(known, w) : w \in works} = {GoWorkReplaces(<<>>, w) : w \in works}
        <5> HIDE DEF works, near, uses
        <5> QED BY <4>4, <4>5
      <4>8. GoPackage(known, dir, spec) = GoPackage(<<>>, dir, spec)
        BY <4>2, <4>3, <4>6, <4>7 DEF GoPackage
      <4> QED BY <2>1, <3>3, <4>8 DEF ResolveSpec
    <3> QED BY <3>4, <3>5
  <2> QED BY <2>2, <2>3
<1> QED BY <1>2, <1>3

\* The first of the paths that is there, if one is.
LEMMA FirstIsThere ==
  ASSUME NEW paths, DOMAIN paths \subseteq Nat, NEW named, named = ToSet(paths)
  PROVE  /\ named \cap files = {} => FirstOf(paths) = NoFile
         /\ named \cap files # {} => FirstOf(paths) \in named \cap files
<1> DEFINE there == {i \in DOMAIN paths : paths[i] \in files}
<1>1. CASE there = {} BY <1>1 DEF FirstOf, ToSet
<1>2. CASE there # {}
  <2>1. \E i \in there : \A k \in there : i <= k BY <1>2, FirstOfNumbers
  <2> DEFINE i == CHOOSE i \in there : \A k \in there : i <= k
  <2>2. i \in there BY <2>1
  <2>3. FirstOf(paths) = paths[i] BY <1>2 DEF FirstOf
  <2> HIDE DEF i
  <2> QED BY <2>2, <2>3 DEF ToSet
<1> QED BY <1>1, <1>2

LEMMA ConcatNames ==
  ASSUME NEW T, NEW a \in Seq(T), NEW b \in Seq(T)
  PROVE  DOMAIN (a \o b) \subseteq Nat /\ ToSet(a \o b) = ToSet(a) \cup ToSet(b)
<1> DEFINE c == a \o b
<1>1. /\ DOMAIN c = 1..(Len(a) + Len(b))
      /\ DOMAIN a = 1..Len(a) /\ DOMAIN b = 1..Len(b) /\ Len(a) \in Nat /\ Len(b) \in Nat
  OBVIOUS
<1>2. \A i \in 1..Len(a) : i \in DOMAIN c /\ c[i] = a[i] BY <1>1
<1>3. \A i \in 1..Len(b) : Len(a) + i \in DOMAIN c /\ c[Len(a) + i] = b[i] BY <1>1
<1>4. \A i \in DOMAIN c :
        \/ i \in 1..Len(a) /\ c[i] = a[i]
        \/ i - Len(a) \in 1..Len(b) /\ c[i] = b[i - Len(a)]
  BY <1>1
<1> HIDE DEF c
<1>5. ToSet(a) \cup ToSet(b) \subseteq ToSet(c) BY <1>1, <1>2, <1>3 DEF ToSet
<1>6. ToSet(c) \subseteq ToSet(a) \cup ToSet(b) BY <1>1, <1>4 DEF ToSet
<1>7. DOMAIN c \subseteq Nat BY <1>1
<1>8. ToSet(c) = ToSet(a) \cup ToSet(b) BY <1>5, <1>6
<1> QED BY <1>7, <1>8 DEF c

LEMMA ListOf ==
  ASSUME NEW U, NEW s \in Seq(U), NEW T, NEW f, f = [i \in DOMAIN s |-> f[i]],
         \A i \in DOMAIN s : f[i] \in T
  PROVE  f \in Seq(T) /\ DOMAIN f = DOMAIN s
<1>1. DOMAIN s = 1..Len(s) /\ Len(s) \in Nat OBVIOUS
<1>2. f \in [1..Len(s) -> T] BY <1>1
<1> QED BY <1>1, <1>2

\* A name without a dot is tried with every suffix appended, within it too.
LEMMA PlainIsAppended ==
  ASSUME NEW base \in Path, Plain(base), NEW T, NEW exts \in Seq(T), <<>> \notin ToSet(exts)
  PROVE  /\ Appended(base, exts) \cap files = {} => TryFiles(base, exts) = NoFile
         /\ Appended(base, exts) \cap files # {} =>
              TryFiles(base, exts) \in Appended(base, exts) \cap files
<1> DEFINE first == IF base = <<>> THEN <<>> ELSE [i \in DOMAIN exts |-> WithSuffix(base, exts[i])]
           within == [i \in DOMAIN exts |-> Append(base, <<"index">> \o exts[i])]
           firsts == {Append(Front(base), Last(base) \o exts[i]) :
                        i \in IF base = <<>> THEN {} ELSE DOMAIN exts}
           withins == {Append(base, <<"index">> \o exts[i]) : i \in DOMAIN exts}
<1>1. Suffix(base) = <<>>
  <2>1. base # <<>> => Last(base) \in Seq(STRING) BY DEF Last, Path
  <2>3. \A x \in Seq(STRING) : Len(x) = 1 => Len(x) < 2 OBVIOUS
  <2>2. base = <<>> \/ Len(Last(base)) < 2 BY <2>1, <2>3 DEF Plain
  <2> QED BY <2>2 DEF Suffix
<1>2. TryFiles(base, exts) = FirstOf(<<>> \o first \o within) BY <1>1 DEF TryFiles
<1>3. base # <<>> => \A i \in DOMAIN exts :
        WithSuffix(base, exts[i]) = Append(Front(base), Last(base) \o exts[i])
  BY <1>1 DEF WithSuffix
<1>4. DOMAIN exts = 1..Len(exts) /\ Len(exts) \in Nat OBVIOUS
<1>5. first \in Seq(firsts \cup withins) /\ firsts = ToSet(first)
  <2>1. CASE base = <<>> BY <2>1 DEF ToSet
  <2>2. CASE base # <<>>
    <3>1. /\ first = [i \in DOMAIN exts |-> first[i]]
          /\ \A i \in DOMAIN exts : first[i] = Append(Front(base), Last(base) \o exts[i])
          /\ firsts = {Append(Front(base), Last(base) \o exts[i]) : i \in DOMAIN exts}
      BY <1>3, <2>2
    <3> HIDE DEF first, firsts, withins
    <3>2. \A i \in DOMAIN exts : first[i] \in firsts \cup withins BY <3>1
    <3>3. first \in Seq(firsts \cup withins) /\ DOMAIN first = DOMAIN exts BY <3>1, <3>2, ListOf
    <3> QED BY <3>1, <3>3 DEF ToSet
  <2> QED BY <2>1, <2>2
<1>6. within \in Seq(firsts \cup withins) /\ withins = ToSet(within)
  <2>1. /\ within = [i \in DOMAIN exts |-> within[i]]
        /\ \A i \in DOMAIN exts : within[i] = Append(base, <<"index">> \o exts[i])
    OBVIOUS
  <2> HIDE DEF within
  <2>2. /\ \A i \in DOMAIN exts : within[i] \in withins
        /\ withins = {within[i] : i \in DOMAIN exts}
    BY <2>1
  <2> HIDE DEF firsts, withins
  <2>3. within \in Seq(firsts \cup withins) /\ DOMAIN within = DOMAIN exts BY <2>1, <2>2, ListOf
  <2> QED BY <2>2, <2>3 DEF ToSet
<1>7. <<>> \o first = first BY <1>5
<1> HIDE DEF first, within
<1> DEFINE paths == first \o within
<1>8. DOMAIN paths \subseteq Nat /\ ToSet(paths) = firsts \cup withins
  <2> DEFINE U == firsts \cup withins
  <2>1. first \in Seq(U) /\ within \in Seq(U) BY <1>5, <1>6
  <2> HIDE DEF firsts, withins, U
  <2> QED BY <2>1, <1>5, <1>6, ConcatNames
<1>9. Appended(base, exts) = firsts \cup withins BY DEF Appended
<1> HIDE DEF firsts, withins
<1>10. /\ DOMAIN paths \subseteq Nat /\ TryFiles(base, exts) = FirstOf(paths)
       /\ Appended(base, exts) = ToSet(paths)
  BY <1>2, <1>7, <1>8, <1>9
<1> HIDE DEF paths
<1> QED BY <1>10, FirstIsThere

LEMMA MoreIsAppended ==
  ASSUME NEW base, NEW exts, NEW more, ToSet(exts) \subseteq ToSet(more)
  PROVE  Appended(base, exts) \subseteq Appended(base, more)
<1>1. \A i \in DOMAIN exts : \E k \in DOMAIN more : exts[i] = more[k] BY DEF ToSet
<1> QED BY <1>1 DEF Appended

LEMMA ExtsAreNames ==
  \E T : /\ JsExts \o PyExts \in Seq(T) /\ PyExts \in Seq(T)
         /\ <<>> \notin ToSet(JsExts \o PyExts) /\ <<>> \notin ToSet(PyExts)
         /\ ToSet(PyExts) \subseteq ToSet(JsExts \o PyExts)
<1> DEFINE T == {<<"ts">>, <<"js">>, <<"py">>, <<"pyi">>}
<1>1. JsExts \in Seq(T) /\ PyExts \in Seq(T)
  <2>1. ASSUME NEW S, NEW x \in S, NEW y \in S PROVE <<x, y>> \in Seq(S) OBVIOUS
  <2> QED BY <2>1, Zenon DEF JsExts, PyExts
<1>2. ToSet(JsExts) = {<<"ts">>, <<"js">>} /\ ToSet(PyExts) = {<<"py">>, <<"pyi">>}
  BY DEF JsExts, PyExts, ToSet
<1>3. ToSet(JsExts \o PyExts) = ToSet(JsExts) \cup ToSet(PyExts)
  <2> HIDE DEF T
  <2> QED BY <1>1, ConcatNames
<1>4. <<"ts">> # <<>> /\ <<"js">> # <<>> /\ <<"py">> # <<>> /\ <<"pyi">> # <<>> OBVIOUS
<1> QED BY <1>1, <1>2, <1>3, <1>4

\* The base of a relative import, where it does not climb above the root.
LEMMA BaseIsAPath ==
  ASSUME NEW imp \in Imports, NEW dir, dir = Front(imp.importer), imp.spec.up <= Len(dir)
  PROVE  Up(dir, imp.spec.up) \o imp.spec.path \in Path
<1>1. imp.importer \in Path \ {<<>>} /\ imp.spec.path \in Path /\ imp.spec.up \in Nat
  BY ImportsAssumption
<1>2. \A p \in Seq(Seq(STRING)) : \A n \in 0..Len(p) : SubSeq(p, 1, n) \in Seq(Seq(STRING)) OBVIOUS
<1>3. dir \in Seq(Seq(STRING)) BY <1>1, <1>2 DEF Front, Path
<1>4. Len(dir) - imp.spec.up \in 0..Len(dir) BY <1>1, <1>3
<1>5. Up(dir, imp.spec.up) \in Seq(Seq(STRING)) BY <1>2, <1>3, <1>4 DEF Up
<1> QED BY <1>1, <1>5 DEF Path

\* What a relative import is answered with.
Names(imp) ==
  LET base == Up(Front(imp.importer), imp.spec.up) \o imp.spec.path
  IN {base} \cup Appended(base, JsExts \o PyExts)
       \cup (IF imp.spec.kind = "py" THEN ToSet(InitFiles(base)) ELSE {})
NamedOrNone(imp, path, tree) ==
  imp.spec.kind \in {"js", "py"} /\ imp.spec.up <= Len(Front(imp.importer))
    /\ Plain(Up(Front(imp.importer), imp.spec.up) \o imp.spec.path) =>
    /\ path # NoFile => path \in Names(imp) \cap tree
    /\ imp.spec.kind = "js" /\ Names(imp) \cap tree # {} => path # NoFile

LEMMA RelativeIsNamed ==
  ASSUME NEW imp \in Imports, NoFile \notin files, NEW known
  PROVE  NamedOrNone(imp, ResolveSpec(known, imp), files)
<1> DEFINE dir == Front(imp.importer)
           base == Up(dir, imp.spec.up) \o imp.spec.path
<1> SUFFICES ASSUME imp.spec.kind \in {"js", "py"}, imp.spec.up <= Len(dir), Plain(base)
             PROVE  LET path == ResolveSpec(known, imp) IN
                    /\ path # NoFile => path \in Names(imp) \cap files
                    /\ imp.spec.kind = "js" /\ Names(imp) \cap files # {} => path # NoFile
  BY DEF NamedOrNone
<1>1. base \in Path BY BaseIsAPath
<1>2. Bases(dir, imp.spec) = {base} BY DEF Bases
<1>3. CASE imp.spec.kind = "js"
  <2> DEFINE all == Appended(base, JsExts \o PyExts)
  <2>1. ResolveSpec(known, imp) =
          IF base \in files THEN base ELSE TryFiles(base, JsExts \o PyExts)
    <3> DEFINE only == CHOOSE b \in Bases(dir, imp.spec) : TRUE
    <3>1. only = base /\ Bases(dir, imp.spec) # {} BY <1>2
    <3>2. JsRelative(dir, imp.spec) = IF only \in files THEN only ELSE TryFiles(only, JsExts \o PyExts)
      BY <3>1 DEF JsRelative
    <3> HIDE DEF only, base
    <3> QED BY <1>3, <3>1, <3>2 DEF ResolveSpec
  <2>2. Names(imp) = {base} \cup all BY <1>3 DEF Names
  <2>3. /\ all \cap files = {} => TryFiles(base, JsExts \o PyExts) = NoFile
        /\ all \cap files # {} => TryFiles(base, JsExts \o PyExts) \in all \cap files
    <3> HIDE DEF base
    <3> QED BY <1>1, ExtsAreNames, PlainIsAppended
  <2> HIDE DEF base, all
  <2> QED BY <2>1, <2>2, <2>3
<1>4. CASE imp.spec.kind = "py"
  <2> DEFINE some == Appended(base, PyExts)
  <2>1. ResolveSpec(known, imp) = Or(TryFiles(base, PyExts), FirstOf(InitFiles(base)))
    <3> DEFINE only == CHOOSE b \in Bases(dir, imp.spec) : TRUE
    <3>1. only = base /\ Bases(dir, imp.spec) # {} BY <1>2
    <3>2. PyRelative(dir, imp.spec) = Or(TryFiles(only, PyExts), FirstOf(InitFiles(only)))
      BY <3>1 DEF PyRelative
    <3> HIDE DEF only, base
    <3> QED BY <1>4, <3>1, <3>2 DEF ResolveSpec
  <2>2. Names(imp) = {base} \cup Appended(base, JsExts \o PyExts) \cup ToSet(InitFiles(base))
    BY <1>4 DEF Names
  <2> HIDE DEF base
  <2>3. some \subseteq Appended(base, JsExts \o PyExts) BY ExtsAreNames, MoreIsAppended
  <2>4. /\ some \cap files = {} => TryFiles(base, PyExts) = NoFile
        /\ some \cap files # {} => TryFiles(base, PyExts) \in some \cap files
    BY <1>1, ExtsAreNames, PlainIsAppended
  <2>5. DOMAIN InitFiles(base) \subseteq Nat BY DEF InitFiles
  <2>6. /\ ToSet(InitFiles(base)) \cap files = {} => FirstOf(InitFiles(base)) = NoFile
        /\ ToSet(InitFiles(base)) \cap files # {} =>
             FirstOf(InitFiles(base)) \in ToSet(InitFiles(base)) \cap files
    BY <2>5, FirstIsThere
  <2> HIDE DEF some
  <2> QED BY <1>4, <2>1, <2>2, <2>3, <2>4, <2>6 DEF Or
<1> QED BY <1>3, <1>4

-----------------------------------------------------------------------------
\* The answer is one to an import that was asked for, from the files that are there.
ImportsInv ==
  /\ files \in Trees /\ answer.import \subseteq Imports
  /\ \A imp \in answer.import : NamedOrNone(imp, answer.path, files)
  /\ StaleAnswerExplained

LEMMA ImportsInvExplains == ImportsInv => ImportsExplained
BY DEF ImportsInv, ImportsExplained, ResolvesAsNamed, NamedOrNone, Names

LEMMA LookupKeeps == ASSUME ImportsInv, Lookup PROVE ImportsInv'
<1>1. PICK imp \in Imports :
        answer' = [import |-> {imp}, path |-> ResolveSpec(kept, imp),
                   fresh |-> ResolveSpec(<<>>, imp),
                   old |-> \E k \in Asked(kept, imp) \cap DOMAIN kept : kept[k] # ReadFor(k)]
  BY DEF Lookup
<1>2. UNCHANGED <<files, conf>> BY DEF Lookup
<1>3. NoFile \notin files BY ImportsAssumption DEF ImportsInv
<1>4. answer'.import = {imp} /\ answer'.path = ResolveSpec(kept, imp)
  BY <1>1
<1>5. NamedOrNone(imp, ResolveSpec(kept, imp), files) BY <1>3, RelativeIsNamed
<1>6. \A i \in answer'.import : NamedOrNone(i, answer'.path, files') BY <1>2, <1>4, <1>5
<1>7. StaleAnswerExplained'
  <2>1. CASE imp.spec.kind \in {"js", "py"}
    <3>1. ResolveSpec(kept, imp) = ResolveSpec(<<>>, imp) BY <2>1 DEF ResolveSpec
    <3> QED BY <1>1, <3>1 DEF StaleAnswerExplained
  <2>2. CASE imp.spec.kind \notin {"js", "py"} /\ NewSees(kept, Asked(kept, imp))
    <3>1. ResolveSpec(kept, imp) = ResolveSpec(<<>>, imp) BY <2>2, AskedDecides
    <3> QED BY <1>1, <3>1 DEF StaleAnswerExplained
  <2>3. CASE imp.spec.kind \notin {"js", "py"} /\ ~NewSees(kept, Asked(kept, imp))
    <3>1. answer'.old BY <1>1, <2>3 DEF NewSees
    <3> QED BY <1>4, <2>3, <3>1 DEF StaleAnswerExplained
  <2> QED BY <2>1, <2>2, <2>3
<1> QED BY <1>2, <1>4, <1>6, <1>7 DEF ImportsInv

LEMMA NoLookupHolds ==
  ASSUME answer' = NoLookup, files' \in Trees PROVE ImportsInv'
BY DEF ImportsInv, NoLookup, StaleAnswerExplained

\* Every answer is the file that is named, or the reason is known, whatever the
\* files, the configurations and the imports (resolve.py:27, 191).
THEOREM ImportsAlwaysExplained == ImportsSpec => []ImportsExplained
<1>1. ImportsInit => ImportsInv
  BY DEF ImportsInit, ImportsInv, NoLookup, StaleAnswerExplained
<1>2. ImportsInv /\ [ImportsNext]_resolveVars => ImportsInv'
  <2> SUFFICES ASSUME ImportsInv, [ImportsNext]_resolveVars PROVE ImportsInv' OBVIOUS
  <2>1. CASE Lookup BY <2>1, LookupKeeps
  <2>2. CASE Edit BY <2>2, NoLookupHolds DEF Edit, ImportsInv
  <2>3. CASE NewProcess BY <2>3, NoLookupHolds DEF NewProcess, ImportsInv
  <2>4. CASE UNCHANGED resolveVars
    BY <2>4 DEF resolveVars, ImportsInv, NamedOrNone, Names, StaleAnswerExplained
  <2> QED BY <2>1, <2>2, <2>3, <2>4 DEF ImportsNext
<1> QED BY <1>1, <1>2, ImportsInvExplains, PTL DEF ImportsSpec

-----------------------------------------------------------------------------
(* ApiMatching.  What a pattern stands for, from one of its tokens on.      *)
Cuts(w, p, j, cut) ==
  /\ cut \in [j - 1 .. Len(p) -> 0..Len(w)] /\ cut[j - 1] = 0 /\ cut[Len(p)] = Len(w)
  /\ \A k, n \in j - 1 .. Len(p) : k <= n => cut[k] <= cut[n]
  /\ \A k \in j..Len(p) :
       p[k] # Many => cut[k] = cut[k - 1] + 1 /\ p[k] \in {One, w[cut[k]]}
FitsFrom(w, p, j) == \E cut : Cuts(w, p, j, cut)

LEMMA FitsAll ==
  ASSUME NEW T, NEW p \in Seq(T), NEW w \in Seq(Segments)
  PROVE  Fits(w, p) <=> FitsFrom(w, p, 1)
<1>1. Len(p) \in Nat /\ Len(w) \in Nat /\ DOMAIN p = 1..Len(p) OBVIOUS
<1>2. ASSUME Fits(w, p) PROVE FitsFrom(w, p, 1)
  <2>1. PICK cut \in [DOMAIN p -> 0..Len(w)] :
          LET upto(k) == IF k = 0 THEN 0 ELSE cut[k] IN
          /\ upto(Len(p)) = Len(w)
          /\ \A k, n \in DOMAIN p : k <= n => cut[k] <= cut[n]
          /\ \A k \in DOMAIN p :
               p[k] # Many => cut[k] = upto(k - 1) + 1 /\ p[k] \in {One, w[cut[k]]}
    BY <1>2 DEF Fits
  <2> DEFINE all == [k \in 0..Len(p) |-> IF k = 0 THEN 0 ELSE cut[k]]
  <2>2. \A k \in 1..Len(p) : all[k] = cut[k] /\ cut[k] \in 0..Len(w) BY <1>1, <2>1
  <2>3. all \in [0..Len(p) -> 0..Len(w)] /\ all[0] = 0 BY <1>1, <2>1
  <2>4. all[Len(p)] = Len(w) BY <1>1, <2>1
  <2>5. \A k, n \in 0..Len(p) : k <= n => all[k] <= all[n]
    <3> SUFFICES ASSUME NEW k \in 0..Len(p), NEW n \in 0..Len(p), k <= n PROVE all[k] <= all[n]
      OBVIOUS
    <3>1. all[n] \in 0..Len(w) BY <2>3
    <3>2. CASE k = 0 BY <3>1, <3>2, <2>3
    <3>3. CASE k # 0 BY <3>3, <2>1, <2>2, <1>1
    <3> QED BY <3>2, <3>3
  <2>6. \A k \in 1..Len(p) :
          p[k] # Many => all[k] = all[k - 1] + 1 /\ p[k] \in {One, w[all[k]]}
    BY <1>1, <2>1, <2>2
  <2> HIDE DEF all
  <2>7. Cuts(w, p, 1, all) BY <1>1, <2>3, <2>4, <2>5, <2>6 DEF Cuts
  <2> QED BY <2>7 DEF FitsFrom
<1>3. ASSUME FitsFrom(w, p, 1) PROVE Fits(w, p)
  <2>1. PICK cut : Cuts(w, p, 1, cut) BY <1>3 DEF FitsFrom
  <2> DEFINE some == [k \in DOMAIN p |-> cut[k]]
             upto(k) == IF k = 0 THEN 0 ELSE some[k]
  <2>2. cut \in [0..Len(p) -> 0..Len(w)] /\ cut[0] = 0 /\ cut[Len(p)] = Len(w)
    BY <1>1, <2>1 DEF Cuts
  <2>3. \A k \in 0..Len(p) : upto(k) = cut[k] BY <1>1, <2>2
  <2>4. some \in [DOMAIN p -> 0..Len(w)] /\ \A k \in DOMAIN p : some[k] = cut[k] BY <1>1, <2>2
  <2>5. upto(Len(p)) = Len(w) BY <1>1, <2>2, <2>3
  <2>6. \A k, n \in DOMAIN p : k <= n => some[k] <= some[n]
    <3>1. \A k, n \in 0..Len(p) : k <= n => cut[k] <= cut[n] BY <2>1 DEF Cuts
    <3> QED BY <1>1, <2>4, <3>1
  <2>7. \A k \in DOMAIN p :
          p[k] # Many => some[k] = upto(k - 1) + 1 /\ p[k] \in {One, w[some[k]]}
    <3>1. \A k \in 1..Len(p) :
            p[k] # Many => cut[k] = cut[k - 1] + 1 /\ p[k] \in {One, w[cut[k]]}
      BY <2>1 DEF Cuts
    <3>2. \A k \in 1..Len(p) : k - 1 \in 0..Len(p) OBVIOUS
    <3> HIDE DEF some, upto
    <3> QED BY <1>1, <2>3, <2>4, <3>1, <3>2
  <2> QED BY <2>4, <2>5, <2>6, <2>7 DEF Fits
<1> QED BY <1>2, <1>3

\* The rules by which a path fits, token by token.
LEMMA EmptyFits ==
  ASSUME NEW T, NEW p \in Seq(T), NEW j \in 1..Len(p) + 1
  PROVE  FitsFrom(<<>>, p, j) <=> \A n \in j..Len(p) : p[n] = Many
<1>1. Len(p) \in Nat /\ j \in Nat /\ Len(<<>>) = 0 OBVIOUS
<1>2. ASSUME FitsFrom(<<>>, p, j), NEW n \in j..Len(p), p[n] # Many PROVE FALSE
  <2>1. PICK cut : Cuts(<<>>, p, j, cut) BY <1>2 DEF FitsFrom
  <2>2. \A k \in j - 1 .. Len(p) : cut[k] = 0 BY <1>1, <2>1 DEF Cuts
  <2>3. cut[n] = cut[n - 1] + 1 BY <1>2, <2>1 DEF Cuts
  <2>4. n - 1 \in j - 1 .. Len(p) /\ n \in j - 1 .. Len(p) BY <1>1
  <2> QED BY <2>2, <2>3, <2>4
<1>3. ASSUME \A n \in j..Len(p) : p[n] = Many PROVE FitsFrom(<<>>, p, j)
  <2> DEFINE cut == [k \in j - 1 .. Len(p) |-> 0]
  <2>1. j - 1 \in j - 1 .. Len(p) /\ Len(p) \in j - 1 .. Len(p) BY <1>1
  <2>2. cut \in [j - 1 .. Len(p) -> 0..Len(<<>>)] BY <1>1
  <2>3. Cuts(<<>>, p, j, cut) BY <1>1, <1>3, <2>1, <2>2 DEF Cuts
  <2> QED BY <2>3 DEF FitsFrom
<1> QED BY <1>2, <1>3

LEMMA EndFits ==
  ASSUME NEW T, NEW p \in Seq(T), NEW w \in Seq(Segments), FitsFrom(w, p, Len(p) + 1)
  PROVE  w = <<>>
<1>1. PICK cut : Cuts(w, p, Len(p) + 1, cut) BY DEF FitsFrom
<1>2. Len(w) = 0 BY <1>1 DEF Cuts
<1> QED BY <1>2

LEMMA SkipFits ==
  ASSUME NEW T, NEW p \in Seq(T), NEW w \in Seq(Segments), NEW j \in 1..Len(p), p[j] = Many,
         FitsFrom(w, p, j + 1)
  PROVE  FitsFrom(w, p, j)
<1>1. Len(p) \in Nat /\ Len(w) \in Nat /\ j \in Nat OBVIOUS
<1>2. PICK cut : Cuts(w, p, j + 1, cut) BY DEF FitsFrom
<1>3. /\ cut \in [j .. Len(p) -> 0..Len(w)] /\ cut[j] = 0 /\ cut[Len(p)] = Len(w)
      /\ \A k, n \in j .. Len(p) : k <= n => cut[k] <= cut[n]
      /\ \A k \in j + 1 .. Len(p) :
           p[k] # Many => cut[k] = cut[k - 1] + 1 /\ p[k] \in {One, w[cut[k]]}
  BY <1>1, <1>2 DEF Cuts
<1> DEFINE all == [k \in j - 1 .. Len(p) |-> IF k = j - 1 THEN 0 ELSE cut[k]]
<1>4. all \in [j - 1 .. Len(p) -> 0..Len(w)] /\ all[j - 1] = 0 /\ all[Len(p)] = Len(w)
  BY <1>1, <1>3
<1>5. \A k \in j..Len(p) : all[k] = cut[k] /\ cut[k] \in 0..Len(w) BY <1>1, <1>3
<1>6. \A k, n \in j - 1 .. Len(p) : k <= n => all[k] <= all[n]
  <2> SUFFICES ASSUME NEW k \in j - 1 .. Len(p), NEW n \in j - 1 .. Len(p), k <= n
               PROVE  all[k] <= all[n]
    OBVIOUS
  <2>1. all[n] \in 0..Len(w) BY <1>4
  <2>2. CASE k = j - 1 BY <2>1, <2>2, <1>4
  <2>3. CASE k # j - 1 BY <2>3, <1>3, <1>5, <1>1
  <2> QED BY <2>2, <2>3
<1>7. \A k \in j..Len(p) : p[k] # Many => all[k] = all[k - 1] + 1 /\ p[k] \in {One, w[all[k]]}
  <2> SUFFICES ASSUME NEW k \in j..Len(p), p[k] # Many
               PROVE  all[k] = all[k - 1] + 1 /\ p[k] \in {One, w[all[k]]}
    OBVIOUS
  <2>1. k \in j + 1 .. Len(p) /\ k - 1 \in j..Len(p) BY <1>1
  <2> HIDE DEF all
  <2> QED BY <2>1, <1>3, <1>5
<1> HIDE DEF all
<1>8. Cuts(w, p, j, all) BY <1>4, <1>6, <1>7 DEF Cuts
<1> QED BY <1>8 DEF FitsFrom

\* One segment more, at the front, for a token that takes it.
LEMMA FrontFits ==
  ASSUME NEW T, NEW p \in Seq(T), NEW v \in Seq(Segments), NEW w \in Seq(Segments),
         NEW j \in 1..Len(p), Len(w) = Len(v) + 1, \A k \in 1..Len(v) : w[k + 1] = v[k],
         \/ p[j] = Many /\ FitsFrom(v, p, j)
         \/ p[j] # Many /\ p[j] \in {One, w[1]} /\ FitsFrom(v, p, j + 1)
  PROVE  FitsFrom(w, p, j)
<1> DEFINE i == IF p[j] = Many THEN j ELSE j + 1
<1>1. Len(p) \in Nat /\ Len(w) \in Nat /\ Len(v) \in Nat /\ j \in Nat /\ i \in {j, j + 1} OBVIOUS
<1>2. PICK cut : Cuts(v, p, i, cut) BY DEF FitsFrom
<1>3. /\ cut \in [i - 1 .. Len(p) -> 0..Len(v)] /\ cut[i - 1] = 0 /\ cut[Len(p)] = Len(v)
      /\ \A k, n \in i - 1 .. Len(p) : k <= n => cut[k] <= cut[n]
      /\ \A k \in i..Len(p) :
           p[k] # Many => cut[k] = cut[k - 1] + 1 /\ p[k] \in {One, v[cut[k]]}
  BY <1>2 DEF Cuts
<1> DEFINE all == [k \in j - 1 .. Len(p) |-> IF k = j - 1 THEN 0 ELSE cut[k] + 1]
<1>4. \A k \in j..Len(p) : k \in i - 1 .. Len(p) /\ all[k] = cut[k] + 1 /\ cut[k] \in 0..Len(v)
  BY <1>1, <1>3
<1>5. all \in [j - 1 .. Len(p) -> 0..Len(w)] /\ all[j - 1] = 0
  <2>1. ASSUME NEW k \in j - 1 .. Len(p) PROVE (IF k = j - 1 THEN 0 ELSE cut[k] + 1) \in 0..Len(w)
    <3>1. CASE k = j - 1 BY <1>1, <3>1
    <3>2. CASE k # j - 1
      <4>1. k \in j..Len(p)
        <5> HIDE DEF i
        <5> QED BY <1>1, <3>2
      <4>2. cut[k] \in 0..Len(v) BY <1>4, <4>1
      <4> QED BY <1>1, <3>2, <4>2
    <3> QED BY <3>1, <3>2
  <2>2. j - 1 \in j - 1 .. Len(p) BY <1>1
  <2> QED BY <2>1, <2>2
<1>6. all[Len(p)] = Len(w) BY <1>1, <1>3, <1>4
<1> HIDE DEF all
<1>7. \A k, n \in j - 1 .. Len(p) : k <= n => all[k] <= all[n]
  <2> SUFFICES ASSUME NEW k \in j - 1 .. Len(p), NEW n \in j - 1 .. Len(p), k <= n
               PROVE  all[k] <= all[n]
    OBVIOUS
  <2>1. all[n] \in 0..Len(w) BY <1>5
  <2>2. CASE k = j - 1 BY <2>1, <2>2, <1>5
  <2>3. CASE k # j - 1
    <3> HIDE DEF i
    <3>1. k \in j..Len(p) /\ n \in j..Len(p) BY <2>3, <1>1
    <3> QED BY <3>1, <1>3, <1>4
  <2> QED BY <2>2, <2>3
<1>8. ASSUME NEW k \in j..Len(p), p[k] # Many
      PROVE  all[k] = all[k - 1] + 1 /\ p[k] \in {One, w[all[k]]}
  <2>1. CASE k = j
    <3>1. p[j] # Many /\ i = j + 1 BY <1>8, <2>1
    <3>2. all[j] = 1 BY <1>1, <1>3, <1>4, <3>1
    <3> QED BY <1>1, <1>5, <2>1, <3>1, <3>2
  <2>2. CASE k # j
    <3>1. k \in i..Len(p) /\ k - 1 \in j..Len(p) /\ k - 1 \in i - 1 .. Len(p) BY <1>1, <2>2
    <3>2. cut[k] = cut[k - 1] + 1 /\ p[k] \in {One, v[cut[k]]} BY <1>3, <1>8, <3>1
    <3>3. cut[k] \in 1..Len(v) /\ all[k] = cut[k] + 1 /\ all[k - 1] = cut[k - 1] + 1
      <4> HIDE DEF i
      <4>1. cut[k] \in 0..Len(v) /\ cut[k - 1] \in 0..Len(v) BY <1>4, <3>1
      <4>2. cut[k] \in 1..Len(v) BY <1>1, <3>2, <4>1
      <4>3. all[k] = cut[k] + 1 /\ all[k - 1] = cut[k - 1] + 1 BY <1>4, <3>1
      <4> QED BY <4>2, <4>3
    <3>4. w[all[k]] = v[cut[k]] BY <3>3
    <3> QED BY <3>2, <3>3, <3>4
  <2> QED BY <2>1, <2>2
<1>9. Cuts(w, p, j, all) BY <1>5, <1>6, <1>7, <1>8 DEF Cuts
<1> QED BY <1>9 DEF FitsFrom

\* A token takes no segment, or the first.
LEMMA FitsStep ==
  ASSUME NEW T, NEW p \in Seq(T), NEW w \in Seq(Segments), NEW j \in 1..Len(p), FitsFrom(w, p, j),
         NEW v \in Seq(Segments), Len(w) > 0 => Len(w) = Len(v) + 1,
         \A k \in 1..Len(v) : w[k + 1] = v[k]
  PROVE  \/ p[j] = Many /\ FitsFrom(w, p, j + 1)
         \/ p[j] = Many /\ Len(w) > 0 /\ FitsFrom(v, p, j)
         \/ p[j] # Many /\ Len(w) > 0 /\ p[j] \in {One, w[1]} /\ FitsFrom(v, p, j + 1)
<1>1. Len(p) \in Nat /\ Len(w) \in Nat /\ Len(v) \in Nat /\ j \in Nat OBVIOUS
<1>2. PICK cut : Cuts(w, p, j, cut) BY DEF FitsFrom
<1>3. /\ cut \in [j - 1 .. Len(p) -> 0..Len(w)] /\ cut[j - 1] = 0 /\ cut[Len(p)] = Len(w)
      /\ \A k, n \in j - 1 .. Len(p) : k <= n => cut[k] <= cut[n]
      /\ \A k \in j..Len(p) :
           p[k] # Many => cut[k] = cut[k - 1] + 1 /\ p[k] \in {One, w[cut[k]]}
  BY <1>2 DEF Cuts
<1>4. CASE cut[j] = 0
  <2>1. p[j] = Many BY <1>1, <1>3, <1>4
  <2> DEFINE rest == [k \in j..Len(p) |-> cut[k]]
  <2>2. \A k \in j..Len(p) : k \in j - 1 .. Len(p) /\ rest[k] = cut[k] BY <1>1
  <2>3. rest \in [j..Len(p) -> 0..Len(w)] /\ rest[j] = 0 /\ rest[Len(p)] = Len(w)
    BY <1>1, <1>3, <1>4, <2>2
  <2> HIDE DEF rest
  <2>4. \A k, n \in j..Len(p) : k <= n => rest[k] <= rest[n] BY <1>3, <2>2
  <2>5. \A k \in j + 1 .. Len(p) :
          p[k] # Many => rest[k] = rest[k - 1] + 1 /\ p[k] \in {One, w[rest[k]]}
    <3>1. \A k \in j + 1 .. Len(p) : k \in j..Len(p) /\ k - 1 \in j..Len(p) BY <1>1
    <3> QED BY <1>3, <2>2, <3>1
  <2>6. (j + 1) - 1 = j BY <1>1
  <2>7. Cuts(w, p, j + 1, rest) BY <2>3, <2>4, <2>5, <2>6 DEF Cuts
  <2> QED BY <2>1, <2>7 DEF FitsFrom
<1>5. CASE cut[j] # 0
  <2> DEFINE i == IF p[j] = Many THEN j ELSE j + 1
             rest == [k \in i - 1 .. Len(p) |-> IF k = j - 1 THEN 0 ELSE cut[k] - 1]
  <2>0. i \in {j, j + 1} OBVIOUS
  <2>1. ASSUME NEW k \in j..Len(p) PROVE cut[k] \in 1..Len(w)
    <3>1. j \in j - 1 .. Len(p) /\ k \in j - 1 .. Len(p) /\ j <= k BY <1>1
    <3>2. cut[j] \in 0..Len(w) /\ cut[k] \in 0..Len(w) BY ONLY <1>3, <3>1
    <3>3. cut[j] <= cut[k] BY ONLY <1>3, <3>1
    <3> QED BY ONLY <1>1, <1>5, <3>2, <3>3
  <2>2. Len(w) > 0 /\ Len(w) = Len(v) + 1
    <3>1. cut[j] \in 1..Len(w) BY <1>1, <2>1
    <3> QED BY <1>1, <3>1
  <2>3. \A k \in j..Len(p) : k \in i - 1 .. Len(p) /\ rest[k] = cut[k] - 1 BY <1>1, <2>0
  <2>4. rest \in [i - 1 .. Len(p) -> 0..Len(v)]
    <3> SUFFICES ASSUME NEW k \in i - 1 .. Len(p)
                 PROVE  (IF k = j - 1 THEN 0 ELSE cut[k] - 1) \in 0..Len(v)
      OBVIOUS
    <3>1. CASE k = j - 1 BY <1>1, <3>1
    <3>2. CASE k # j - 1
      <4>1. k \in j..Len(p) BY <1>1, <2>0, <3>2
      <4> QED BY <1>1, <2>1, <2>2, <3>2, <4>1
    <3> QED BY <3>1, <3>2
  <2>5. p[j] # Many => cut[j] = 1 /\ p[j] \in {One, w[1]} BY <1>1, <1>3
  <2>6. rest[i - 1] = 0
    <3>1. CASE p[j] = Many BY <1>1, <3>1
    <3>2. CASE p[j] # Many BY <1>1, <2>3, <2>5, <3>2
    <3> QED BY <3>1, <3>2
  <2>7. rest[Len(p)] = Len(v) BY <1>1, <1>3, <2>2, <2>3
  <2> HIDE DEF rest
  <2>8. ASSUME NEW k \in i - 1 .. Len(p), NEW n \in i - 1 .. Len(p), k <= n
        PROVE  rest[k] <= rest[n]
    <3>1. rest[n] \in 0..Len(v) BY <2>4
    <3>2. CASE k = i - 1 BY <1>1, <2>6, <3>1, <3>2
    <3>3. CASE k # i - 1
      <4>1. /\ k \in j..Len(p) /\ n \in j..Len(p) /\ k \in j - 1 .. Len(p)
            /\ n \in j - 1 .. Len(p)
        BY <1>1, <2>0, <2>8, <3>3
      <4>2. cut[k] <= cut[n] BY <1>3, <2>8, <4>1
      <4>3. cut[k] \in 1..Len(w) /\ cut[n] \in 1..Len(w) BY <2>1, <4>1
      <4>4. rest[k] = cut[k] - 1 /\ rest[n] = cut[n] - 1 BY <2>3, <4>1
      <4> HIDE DEF i
      <4> QED BY <4>2, <4>3, <4>4
    <3> QED BY <3>2, <3>3
  <2>9. ASSUME NEW k \in i..Len(p), p[k] # Many
        PROVE  rest[k] = rest[k - 1] + 1 /\ p[k] \in {One, v[rest[k]]}
    <3>1. k # j BY <1>1, <2>9
    <3>2. k \in j..Len(p) /\ k - 1 \in j..Len(p) BY <1>1, <2>0, <3>1
    <3>3. cut[k] = cut[k - 1] + 1 /\ p[k] \in {One, w[cut[k]]} BY <1>3, <2>9, <3>2
    <3>4. /\ cut[k] \in 1..Len(w) /\ cut[k - 1] \in 1..Len(w)
          /\ rest[k] = cut[k] - 1 /\ rest[k - 1] = cut[k - 1] - 1
      BY <2>1, <2>3, <3>2
    <3>5. rest[k] \in 1..Len(v) BY <1>1, <2>2, <3>3, <3>4
    <3>6. v[rest[k]] = w[cut[k]]
      <4>1. rest[k] + 1 = cut[k] BY <3>4
      <4> QED BY <3>5, <4>1
    <3>7. rest[k] = rest[k - 1] + 1 BY <3>3, <3>4
    <3> QED BY <3>3, <3>6, <3>7
  <2>10. Cuts(v, p, i, rest) BY <2>4, <2>6, <2>7, <2>8, <2>9 DEF Cuts
  <2>11. FitsFrom(v, p, i) BY <2>10 DEF FitsFrom
  <2> QED BY <2>2, <2>5, <2>11
<1> QED BY <1>4, <1>5

-----------------------------------------------------------------------------
(* Paths that two patterns stand for, from a token of each on.             *)
Pattern == Seq(Segments \cup {One, Many})
MeetWithin(p, q, i, j, n) ==
  \E w \in Seq(Segments) : Len(w) <= n /\ FitsFrom(w, p, i) /\ FitsFrom(w, q, j)
Meet(p, q, i, j) == \E n \in Nat : MeetWithin(p, q, i, j, n)

LEMMA FrontWord ==
  ASSUME NEW v \in Seq(Segments), NEW s \in Segments, NEW w, w = <<s>> \o v
  PROVE  /\ w \in Seq(Segments) /\ Len(w) = Len(v) + 1 /\ w[1] = s
         /\ \A k \in 1..Len(v) : w[k + 1] = v[k]
OBVIOUS

LEMMA TailWord ==
  ASSUME NEW w \in Seq(Segments)
  PROVE  \E v \in Seq(Segments) :
           /\ Len(w) > 0 => Len(w) = Len(v) + 1
           /\ \A k \in 1..Len(v) : w[k + 1] = v[k]
<1>1. CASE w = <<>>
  <2>1. Len(w) = 0 BY <1>1
  <2>2. ~(Len(w) > 0) /\ \A k \in 1..Len(w) : w[k + 1] = w[k] BY <2>1
  <2> QED BY <2>2
<1>2. CASE w # <<>>
  <2>1. /\ Tail(w) \in Seq(Segments) /\ Len(w) = Len(Tail(w)) + 1
        /\ \A k \in 1..Len(Tail(w)) : w[k + 1] = Tail(w)[k]
    BY <1>2
  <2> QED BY <2>1
<1> QED BY <1>1, <1>2

LEMMA MeetTurned ==
  ASSUME NEW p, NEW q, NEW i, NEW j, NEW n PROVE MeetWithin(p, q, i, j, n) => MeetWithin(q, p, j, i, n)
BY DEF MeetWithin

LEMMA MeetSkips ==
  ASSUME NEW p \in Pattern, NEW q \in Pattern, NEW i \in 1..Len(p), NEW j, NEW n \in Nat,
         p[i] = Many, MeetWithin(p, q, i + 1, j, n)
  PROVE  MeetWithin(p, q, i, j, n)
<1>1. PICK w \in Seq(Segments) : Len(w) <= n /\ FitsFrom(w, p, i + 1) /\ FitsFrom(w, q, j)
  BY DEF MeetWithin
<1>2. FitsFrom(w, p, i) BY <1>1, SkipFits DEF Pattern
<1> QED BY <1>1, <1>2 DEF MeetWithin

\* a segment for a token that is not {*}, and for one that goes with it
TakesUp(p, i, s) == p[i] # Many => p[i] \in {One, s}
Past(p, i) == IF p[i] = Many THEN i ELSE i + 1
LEMMA MeetGrows ==
  ASSUME NEW p \in Pattern, NEW q \in Pattern, NEW i \in 1..Len(p), NEW j \in 1..Len(q),
         NEW n \in Nat, NEW s \in Segments, TakesUp(p, i, s), TakesUp(q, j, s),
         MeetWithin(p, q, Past(p, i), Past(q, j), n)
  PROVE  MeetWithin(p, q, i, j, n + 1)
<1>1. PICK v \in Seq(Segments) :
        Len(v) <= n /\ FitsFrom(v, p, Past(p, i)) /\ FitsFrom(v, q, Past(q, j))
  BY DEF MeetWithin
<1>2. PICK w : w = <<s>> \o v OBVIOUS
<1>3. /\ w \in Seq(Segments) /\ Len(w) = Len(v) + 1 /\ w[1] = s
      /\ \A k \in 1..Len(v) : w[k + 1] = v[k]
  BY <1>2, FrontWord
<1>4. FitsFrom(w, p, i) BY <1>1, <1>3, FrontFits DEF TakesUp, Past, Pattern
<1>5. FitsFrom(w, q, j) BY <1>1, <1>3, FrontFits DEF TakesUp, Past, Pattern
<1>6. Len(w) <= n + 1
  <2>1. Len(v) \in Nat OBVIOUS
  <2> QED BY <1>1, <1>3, <2>1
<1> QED BY <1>3, <1>4, <1>5, <1>6 DEF MeetWithin

\* Two tokens of which none is {*} and that go together have a segment.
GoTogether(p, q, i, j) == Wild(p[i]) \/ Wild(q[j]) \/ p[i] = q[j]
LEMMA SegmentForBoth ==
  ASSUME NEW p \in Pattern, NEW q \in Pattern, NEW i \in 1..Len(p), NEW j \in 1..Len(q),
         p[i] = Many \/ q[j] = Many \/ GoTogether(p, q, i, j)
  PROVE  \E s \in Segments : TakesUp(p, i, s) /\ TakesUp(q, j, s)
<1>1. PICK s : s \in Segments BY MatchingAssumption
<1>2. p[i] \in Segments \cup {One, Many} /\ q[j] \in Segments \cup {One, Many} BY DEF Pattern
<1>3. CASE p[i] \in {One, Many} /\ q[j] \in {One, Many} BY <1>1, <1>3 DEF TakesUp
<1>4. CASE p[i] \notin {One, Many} BY <1>2, <1>4 DEF TakesUp, GoTogether, Wild
<1>5. CASE q[j] \notin {One, Many} BY <1>2, <1>5 DEF TakesUp, GoTogether, Wild
<1> QED BY <1>3, <1>4, <1>5

\* What two patterns that meet do with the next token of each.
LEMMA MeetSteps ==
  ASSUME NEW p \in Pattern, NEW q \in Pattern, NEW i \in 1..Len(p), NEW j \in 1..Len(q),
         NEW n \in Nat, MeetWithin(p, q, i, j, n)
  PROVE  \/ p[i] = Many /\ MeetWithin(p, q, i + 1, j, n)
         \/ q[j] = Many /\ MeetWithin(p, q, i, j + 1, n)
         \/ /\ \E s \in Segments : TakesUp(p, i, s) /\ TakesUp(q, j, s)
            /\ n > 0 /\ MeetWithin(p, q, Past(p, i), Past(q, j), n - 1)
<1>1. PICK w \in Seq(Segments) : Len(w) <= n /\ FitsFrom(w, p, i) /\ FitsFrom(w, q, j)
  BY DEF MeetWithin
<1>2. PICK v \in Seq(Segments) :
        /\ Len(w) > 0 => Len(w) = Len(v) + 1
        /\ \A k \in 1..Len(v) : w[k + 1] = v[k]
  BY TailWord
<1>3. \/ p[i] = Many /\ FitsFrom(w, p, i + 1)
      \/ Len(w) > 0 /\ TakesUp(p, i, w[1]) /\ FitsFrom(v, p, Past(p, i))
  <2>1. p \in Seq(Segments \cup {One, Many}) BY DEF Pattern
  <2> QED BY <1>1, <1>2, <2>1, FitsStep DEF TakesUp, Past
<1>4. \/ q[j] = Many /\ FitsFrom(w, q, j + 1)
      \/ Len(w) > 0 /\ TakesUp(q, j, w[1]) /\ FitsFrom(v, q, Past(q, j))
  <2>1. q \in Seq(Segments \cup {One, Many}) BY DEF Pattern
  <2> QED BY <1>1, <1>2, <2>1, FitsStep DEF TakesUp, Past
<1>5. CASE p[i] = Many /\ FitsFrom(w, p, i + 1) BY <1>1, <1>5 DEF MeetWithin
<1>6. CASE q[j] = Many /\ FitsFrom(w, q, j + 1) BY <1>1, <1>6 DEF MeetWithin
<1>7. CASE /\ Len(w) > 0 /\ TakesUp(p, i, w[1]) /\ FitsFrom(v, p, Past(p, i))
           /\ TakesUp(q, j, w[1]) /\ FitsFrom(v, q, Past(q, j))
  <2>1. w[1] \in Segments /\ Len(v) <= n - 1 /\ n > 0 BY <1>1, <1>2, <1>7
  <2> QED BY <1>7, <2>1 DEF MeetWithin
<1> QED BY <1>3, <1>4, <1>5, <1>6, <1>7

LEMMA MeetAtEnd ==
  ASSUME NEW p \in Pattern, NEW q \in Pattern, NEW j \in 1..Len(q) + 1, NEW n \in Nat
  PROVE  MeetWithin(p, q, Len(p) + 1, j, n) <=> \A k \in j..Len(q) : q[k] = Many
<1>1. Len(p) \in Nat /\ Len(p) + 1 \in 1..Len(p) + 1 /\ Len(<<>>) = 0 OBVIOUS
<1>2. <<>> \in Seq(Segments) OBVIOUS
<1>3. FitsFrom(<<>>, p, Len(p) + 1)
  <2>1. \A k \in Len(p) + 1 .. Len(p) : FALSE BY <1>1
  <2> QED BY <1>1, <2>1, EmptyFits DEF Pattern
<1>4. FitsFrom(<<>>, q, j) <=> \A k \in j..Len(q) : q[k] = Many BY EmptyFits DEF Pattern
<1>5. ASSUME MeetWithin(p, q, Len(p) + 1, j, n) PROVE FitsFrom(<<>>, q, j)
  <2>1. PICK w \in Seq(Segments) : FitsFrom(w, p, Len(p) + 1) /\ FitsFrom(w, q, j)
    BY <1>5 DEF MeetWithin
  <2>2. w = <<>> BY <2>1, EndFits DEF Pattern
  <2> QED BY <2>1, <2>2
<1>6. ASSUME FitsFrom(<<>>, q, j) PROVE MeetWithin(p, q, Len(p) + 1, j, n)
  <2>1. PICK e \in Seq(Segments) : e = <<>> /\ Len(e) = 0 BY <1>1, <1>2
  <2>2. Len(e) <= n BY <2>1
  <2> QED BY <1>3, <1>6, <2>1, <2>2 DEF MeetWithin
<1> QED BY <1>4, <1>5, <1>6

-----------------------------------------------------------------------------
(* What patterns_compatible computes is whether the patterns meet.         *)
Grid(p, q) == (1..Len(p) + 1) \X (1..Len(q) + 1)
CompatibleStep(p, q, f, i, j) ==
  IF i > Len(p) THEN \A n \in j..Len(q) : q[n] = Many
  ELSE IF j > Len(q) THEN \A n \in i..Len(p) : p[n] = Many
  ELSE IF p[i] = Many \/ q[j] = Many THEN f[<<i + 1, j>>] \/ f[<<i, j + 1>>]
  ELSE (Wild(p[i]) \/ Wild(q[j]) \/ p[i] = q[j]) /\ f[<<i + 1, j + 1>>]
Computes(p, q, f) == f = [cell \in Grid(p, q) |-> CompatibleStep(p, q, f, cell[1], cell[2])]

LEMMA CompatibleIsComputed ==
  ASSUME NEW p, NEW q
  PROVE  Compatible(p, q) = (CHOOSE f : Computes(p, q, f))[<<1, 1>>]
BY DEF Compatible, Computes, Grid, CompatibleStep

LEMMA ComputedStep ==
  ASSUME NEW p, NEW q, NEW f, Computes(p, q, f), NEW i \in 1..Len(p) + 1, NEW j \in 1..Len(q) + 1
  PROVE  f[<<i, j>>] = CompatibleStep(p, q, f, i, j)
<1>1. <<i, j>> \in Grid(p, q) BY DEF Grid
<1>2. f = [cell \in Grid(p, q) |-> CompatibleStep(p, q, f, cell[1], cell[2])] BY DEF Computes
<1> QED BY <1>1, <1>2

\* Two patterns meet after what both begin with, if one of them has {*} there.
LEMMA MeetManyFirst ==
  ASSUME NEW p \in Pattern, NEW q \in Pattern, NEW i \in 1..Len(p), NEW j \in 1..Len(q),
         p[i] = Many
  PROVE  /\ \A n \in Nat : MeetWithin(p, q, i, j, n) =>
              MeetWithin(p, q, i + 1, j, n) \/ \E l \in 0..n : MeetWithin(p, q, i, j + 1, l)
         /\ \A n \in Nat : q[j] # Many /\ MeetWithin(p, q, i, j + 1, n) =>
              MeetWithin(p, q, i, j, n + 1)
<1>1. \A n \in Nat : MeetWithin(p, q, i, j, n) =>
        MeetWithin(p, q, i + 1, j, n) \/ \E l \in 0..n : MeetWithin(p, q, i, j + 1, l)
  <2> DEFINE Bad == {n \in Nat : /\ MeetWithin(p, q, i, j, n)
                                 /\ ~MeetWithin(p, q, i + 1, j, n)
                                 /\ \A l \in 0..n : ~MeetWithin(p, q, i, j + 1, l)}
  <2> SUFFICES ASSUME Bad # {} PROVE FALSE OBVIOUS
  <2>1. PICK n \in Bad : \A m \in Bad : n <= m
    <3>1. Bad \in SUBSET Nat OBVIOUS
    <3> HIDE DEF Bad
    <3> QED BY <3>1, FirstOfNumbers
  <2>2. n \in Nat /\ MeetWithin(p, q, i, j, n) /\ ~MeetWithin(p, q, i + 1, j, n)
        /\ \A l \in 0..n : ~MeetWithin(p, q, i, j + 1, l)
    OBVIOUS
  <2>3. ~MeetWithin(p, q, i, j + 1, n) BY <2>2
  <2>4. n > 0 /\ MeetWithin(p, q, Past(p, i), Past(q, j), n - 1)
    BY <2>2, <2>3, MeetSteps
  <2>5. n - 1 \in Nat /\ n - 1 \in 0..n BY <2>2, <2>4
  <2>6. q[j] = Many BY <2>2, <2>4, <2>5 DEF Past
  <2>7. MeetWithin(p, q, i, j, n - 1) BY <2>4, <2>6 DEF Past
  <2>8. ~MeetWithin(p, q, i + 1, j, n - 1)
    <3>1. \A k : MeetWithin(p, q, k, j, n - 1) => MeetWithin(p, q, k, j, n)
      <4>1. \A w \in Seq(Segments) : Len(w) <= n - 1 => Len(w) <= n BY <2>2
      <4> QED BY <4>1 DEF MeetWithin
    <3> QED BY <2>2, <3>1
  <2>9. \A l \in 0 .. n - 1 : ~MeetWithin(p, q, i, j + 1, l)
    <3>1. \A l \in 0 .. n - 1 : l \in 0..n BY <2>2
    <3> QED BY <2>2, <3>1
  <2>10. n - 1 \in Bad BY <2>5, <2>7, <2>8, <2>9
  <2>11. n <= n - 1
    <3> HIDE DEF Bad
    <3> QED BY <2>1, <2>10
  <2> QED BY <2>2, <2>11
<1>2. ASSUME NEW n \in Nat, q[j] # Many, MeetWithin(p, q, i, j + 1, n)
      PROVE  MeetWithin(p, q, i, j, n + 1)
  <2>1. PICK s \in Segments : TakesUp(p, i, s) /\ TakesUp(q, j, s) BY SegmentForBoth
  <2> QED BY <1>2, <2>1, MeetGrows DEF Past
<1> QED BY <1>1, <1>2

\* Whether two patterns meet is computed from whether what is left of them does.
LEMMA MeetEquation ==
  ASSUME NEW p \in Pattern, NEW q \in Pattern, NEW i \in 1..Len(p) + 1, NEW j \in 1..Len(q) + 1
  PROVE  Meet(p, q, i, j) <=>
           IF i > Len(p) THEN \A n \in j..Len(q) : q[n] = Many
           ELSE IF j > Len(q) THEN \A n \in i..Len(p) : p[n] = Many
           ELSE IF p[i] = Many \/ q[j] = Many THEN Meet(p, q, i + 1, j) \/ Meet(p, q, i, j + 1)
           ELSE GoTogether(p, q, i, j) /\ Meet(p, q, i + 1, j + 1)
<1>1. Len(p) \in Nat /\ Len(q) \in Nat BY DEF Pattern
<1>2. \A k, l : Meet(p, q, k, l) <=> Meet(q, p, l, k) BY MeetTurned DEF Meet
<1>3. CASE i > Len(p)
  <2>1. i = Len(p) + 1 BY <1>1, <1>3
  <2>2. \A n \in Nat : MeetWithin(p, q, i, j, n) <=> \A k \in j..Len(q) : q[k] = Many
    BY <2>1, MeetAtEnd
  <2>3. 0 \in Nat OBVIOUS
  <2> QED BY <1>3, <2>2, <2>3 DEF Meet
<1>4. CASE i <= Len(p) /\ j > Len(q)
  <2>1. j = Len(q) + 1 /\ ~(i > Len(p)) BY <1>1, <1>4
  <2>2. \A n \in Nat : MeetWithin(q, p, j, i, n) <=> \A k \in i..Len(p) : p[k] = Many
    BY <2>1, MeetAtEnd
  <2>3. 0 \in Nat OBVIOUS
  <2>4. Meet(q, p, j, i) <=> \A k \in i..Len(p) : p[k] = Many BY <2>2, <2>3 DEF Meet
  <2> QED BY <1>2, <1>4, <2>1, <2>4
<1>5. CASE i <= Len(p) /\ j <= Len(q)
  <2>1. i \in 1..Len(p) /\ j \in 1..Len(q) /\ ~(i > Len(p)) /\ ~(j > Len(q)) BY <1>1, <1>5
  <2>2. CASE p[i] = Many \/ q[j] = Many
    <3>1. ASSUME Meet(p, q, i, j) PROVE Meet(p, q, i + 1, j) \/ Meet(p, q, i, j + 1)
      <4>1. PICK n \in Nat : MeetWithin(p, q, i, j, n) BY <3>1 DEF Meet
      <4>2. \A l \in 0..n : l \in Nat OBVIOUS
      <4>3. CASE p[i] = Many
        <5>1. MeetWithin(p, q, i + 1, j, n) \/ \E l \in 0..n : MeetWithin(p, q, i, j + 1, l)
          BY <2>1, <4>1, <4>3, MeetManyFirst
        <5> QED BY <4>2, <5>1 DEF Meet
      <4>4. CASE q[j] = Many
        <5>1. MeetWithin(q, p, j, i, n) BY <4>1, MeetTurned
        <5>2. MeetWithin(q, p, j + 1, i, n) \/ \E l \in 0..n : MeetWithin(q, p, j, i + 1, l)
          BY <2>1, <4>4, <5>1, MeetManyFirst
        <5>3. Meet(q, p, j + 1, i) \/ Meet(q, p, j, i + 1) BY <4>2, <5>2 DEF Meet
        <5> QED BY <1>2, <5>3
      <4> QED BY <2>2, <4>3, <4>4
    <3>2. ASSUME Meet(p, q, i + 1, j) PROVE Meet(p, q, i, j)
      <4>1. PICK n \in Nat : MeetWithin(p, q, i + 1, j, n) BY <3>2 DEF Meet
      <4>2. CASE p[i] = Many
        <5>1. MeetWithin(p, q, i, j, n) BY <2>1, <4>1, <4>2, MeetSkips
        <5> QED BY <5>1 DEF Meet
      <4>3. CASE p[i] # Many
        <5>1. q[j] = Many BY <2>2, <4>3
        <5>2. MeetWithin(q, p, j, i + 1, n) BY <4>1, MeetTurned
        <5>3. MeetWithin(q, p, j, i, n + 1) BY <2>1, <4>3, <5>1, <5>2, MeetManyFirst
        <5>4. n + 1 \in Nat OBVIOUS
        <5> QED BY <1>2, <5>3, <5>4 DEF Meet
      <4> QED BY <4>2, <4>3
    <3>3. ASSUME Meet(p, q, i, j + 1) PROVE Meet(p, q, i, j)
      <4>1. PICK n \in Nat : MeetWithin(p, q, i, j + 1, n) BY <3>3 DEF Meet
      <4>2. CASE q[j] = Many
        <5>1. MeetWithin(q, p, j + 1, i, n) BY <4>1, MeetTurned
        <5>2. MeetWithin(q, p, j, i, n) BY <2>1, <4>2, <5>1, MeetSkips
        <5> QED BY <1>2, <5>2 DEF Meet
      <4>3. CASE q[j] # Many
        <5>1. p[i] = Many BY <2>2, <4>3
        <5>2. MeetWithin(p, q, i, j, n + 1) BY <2>1, <4>1, <4>3, <5>1, MeetManyFirst
        <5>3. n + 1 \in Nat OBVIOUS
        <5> QED BY <5>2, <5>3 DEF Meet
      <4> QED BY <4>2, <4>3
    <3> QED BY <2>1, <2>2, <3>1, <3>2, <3>3
  <2>3. CASE p[i] # Many /\ q[j] # Many
    <3>1. Past(p, i) = i + 1 /\ Past(q, j) = j + 1 BY <2>3 DEF Past
    <3>2. ASSUME Meet(p, q, i, j) PROVE GoTogether(p, q, i, j) /\ Meet(p, q, i + 1, j + 1)
      <4>1. PICK n \in Nat : MeetWithin(p, q, i, j, n) BY <3>2 DEF Meet
      <4>2. /\ \E s \in Segments : TakesUp(p, i, s) /\ TakesUp(q, j, s)
            /\ n > 0 /\ MeetWithin(p, q, i + 1, j + 1, n - 1)
        BY <2>1, <2>3, <3>1, <4>1, MeetSteps
      <4>3. n - 1 \in Nat BY <4>2
      <4>4. GoTogether(p, q, i, j) BY <2>3, <4>2 DEF GoTogether, TakesUp, Wild
      <4> QED BY <4>2, <4>3, <4>4 DEF Meet
    <3>3. ASSUME GoTogether(p, q, i, j), Meet(p, q, i + 1, j + 1) PROVE Meet(p, q, i, j)
      <4>1. PICK n \in Nat : MeetWithin(p, q, i + 1, j + 1, n) BY <3>3 DEF Meet
      <4>2. PICK s \in Segments : TakesUp(p, i, s) /\ TakesUp(q, j, s)
        BY <2>1, <3>3, SegmentForBoth
      <4>3. MeetWithin(p, q, i, j, n + 1) BY <2>1, <3>1, <4>1, <4>2, MeetGrows
      <4>4. n + 1 \in Nat OBVIOUS
      <4> QED BY <4>3, <4>4 DEF Meet
    <3> QED BY <2>1, <2>3, <3>2, <3>3
  <2> QED BY <2>2, <2>3
<1>6. i <= Len(p) \/ i > Len(p) BY <1>1
<1>7. j <= Len(q) \/ j > Len(q) BY <1>1
<1> QED BY <1>3, <1>4, <1>5, <1>6, <1>7

\* So what is computed is computed, and is whether they meet.
Meeting(p, q) == [cell \in Grid(p, q) |-> Meet(p, q, cell[1], cell[2])]
LEMMA MeetingComputes == ASSUME NEW p \in Pattern, NEW q \in Pattern PROVE Computes(p, q, Meeting(p, q))
<1> DEFINE f == Meeting(p, q)
<1>1. Len(p) \in Nat /\ Len(q) \in Nat BY DEF Pattern
<1>2. \A i \in 1..Len(p) + 1, j \in 1..Len(q) + 1 : f[<<i, j>>] <=> Meet(p, q, i, j)
  BY DEF Meeting, Grid
<1>3. ASSUME NEW i \in 1..Len(p) + 1, NEW j \in 1..Len(q) + 1
      PROVE  Meet(p, q, i, j) <=> CompatibleStep(p, q, f, i, j)
  <2>1. i <= Len(p) => i + 1 \in 1..Len(p) + 1 BY <1>1
  <2>2. j <= Len(q) => j + 1 \in 1..Len(q) + 1 BY <1>1
  <2>3. (i > Len(p) \/ i <= Len(p)) /\ (j > Len(q) \/ j <= Len(q)) BY <1>1
  <2> HIDE DEF f
  <2>4. CASE i > Len(p) BY <2>4, MeetEquation DEF CompatibleStep
  <2>5. CASE i <= Len(p) /\ ~(i > Len(p)) /\ j > Len(q) BY <2>5, MeetEquation DEF CompatibleStep
  <2>6. CASE i <= Len(p) /\ j <= Len(q) /\ ~(i > Len(p)) /\ ~(j > Len(q))
    <3>1. /\ f[<<i + 1, j>>] <=> Meet(p, q, i + 1, j)
          /\ f[<<i, j + 1>>] <=> Meet(p, q, i, j + 1)
          /\ f[<<i + 1, j + 1>>] <=> Meet(p, q, i + 1, j + 1)
      BY <1>2, <2>1, <2>2, <2>6
    <3>2. CASE p[i] = Many \/ q[j] = Many
      <4>1. CompatibleStep(p, q, f, i, j) <=> f[<<i + 1, j>>] \/ f[<<i, j + 1>>]
        BY <2>6, <3>2 DEF CompatibleStep
      <4>2. Meet(p, q, i, j) <=> Meet(p, q, i + 1, j) \/ Meet(p, q, i, j + 1)
        BY <2>6, <3>2, MeetEquation
      <4> QED BY <3>1, <4>1, <4>2
    <3>3. CASE ~(p[i] = Many \/ q[j] = Many)
      <4>1. CompatibleStep(p, q, f, i, j) <=> GoTogether(p, q, i, j) /\ f[<<i + 1, j + 1>>]
        BY <2>6, <3>3 DEF CompatibleStep, GoTogether
      <4>2. Meet(p, q, i, j) <=> GoTogether(p, q, i, j) /\ Meet(p, q, i + 1, j + 1)
        BY <2>6, <3>3, MeetEquation
      <4> QED BY <3>1, <4>1, <4>2
    <3> QED BY <3>2, <3>3
  <2> QED BY <1>1, <2>3, <2>4, <2>5, <2>6
<1>4. \A cell \in Grid(p, q) :
        /\ cell[1] \in 1..Len(p) + 1 /\ cell[2] \in 1..Len(q) + 1
  BY DEF Grid
<1>6. \A i, j : Meet(p, q, i, j) \in BOOLEAN BY DEF Meet
<1>7. \A i, j : CompatibleStep(p, q, f, i, j) \in BOOLEAN
  <2> HIDE DEF f
  <2> QED BY DEF CompatibleStep
<1>5. \A cell \in Grid(p, q) : Meet(p, q, cell[1], cell[2]) = CompatibleStep(p, q, f, cell[1], cell[2])
  BY <1>3, <1>4, <1>6, <1>7
<1> QED BY <1>5 DEF Computes, Meeting

LEMMA CompatibleMeets ==
  ASSUME NEW p \in Pattern, NEW q \in Pattern PROVE Compatible(p, q) <=> Meet(p, q, 1, 1)
<1> DEFINE rec == CHOOSE f : Computes(p, q, f)
           Left(i, j) == (Len(p) + 1 - i) + (Len(q) + 1 - j)
           Right(i, j) == rec[<<i, j>>] <=> Meet(p, q, i, j)
           Bad == {s \in Nat : \E i \in 1..Len(p) + 1, j \in 1..Len(q) + 1 :
                                 s = Left(i, j) /\ ~Right(i, j)}
<1>1. Len(p) \in Nat /\ Len(q) \in Nat BY DEF Pattern
<1>2. Computes(p, q, rec) BY MeetingComputes
<1> HIDE DEF rec
<1>3. ASSUME Bad # {} PROVE FALSE
  <2>1. PICK s \in Bad : \A t \in Bad : s <= t
    <3>1. Bad \in SUBSET Nat OBVIOUS
    <3> HIDE DEF Bad
    <3> QED BY <1>3, <3>1, FirstOfNumbers
  <2>2. PICK i \in 1..Len(p) + 1, j \in 1..Len(q) + 1 : s = Left(i, j) /\ ~Right(i, j)
    OBVIOUS
  <2>3. ASSUME NEW k \in 1..Len(p) + 1, NEW l \in 1..Len(q) + 1, Left(k, l) < Left(i, j)
        PROVE  Right(k, l)
    <3> SUFFICES ASSUME ~Right(k, l) PROVE FALSE OBVIOUS
    <3>1. Left(k, l) \in Nat /\ Left(i, j) \in Nat BY <1>1
    <3>2. Left(k, l) \in Bad BY <3>1
    <3>3. s <= Left(k, l)
      <4> HIDE DEF Bad, Left
      <4> QED BY <2>1, <3>2
    <3> QED BY <2>2, <2>3, <3>1, <3>3
  <2>4. i <= Len(p) => i + 1 \in 1..Len(p) + 1 /\ Left(i + 1, j) < Left(i, j) BY <1>1
  <2>5. j <= Len(q) => j + 1 \in 1..Len(q) + 1 /\ Left(i, j + 1) < Left(i, j) BY <1>1
  <2>6. i <= Len(p) /\ j <= Len(q) => Left(i + 1, j + 1) < Left(i, j) BY <1>1
  <2>7. (i > Len(p) \/ i <= Len(p)) /\ (j > Len(q) \/ j <= Len(q)) BY <1>1
  <2>8. rec[<<i, j>>] = CompatibleStep(p, q, rec, i, j) BY <1>2, ComputedStep
  <2> HIDE DEF Left
  <2>9. Right(i, j)
    <3>1. CASE i > Len(p) BY <2>8, <3>1, MeetEquation DEF CompatibleStep
    <3>2. CASE i <= Len(p) /\ ~(i > Len(p)) /\ j > Len(q)
      BY <2>8, <3>2, MeetEquation DEF CompatibleStep
    <3>3. CASE i <= Len(p) /\ j <= Len(q) /\ ~(i > Len(p)) /\ ~(j > Len(q))
      <4>1. Right(i + 1, j) /\ Right(i, j + 1) /\ Right(i + 1, j + 1)
        BY <2>3, <2>4, <2>5, <2>6, <3>3
      <4>2. CASE p[i] = Many \/ q[j] = Many
        <5>1. rec[<<i, j>>] = (rec[<<i + 1, j>>] \/ rec[<<i, j + 1>>])
          BY <2>8, <3>3, <4>2 DEF CompatibleStep
        <5>2. Meet(p, q, i, j) <=> Meet(p, q, i + 1, j) \/ Meet(p, q, i, j + 1)
          BY <3>3, <4>2, MeetEquation
        <5> QED BY <4>1, <5>1, <5>2
      <4>3. CASE ~(p[i] = Many \/ q[j] = Many)
        <5>1. rec[<<i, j>>] = (GoTogether(p, q, i, j) /\ rec[<<i + 1, j + 1>>])
          BY <2>8, <3>3, <4>3 DEF CompatibleStep, GoTogether
        <5>2. Meet(p, q, i, j) <=> GoTogether(p, q, i, j) /\ Meet(p, q, i + 1, j + 1)
          BY <3>3, <4>3, MeetEquation
        <5> QED BY <4>1, <5>1, <5>2
      <4> QED BY <4>2, <4>3
    <3> QED BY <1>1, <2>7, <3>1, <3>2, <3>3
  <2> QED BY <2>2, <2>9
<1>4. 1 \in 1..Len(p) + 1 /\ 1 \in 1..Len(q) + 1 /\ Left(1, 1) \in Nat BY <1>1
<1>5. Right(1, 1) BY <1>3, <1>4
<1> QED BY <1>5, CompatibleIsComputed DEF rec

-----------------------------------------------------------------------------
(* How long a path need be that two patterns stand for.                    *)
Slack(p, i) == Len(p) + 1 - i - (IF \E k \in i..Len(p) : p[k] = Many THEN 1 ELSE 0)

LEMMA SlackSteps ==
  ASSUME NEW p \in Pattern, NEW i \in 1..Len(p)
  PROVE  /\ Slack(p, i) \in Nat /\ Slack(p, i + 1) \in Nat
         /\ p[i] = Many => Slack(p, i + 1) <= Slack(p, i)
         /\ p[i] # Many => Slack(p, i) = Slack(p, i + 1) + 1
<1>1. Len(p) \in Nat /\ i \in Nat BY DEF Pattern
<1>2. \A k : k \in i..Len(p) <=> k = i \/ k \in i + 1 .. Len(p) BY <1>1
<1> DEFINE Some(k) == \E n \in k..Len(p) : p[n] = Many
<1>3. Some(i) <=> p[i] = Many \/ Some(i + 1) BY <1>2
<1>4. Some(i + 1) => i + 1 <= Len(p) BY <1>1
<1>5. \A k : Slack(p, k) = Len(p) + 1 - k - (IF Some(k) THEN 1 ELSE 0) BY DEF Slack
<1> HIDE DEF Some
<1>6. Slack(p, i) = Len(p) + 1 - i - (IF Some(i) THEN 1 ELSE 0) BY <1>5
<1>7. Slack(p, i + 1) = Len(p) + 1 - (i + 1) - (IF Some(i + 1) THEN 1 ELSE 0) BY <1>5
<1>8. Some(i) \in BOOLEAN /\ Some(i + 1) \in BOOLEAN BY DEF Some
<1> QED BY <1>1, <1>3, <1>4, <1>6, <1>7, <1>8

LEMMA MeetLonger ==
  ASSUME NEW p, NEW q, NEW i, NEW j, NEW m \in Nat, NEW n \in Nat, m <= n,
         MeetWithin(p, q, i, j, m)
  PROVE  MeetWithin(p, q, i, j, n)
<1>1. \A w \in Seq(Segments) : Len(w) <= m => Len(w) <= n OBVIOUS
<1> QED BY <1>1 DEF MeetWithin

LEMMA SlackSums ==
  ASSUME NEW a \in Nat, NEW b \in Nat, NEW c \in Nat, NEW d \in Nat,
         NEW x \in BOOLEAN, NEW y \in BOOLEAN,
         x => c <= a, ~x => a = c + 1, y => d <= b, ~y => b = d + 1
  PROVE  /\ c + b \in Nat /\ c + b + 1 \in Nat /\ a + d \in Nat /\ a + d + 1 \in Nat
         /\ c + d \in Nat /\ c + d + 1 \in Nat
         /\ x => c + b <= a + b
         /\ ~x => c + b + 1 <= a + b
         /\ y => a + d <= a + b
         /\ ~y => a + d + 1 <= a + b
         /\ ~x /\ ~y => c + d + 1 <= a + b
OBVIOUS

LEMMA MeetShort ==
  ASSUME NEW p \in Pattern, NEW q \in Pattern, Meet(p, q, 1, 1)
  PROVE  MeetWithin(p, q, 1, 1, Slack(p, 1) + Slack(q, 1))
<1> DEFINE Left(i, j) == (Len(p) + 1 - i) + (Len(q) + 1 - j)
           Right(i, j) == Meet(p, q, i, j) => MeetWithin(p, q, i, j, Slack(p, i) + Slack(q, j))
           Bad == {s \in Nat : \E i \in 1..Len(p) + 1, j \in 1..Len(q) + 1 :
                                 s = Left(i, j) /\ ~Right(i, j)}
<1>1. Len(p) \in Nat /\ Len(q) \in Nat BY DEF Pattern
<1>2. \A i \in 1..Len(p) + 1 : Slack(p, i) \in Nat
  <2>1. Slack(p, Len(p) + 1) = 0 BY <1>1 DEF Slack
  <2>2. \A i \in 1..Len(p) : Slack(p, i) \in Nat BY SlackSteps
  <2>3. \A i \in 1..Len(p) + 1 : i = Len(p) + 1 \/ i \in 1..Len(p) BY <1>1
  <2> QED BY <2>1, <2>2, <2>3
<1>3. \A j \in 1..Len(q) + 1 : Slack(q, j) \in Nat
  <2>1. Slack(q, Len(q) + 1) = 0 BY <1>1 DEF Slack
  <2>2. \A j \in 1..Len(q) : Slack(q, j) \in Nat BY SlackSteps
  <2>3. \A j \in 1..Len(q) + 1 : j = Len(q) + 1 \/ j \in 1..Len(q) BY <1>1
  <2> QED BY <2>1, <2>2, <2>3
<1>4. ASSUME Bad # {} PROVE FALSE
  <2>1. PICK s \in Bad : \A t \in Bad : s <= t
    <3>1. Bad \in SUBSET Nat OBVIOUS
    <3> HIDE DEF Bad
    <3> QED BY <1>4, <3>1, FirstOfNumbers
  <2>2. PICK i \in 1..Len(p) + 1, j \in 1..Len(q) + 1 : s = Left(i, j) /\ ~Right(i, j)
    OBVIOUS
  <2>3. ASSUME NEW k \in 1..Len(p) + 1, NEW l \in 1..Len(q) + 1, Left(k, l) < Left(i, j)
        PROVE  Right(k, l)
    <3> SUFFICES ASSUME ~Right(k, l) PROVE FALSE OBVIOUS
    <3>1. Left(k, l) \in Nat /\ Left(i, j) \in Nat BY <1>1
    <3>2. Left(k, l) \in Bad BY <3>1
    <3>3. s <= Left(k, l)
      <4> HIDE DEF Bad, Left
      <4> QED BY <2>1, <3>2
    <3> QED BY <2>2, <2>3, <3>1, <3>3
  <2>4. i <= Len(p) => i \in 1..Len(p) /\ i + 1 \in 1..Len(p) + 1 /\ Left(i + 1, j) < Left(i, j)
    BY <1>1
  <2>5. j <= Len(q) => j \in 1..Len(q) /\ j + 1 \in 1..Len(q) + 1 /\ Left(i, j + 1) < Left(i, j)
    BY <1>1
  <2>6. i <= Len(p) /\ j <= Len(q) => Left(i + 1, j + 1) < Left(i, j) BY <1>1
  <2>7. (i > Len(p) \/ i <= Len(p)) /\ (j > Len(q) \/ j <= Len(q)) BY <1>1
  <2>8. Slack(p, i) \in Nat /\ Slack(q, j) \in Nat BY <1>2, <1>3
  <2> HIDE DEF Left
  <2> DEFINE n == Slack(p, i) + Slack(q, j)
  <2>9. Meet(p, q, i, j) /\ ~MeetWithin(p, q, i, j, n) BY <2>2
  <2>10. n \in Nat BY <2>8
  <2> HIDE DEF n
  <2>11. CASE i > Len(p)
    <3>1. i = Len(p) + 1 BY <1>1, <2>11
    <3>2. \A k \in j..Len(q) : q[k] = Many BY <2>9, <2>11, MeetEquation
    <3> QED BY <2>9, <2>10, <3>1, <3>2, MeetAtEnd
  <2>12. CASE i <= Len(p) /\ j > Len(q)
    <3>1. j = Len(q) + 1 /\ ~(i > Len(p)) BY <1>1, <2>12
    <3>2. \A k \in i..Len(p) : p[k] = Many BY <2>9, <2>12, <3>1, MeetEquation
    <3>3. MeetWithin(q, p, j, i, n) BY <2>10, <3>1, <3>2, MeetAtEnd
    <3> QED BY <2>9, <3>3, MeetTurned
  <2>13. CASE i <= Len(p) /\ j <= Len(q)
    <3>1. /\ i \in 1..Len(p) /\ j \in 1..Len(q) /\ ~(i > Len(p)) /\ ~(j > Len(q))
          /\ i + 1 \in 1..Len(p) + 1 /\ j + 1 \in 1..Len(q) + 1
      BY <1>1, <2>4, <2>5, <2>13
    <3>2. Right(i + 1, j) /\ Right(i, j + 1) /\ Right(i + 1, j + 1)
      BY <2>3, <2>4, <2>5, <2>6, <2>13
    <3>3. Slack(p, i + 1) \in Nat /\ Slack(q, j + 1) \in Nat BY <1>2, <1>3, <3>1
    <3>4. /\ p[i] = Many => Slack(p, i + 1) <= Slack(p, i)
          /\ p[i] # Many => Slack(p, i) = Slack(p, i + 1) + 1
          /\ q[j] = Many => Slack(q, j + 1) <= Slack(q, j)
          /\ q[j] # Many => Slack(q, j) = Slack(q, j + 1) + 1
      BY <3>1, SlackSteps
    <3>5. /\ p[i] = Many => Slack(p, i + 1) + Slack(q, j) <= n
          /\ p[i] # Many => Slack(p, i + 1) + Slack(q, j) + 1 <= n
          /\ q[j] = Many => Slack(p, i) + Slack(q, j + 1) <= n
          /\ q[j] # Many => Slack(p, i) + Slack(q, j + 1) + 1 <= n
          /\ p[i] # Many /\ q[j] # Many => Slack(p, i + 1) + Slack(q, j + 1) + 1 <= n
      BY <2>8, <3>3, <3>4, SlackSums DEF n
    <3>6. /\ Slack(p, i + 1) + Slack(q, j) \in Nat /\ Slack(p, i + 1) + Slack(q, j) + 1 \in Nat
          /\ Slack(p, i) + Slack(q, j + 1) \in Nat /\ Slack(p, i) + Slack(q, j + 1) + 1 \in Nat
          /\ Slack(p, i + 1) + Slack(q, j + 1) \in Nat
          /\ Slack(p, i + 1) + Slack(q, j + 1) + 1 \in Nat
      <4> HIDE DEF Bad, Right
      <4>1. \A a, b \in Nat : a + b \in Nat /\ a + b + 1 \in Nat OBVIOUS
      <4> QED BY ONLY <2>8, <3>3, <4>1
    <3>7. CASE p[i] = Many /\ Meet(p, q, i + 1, j)
      <4>1. MeetWithin(p, q, i + 1, j, Slack(p, i + 1) + Slack(q, j)) BY <3>2, <3>7
      <4>2. MeetWithin(p, q, i, j, Slack(p, i + 1) + Slack(q, j))
        BY <3>1, <3>6, <3>7, <4>1, MeetSkips
      <4> QED BY <2>9, <2>10, <3>5, <3>6, <3>7, <4>2, MeetLonger
    <3>8. CASE p[i] # Many /\ q[j] = Many /\ Meet(p, q, i + 1, j)
      <4>1. MeetWithin(p, q, i + 1, j, Slack(p, i + 1) + Slack(q, j)) BY <3>2, <3>8
      <4>2. MeetWithin(q, p, j, i + 1, Slack(p, i + 1) + Slack(q, j)) BY <4>1, MeetTurned
      <4>3. MeetWithin(q, p, j, i, Slack(p, i + 1) + Slack(q, j) + 1)
        BY <3>1, <3>6, <3>8, <4>2, MeetManyFirst
      <4>4. MeetWithin(q, p, j, i, n) BY <2>10, <3>5, <3>6, <3>8, <4>3, MeetLonger
      <4> QED BY <2>9, <4>4, MeetTurned
    <3>9. CASE q[j] = Many /\ Meet(p, q, i, j + 1)
      <4>1. MeetWithin(p, q, i, j + 1, Slack(p, i) + Slack(q, j + 1)) BY <3>2, <3>9
      <4>2. MeetWithin(q, p, j + 1, i, Slack(p, i) + Slack(q, j + 1)) BY <4>1, MeetTurned
      <4>3. MeetWithin(q, p, j, i, Slack(p, i) + Slack(q, j + 1))
        BY <3>1, <3>6, <3>9, <4>2, MeetSkips
      <4>4. MeetWithin(q, p, j, i, n) BY <2>10, <3>5, <3>6, <3>9, <4>3, MeetLonger
      <4> QED BY <2>9, <4>4, MeetTurned
    <3>10. CASE q[j] # Many /\ p[i] = Many /\ Meet(p, q, i, j + 1)
      <4>1. MeetWithin(p, q, i, j + 1, Slack(p, i) + Slack(q, j + 1)) BY <3>2, <3>10
      <4>2. MeetWithin(p, q, i, j, Slack(p, i) + Slack(q, j + 1) + 1)
        BY <3>1, <3>6, <3>10, <4>1, MeetManyFirst
      <4> QED BY <2>9, <2>10, <3>5, <3>6, <3>10, <4>2, MeetLonger
    <3>11. CASE p[i] # Many /\ q[j] # Many
      <4>1. GoTogether(p, q, i, j) /\ Meet(p, q, i + 1, j + 1)
        BY <2>9, <3>1, <3>11, MeetEquation
      <4>2. MeetWithin(p, q, i + 1, j + 1, Slack(p, i + 1) + Slack(q, j + 1)) BY <3>2, <4>1
      <4>3. PICK t \in Segments : TakesUp(p, i, t) /\ TakesUp(q, j, t)
        BY <3>1, <4>1, SegmentForBoth
      <4>4. MeetWithin(p, q, i, j, Slack(p, i + 1) + Slack(q, j + 1) + 1)
        BY <3>1, <3>6, <3>11, <4>2, <4>3, MeetGrows DEF Past
      <4> QED BY <2>9, <2>10, <3>5, <3>6, <3>11, <4>4, MeetLonger
    <3>12. p[i] = Many \/ q[j] = Many => Meet(p, q, i + 1, j) \/ Meet(p, q, i, j + 1)
      BY <2>9, <3>1, MeetEquation
    <3> QED BY <3>7, <3>8, <3>9, <3>10, <3>11, <3>12
  <2> QED BY <2>7, <2>11, <2>12, <2>13
<1>5. 1 \in 1..Len(p) + 1 /\ 1 \in 1..Len(q) + 1 /\ Left(1, 1) \in Nat BY <1>1
<1>6. Right(1, 1) BY <1>4, <1>5
<1> QED BY <1>6

\* A pattern without {*} stands for paths of its own length.
LEMMA PlainLength ==
  ASSUME NEW p \in Pattern, NEW w \in Seq(Segments), FitsFrom(w, p, 1),
         \A k \in 1..Len(p) : p[k] # Many
  PROVE  Len(w) = Len(p)
<1>1. Len(p) \in Nat BY DEF Pattern
<1>2. PICK cut : Cuts(w, p, 1, cut) BY DEF FitsFrom
<1>3. cut[0] = 0 /\ cut[Len(p)] = Len(w) /\ \A k \in 1..Len(p) : cut[k] = cut[k - 1] + 1
  BY <1>2 DEF Cuts
<1> DEFINE Bad == {k \in 0..Len(p) : cut[k] # k}
<1>4. ASSUME Bad # {} PROVE FALSE
  <2>1. PICK k \in Bad : \A l \in Bad : k <= l
    <3>1. Bad \in SUBSET Nat BY <1>1
    <3> HIDE DEF Bad
    <3> QED BY <1>4, <3>1, FirstOfNumbers
  <2>2. k \in 1..Len(p) /\ k - 1 \in 0..Len(p) BY <1>1, <1>3
  <2>3. k - 1 \notin Bad
    <3>1. ~(k <= k - 1) BY <2>2
    <3> HIDE DEF Bad
    <3> QED BY <2>1, <3>1
  <2>4. cut[k - 1] = k - 1 BY <2>2, <2>3
  <2>5. cut[k] = k BY <1>3, <2>2, <2>4
  <2> QED BY <2>5
<1>5. Len(p) \in 0..Len(p) BY <1>1
<1> QED BY <1>3, <1>4, <1>5

\* The paths that are asked about are enough to tell two patterns apart.
LEMMA IntersectionInWords ==
  ASSUME NEW r \in Patterns, NEW c \in CallPatterns
  PROVE  Compatible(r, c) <=> \E w \in Words : Fits(w, c) /\ Fits(w, r)
<1>1. r \in Pattern /\ c \in Pattern /\ Words \subseteq Seq(Segments)
  BY MatchingAssumption DEF Pattern
<1>2. \A w \in Seq(Segments) : Fits(w, r) <=> FitsFrom(w, r, 1) BY <1>1, FitsAll DEF Pattern
<1>3. \A w \in Seq(Segments) : Fits(w, c) <=> FitsFrom(w, c, 1) BY <1>1, FitsAll DEF Pattern
<1>4. Len(r) \in Nat /\ Len(c) \in Nat /\ DOMAIN r = 1..Len(r) /\ DOMAIN c = 1..Len(c)
  BY <1>1 DEF Pattern
<1>5. ASSUME Compatible(r, c) PROVE \E w \in Words : Fits(w, c) /\ Fits(w, r)
  <2>1. Meet(r, c, 1, 1) BY <1>1, <1>5, CompatibleMeets
  <2>2. MeetWithin(r, c, 1, 1, Slack(r, 1) + Slack(c, 1)) BY <1>1, <2>1, MeetShort
  <2>3. PICK w \in Seq(Segments) :
          /\ Len(w) <= Slack(r, 1) + Slack(c, 1)
          /\ FitsFrom(w, r, 1) /\ FitsFrom(w, c, 1)
    BY <2>2 DEF MeetWithin
  <2> DEFINE L == LengthFor(r, c)
  <2>4. Len(w) \in 0..L
    <3>0. Len(w) \in Nat OBVIOUS
    <3>1. CASE \A k \in DOMAIN r : r[k] # Many
      <4>1. Len(w) = Len(r) BY <1>1, <1>4, <2>3, <3>1, PlainLength
      <4>2. L = Len(r) BY <3>1 DEF LengthFor
      <4> QED BY <1>4, <4>1, <4>2
    <3>2. CASE ~(\A k \in DOMAIN r : r[k] # Many) /\ \A k \in DOMAIN c : c[k] # Many
      <4>1. Len(w) = Len(c) BY <1>1, <1>4, <2>3, <3>2, PlainLength
      <4>2. L = Len(c) BY <3>2 DEF LengthFor
      <4> QED BY <1>4, <4>1, <4>2
    <3>3. CASE ~(\A k \in DOMAIN r : r[k] # Many) /\ ~(\A k \in DOMAIN c : c[k] # Many)
      <4>1. L = Len(r) + Len(c) - 2 BY <3>3 DEF LengthFor
      <4>2. Slack(r, 1) = Len(r) - 1
        <5>1. \E k \in 1..Len(r) : r[k] = Many BY <1>4, <3>3
        <5>2. Slack(r, 1) = Len(r) + 1 - 1 - 1 BY <5>1 DEF Slack
        <5> QED BY <1>4, <5>2
      <4>3. Slack(c, 1) = Len(c) - 1
        <5>1. \E k \in 1..Len(c) : c[k] = Many BY <1>4, <3>3
        <5>2. Slack(c, 1) = Len(c) + 1 - 1 - 1 BY <5>1 DEF Slack
        <5> QED BY <1>4, <5>2
      <4> HIDE DEF L
      <4> QED BY <1>4, <2>3, <3>0, <4>1, <4>2, <4>3
    <3> QED BY <3>1, <3>2, <3>3
  <2>5. [1..Len(w) -> Segments] \subseteq Words BY <2>4, MatchingAssumption
  <2>6. w \in [1..Len(w) -> Segments] OBVIOUS
  <2>7. w \in Words BY <2>5, <2>6
  <2> QED BY <1>2, <1>3, <2>3, <2>7
<1>6. ASSUME NEW w \in Words, Fits(w, c), Fits(w, r) PROVE Compatible(r, c)
  <2>1. w \in Seq(Segments) BY <1>1
  <2>2. FitsFrom(w, r, 1) /\ FitsFrom(w, c, 1) BY <1>2, <1>3, <1>6, <2>1
  <2>3. Len(w) \in Nat /\ Len(w) <= Len(w) BY <2>1
  <2>4. Meet(r, c, 1, 1) BY <2>1, <2>2, <2>3 DEF Meet, MeetWithin
  <2> QED BY <1>1, <2>4, CompatibleMeets
<1> QED BY <1>5, <1>6

-----------------------------------------------------------------------------
(* What is looked up under a key of the index.                             *)
Begins(p) == p # <<>> /\ ~Wild(p[1])

LEMMA MinThree ==
  ASSUME NEW n \in Nat
  PROVE  Min({3, n}) \in Nat /\ Min({3, n}) <= n /\ (n > 0 => Min({3, n}) > 0)
<1>1. \E x \in {3, n} : \A y \in {3, n} : x <= y OBVIOUS
<1> QED BY <1>1 DEF Min

LEMMA StaticBegins ==
  ASSUME NEW p \in Pattern, p # <<>>
  PROVE  /\ Static(p) \in Seq(Segments \cup {One, Many})
         /\ Static(p) # <<>> => Begins(p) /\ Len(Static(p)) > 0 /\ Static(p)[1] = p[1]
         /\ Begins(p) => Static(p) # <<>>
<1> DEFINE Until(n) ==
             n \in 0..Len(p) /\ (\A k \in 1..n : ~Wild(p[k])) /\ (n = Len(p) \/ Wild(p[n + 1]))
           Stops == {n \in 0..Len(p) : n = Len(p) \/ Wild(p[n + 1])}
           n == CHOOSE m \in 0..Len(p) :
                  (\A k \in 1..m : ~Wild(p[k])) /\ (m = Len(p) \/ Wild(p[m + 1]))
<1>1. Len(p) \in Nat /\ Len(p) > 0 BY DEF Pattern
<1>2. Until(n)
  <2>1. Stops \in SUBSET Nat /\ Len(p) \in Stops BY <1>1
  <2>2. PICK m \in Stops : \A l \in Stops : m <= l
    <3> HIDE DEF Stops
    <3> QED BY <2>1, FirstOfNumbers
  <2>3. \A k \in 1..m : ~Wild(p[k])
    <3> SUFFICES ASSUME NEW k \in 1..m, Wild(p[k]) PROVE FALSE OBVIOUS
    <3>1. k - 1 \in 0..Len(p) /\ (k - 1) + 1 = k /\ ~(m <= k - 1) BY <1>1
    <3>2. k - 1 \in Stops BY <3>1
    <3> HIDE DEF Stops
    <3> QED BY <2>2, <3>1, <3>2
  <2>4. m \in 0..Len(p) /\ (m = Len(p) \/ Wild(p[m + 1])) OBVIOUS
  <2> QED BY <2>3, <2>4
<1> HIDE DEF n
<1>3. Static(p) = SubSeq(p, 1, n) BY DEF Static, n
<1>4. n \in Nat /\ n <= Len(p) BY <1>1, <1>2
<1>5. /\ SubSeq(p, 1, n) \in Seq(Segments \cup {One, Many}) /\ Len(SubSeq(p, 1, n)) = n
      /\ n > 0 => SubSeq(p, 1, n)[1] = p[1]
  BY <1>1, <1>4 DEF Pattern
<1>6. Static(p) # <<>> => n > 0 BY <1>3, <1>4, <1>5
<1>7. n > 0 => ~Wild(p[1]) BY <1>2, <1>4
<1>8. Begins(p) => n > 0
  <2>1. n = 0 => Wild(p[1]) BY <1>1, <1>2
  <2> QED BY <1>4, <2>1 DEF Begins
<1>9. n > 0 => Static(p) # <<>>
  <2>1. Len(<<>>) = 0 OBVIOUS
  <2> QED BY <1>3, <1>5, <2>1
<1> QED BY <1>3, <1>5, <1>6, <1>7, <1>8, <1>9 DEF Begins

LEMMA KeysBegin ==
  ASSUME NEW T, NEW s \in Seq(T), NEW k \in KeysOf(s)
  PROVE  s # <<>> /\ k # <<>> /\ k[1] = s[1]
<1>1. Len(s) \in Nat OBVIOUS
<1>2. PICK m \in 1..Min({3, Len(s)}) : k = SubSeq(s, 1, m) BY DEF KeysOf
<1>3. m \in Nat /\ m > 0 /\ m <= Len(s) BY <1>1, <1>2, MinThree
<1>4. Len(k) = m /\ k[1] = s[1] BY <1>2, <1>3
<1>5. Len(<<>>) = 0 OBVIOUS
<1> QED BY <1>1, <1>3, <1>4, <1>5

LEMMA ShortKey ==
  ASSUME NEW T, NEW s \in Seq(T), Len(s) > 0
  PROVE  <<s[1]>> \in KeysOf(s)
<1>1. Len(s) \in Nat OBVIOUS
<1>2. 1 \in 1..Min({3, Len(s)}) BY <1>1, MinThree
<1>3. SubSeq(s, 1, 1) = <<s[1]>>
  <2>1. SubSeq(s, 1, 1) = [k \in 1..1 |-> s[k]] BY <1>1
  <2>2. \A k \in 1..1 : k = 1 OBVIOUS
  <2>3. <<s[1]>> = [k \in 1..1 |-> s[1]] OBVIOUS
  <2>4. [k \in 1..1 |-> s[k]] = [k \in 1..1 |-> s[1]] BY <2>2
  <2> QED BY <2>1, <2>3, <2>4
<1> QED BY <1>2, <1>3 DEF KeysOf

\* A route and a call that go together share a key if, and only if, neither
\* begins with a wildcard.
LEMMA KeysMeet ==
  ASSUME NEW r \in Patterns, NEW c \in CallPatterns, r # <<>>, Compatible(r, c)
  PROVE  (\E k \in RouteKeys(r) : k \in CallKeys(c)) <=> Begins(r) /\ Begins(c)
<1>1. r \in Pattern /\ c \in Pattern BY MatchingAssumption DEF Pattern
<1>2. /\ Static(r) \in Seq(Segments \cup {One, Many})
      /\ Static(r) # <<>> => Begins(r) /\ Len(Static(r)) > 0 /\ Static(r)[1] = r[1]
      /\ Begins(r) => Static(r) # <<>>
  BY <1>1, StaticBegins
<1>3. c \in Seq(Segments \cup {One, Many}) BY <1>1 DEF Pattern
<1>4. ASSUME NEW k \in RouteKeys(r), k \in CallKeys(c) PROVE Begins(r) /\ Begins(c)
  <2>1. c # <<>> /\ k # <<>> /\ k[1] = c[1] BY <1>3, <1>4, KeysBegin DEF CallKeys
  <2>2. Static(r) # <<>> /\ k \in KeysOf(Static(r)) BY <2>1 DEF RouteKeys
  <2>3. k[1] = Static(r)[1] BY <1>2, <2>2, KeysBegin
  <2> QED BY <1>2, <2>1, <2>2, <2>3 DEF Begins
<1>5. ASSUME Begins(r), Begins(c) PROVE \E k \in RouteKeys(r) : k \in CallKeys(c)
  <2>1. Len(r) > 0 /\ Len(c) > 0 /\ Len(r) \in Nat /\ Len(c) \in Nat
    BY <1>1, <1>5 DEF Begins, Pattern
  <2>2. Meet(r, c, 1, 1) BY <1>1, CompatibleMeets
  <2>3. 1 \in 1..Len(r) + 1 /\ 1 \in 1..Len(c) + 1 /\ ~(1 > Len(r)) /\ ~(1 > Len(c)) BY <2>1
  <2>4. ~(r[1] = Many \/ c[1] = Many) BY <1>5 DEF Begins, Wild
  <2>5. GoTogether(r, c, 1, 1) BY <1>1, <2>2, <2>3, <2>4, MeetEquation
  <2>6. r[1] = c[1] BY <1>5, <2>5 DEF Begins, GoTogether
  <2>7. <<c[1]>> \in CallKeys(c) BY <1>3, <2>1, ShortKey DEF CallKeys
  <2>8. Static(r) # <<>> /\ Static(r)[1] = r[1] /\ Len(Static(r)) > 0 BY <1>2, <1>5
  <2>9. <<Static(r)[1]>> \in KeysOf(Static(r)) BY <1>2, <2>8, ShortKey
  <2>10. <<c[1]>> \in RouteKeys(r) BY <2>6, <2>8, <2>9 DEF RouteKeys
  <2> QED BY <2>7, <2>10
<1> QED BY <1>4, <1>5

\* So the lookup finds the pairs that neither of which begins with a wildcard.
GivenTypes ==
  /\ given.routes \subseteq Patterns /\ given.calls \subseteq CallPatterns
  /\ given.includes \in Includes \cup {{}}

LEMMA IntersectionHolds == ASSUME GivenTypes PROVE CompatibleIsIntersection
<1>1. \A r \in given.routes, c \in given.calls : r \in Patterns /\ c \in CallPatterns
  BY DEF GivenTypes
<1> QED BY <1>1, IntersectionInWords DEF CompatibleIsIntersection

Meets(r, c) == Begins(r) /\ Begins(c) /\ \E w \in Words : Fits(w, c) /\ Fits(w, r)
LEMMA LookupFinds ==
  ASSUME GivenTypes
  PROVE  /\ MatchedRoutes = {r \in given.routes : \E c \in given.calls : Meets(r, c)}
         /\ MatchedCalls = {c \in given.calls : \E r \in given.routes : Meets(r, c)}
<1>1. ASSUME NEW r \in given.routes, NEW c \in given.calls
      PROVE  /\ r # <<>> /\ c # <<>> /\ (\E k \in RouteKeys(r) : k \in CallKeys(c)) /\ Compatible(r, c)
                  <=> Meets(r, c)
             /\ (\E k \in CallKeys(c) : TRUE) => c # <<>>
  <2>1. r \in Patterns /\ c \in CallPatterns BY DEF GivenTypes
  <2>2. Compatible(r, c) <=> \E w \in Words : Fits(w, c) /\ Fits(w, r)
    BY <2>1, IntersectionInWords
  <2>3. r # <<>> /\ Compatible(r, c) =>
          ((\E k \in RouteKeys(r) : k \in CallKeys(c)) <=> Begins(r) /\ Begins(c))
    BY <2>1, KeysMeet
  <2>4. c \in Seq(Segments \cup {One, Many}) BY <2>1, MatchingAssumption
  <2>5. (\E k \in CallKeys(c) : TRUE) => c # <<>> BY <2>4, KeysBegin DEF CallKeys
  <2> QED BY <2>2, <2>3, <2>5 DEF Meets, Begins
<1>2. \A r \in given.routes :
        (r # <<>> /\ \E k \in RouteKeys(r) : \E c \in CallsUnder(k) : Compatible(r, c))
          <=> \E c \in given.calls : Meets(r, c)
  BY <1>1 DEF CallsUnder
<1>3. \A c \in given.calls :
        (\E k \in CallKeys(c) : \E r \in RoutesUnder(k) : Compatible(r, c))
          <=> \E r \in given.routes : Meets(r, c)
  BY <1>1 DEF RoutesUnder
<1> QED BY <1>2, <1>3 DEF MatchedRoutes, MatchedCalls

-----------------------------------------------------------------------------
(* The ways to the routers, level by level: of the roots and the includes.  *)
Onward(I, x) == {<<e[2], x[2] \o e[3], x[3] + 1>> : e \in {i \in I : i[1] = x[1]}}
Further(I, S) ==
  UNION {{<<e[2], w[2] \o e[3]>> : e \in {i \in I : i[1] = w[1]}} : w \in S}
Begun(R) == {<<s, <<>>>> : s \in R}
AreLevels(R, I, f, n) == f = [d \in 0..n |-> IF d = 0 THEN Begun(R) ELSE Further(I, f[d - 1])]
Levels(R, I) == CHOOSE f : AreLevels(R, I, f, MaxDepth + 1)

LEMMA LevelsExist ==
  ASSUME NEW R, NEW I, NEW top \in Nat PROVE \E f : AreLevels(R, I, f, top)
<1> DEFINE Bad == {n \in Nat : ~\E f : AreLevels(R, I, f, n)}
<1>1. ASSUME Bad # {} PROVE FALSE
  <2>1. PICK n \in Bad : \A m \in Bad : n <= m
    <3>1. Bad \in SUBSET Nat OBVIOUS
    <3> HIDE DEF Bad
    <3> QED BY <1>1, <3>1, FirstOfNumbers
  <2>2. n \in Nat /\ ~\E f : AreLevels(R, I, f, n) OBVIOUS
  <2>3. CASE n = 0
    <3> DEFINE f == [d \in 0..n |-> Begun(R)]
    <3>1. f = [d \in 0..n |-> IF d = 0 THEN Begun(R) ELSE Further(I, f[d - 1])]
      <4>1. \A d \in 0..n : d = 0 BY <2>3
      <4> QED BY <4>1
    <3> QED BY <2>2, <3>1 DEF AreLevels
  <2>4. CASE n # 0
    <3>1. n - 1 \in Nat /\ n - 1 \notin Bad
      <4>1. n - 1 \in Nat /\ ~(n <= n - 1) BY <2>2, <2>4
      <4> HIDE DEF Bad
      <4> QED BY <2>1, <4>1
    <3>2. PICK g : AreLevels(R, I, g, n - 1) BY <3>1
    <3>3. g = [d \in 0 .. n - 1 |-> IF d = 0 THEN Begun(R) ELSE Further(I, g[d - 1])]
      BY <3>2 DEF AreLevels
    <3> DEFINE f == [d \in 0..n |-> IF d = n THEN Further(I, g[n - 1]) ELSE g[d]]
    <3>4. \A d \in 0 .. n - 1 : f[d] = g[d] BY <2>2
    <3>5. f[n] = Further(I, g[n - 1]) BY <2>2
    <3>6. f = [d \in 0..n |-> f[d]] OBVIOUS
    <3> HIDE DEF f
    <3>7. ASSUME NEW d \in 0..n
          PROVE  f[d] = IF d = 0 THEN Begun(R) ELSE Further(I, f[d - 1])
      <4>1. CASE d = n
        <5>1. n - 1 \in 0 .. n - 1 BY <2>2, <2>4
        <5>2. f[d] = Further(I, f[d - 1]) BY <3>4, <3>5, <4>1, <5>1
        <5> QED BY <2>4, <4>1, <5>2
      <4>2. CASE d # n
        <5>1. d \in 0 .. n - 1 BY <2>2, <4>2
        <5>2. g[d] = IF d = 0 THEN Begun(R) ELSE Further(I, g[d - 1]) BY <3>3, <5>1
        <5>3. d # 0 => d - 1 \in 0 .. n - 1 BY <5>1
        <5> QED BY <3>4, <5>1, <5>2, <5>3
      <4> QED BY <4>1, <4>2
    <3>8. AreLevels(R, I, f, n) BY <3>6, <3>7 DEF AreLevels
    <3> QED BY <2>2, <3>8
  <2> QED BY <2>3, <2>4
<1> QED BY <1>1

LEMMA LevelsAre ==
  ASSUME NEW R, NEW I
  PROVE  /\ Levels(R, I)[0] = Begun(R)
         /\ \A d \in 0..MaxDepth : Levels(R, I)[d + 1] = Further(I, Levels(R, I)[d])
<1> DEFINE f == Levels(R, I)
<1>1. MaxDepth \in Nat /\ MaxDepth + 1 \in Nat BY MatchingAssumption
<1>2. AreLevels(R, I, f, MaxDepth + 1) BY <1>1, LevelsExist DEF Levels
<1> HIDE DEF f
<1>3. f = [d \in 0..MaxDepth + 1 |-> IF d = 0 THEN Begun(R) ELSE Further(I, f[d - 1])]
  BY <1>2 DEF AreLevels
<1>4. f[0] = Begun(R)
  <2>1. 0 \in 0..MaxDepth + 1 BY <1>1
  <2> QED BY <1>3, <2>1
<1>5. ASSUME NEW d \in 0..MaxDepth PROVE f[d + 1] = Further(I, f[d])
  <2>1. d + 1 \in 0..MaxDepth + 1 /\ d + 1 # 0 /\ (d + 1) - 1 = d BY <1>1
  <2> QED BY <1>3, <2>1
<1> QED BY <1>4, <1>5 DEF f

\* what ways of a level or another bring to a router
Brings(L, r) ==
  {w[2] : w \in {v \in UNION {L[d] : d \in 0..MaxDepth + 1} : v[1] = r}}
LEMMA WaysAreBrought ==
  ASSUME NEW r PROVE Ways(r) = Brings(Levels(Roots, given.includes), r)
BY DEF Ways, Brings, Levels, AreLevels, Begun, Further

-----------------------------------------------------------------------------
(* What has been in the queue, D, holds what is found.                      *)
Found(D, r) == {x[2] : x \in {y \in D : y[1] = r}}
Queued(R, I, Q, D) ==
  /\ IsFiniteSet(D) /\ Q \subseteq D
  /\ \A x \in D : /\ x = <<x[1], x[2], x[3]>> /\ x[3] \in 0..MaxDepth + 1
                  /\ <<x[1], x[2]>> \in Levels(R, I)[x[3]]
  /\ \A s \in R : <<s, <<>>, 0>> \in D
  /\ \A x \in D \ Q : x[3] <= MaxDepth => Onward(I, x) \subseteq D
KeptOf(f, D) ==
  \A r \in Routers :
    /\ f[r] \subseteq Found(D, r)
    /\ Cardinality(f[r]) = Min({MaxPrefixes, Cardinality(Found(D, r))})

LEMMA MinOfTwo ==
  ASSUME NEW a \in Nat, NEW b \in Nat
  PROVE  Min({a, b}) \in {a, b} /\ Min({a, b}) <= a /\ Min({a, b}) <= b
<1>1. \E x \in {a, b} : \A y \in {a, b} : x <= y OBVIOUS
<1> QED BY <1>1 DEF Min

LEMMA FoundIsFinite ==
  ASSUME NEW D, IsFiniteSet(D), NEW r PROVE IsFiniteSet(Found(D, r))
<1> DEFINE S == {y \in D : y[1] = r}
           f == [y \in S |-> y[2]]
<1>1. IsFiniteSet(S) BY FS_Subset
<1>2. f \in Surjection(S, Found(D, r)) BY DEF Surjection, Found
<1> HIDE DEF S, f
<1> QED BY <1>1, <1>2, FS_Surjection

LEMMA OnwardIsFinite ==
  ASSUME NEW I, IsFiniteSet(I), NEW x PROVE IsFiniteSet(Onward(I, x))
<1> DEFINE S == {i \in I : i[1] = x[1]}
           f == [e \in S |-> <<e[2], x[2] \o e[3], x[3] + 1>>]
<1>1. IsFiniteSet(S) BY FS_Subset
<1>2. f \in Surjection(S, Onward(I, x)) BY DEF Surjection, Onward
<1> HIDE DEF S, f
<1> QED BY <1>1, <1>2, FS_Surjection

\* A router keeps what it can of what it had and of what is new to it.
LEMMA KeepsEnough ==
  ASSUME NEW old, NEW seen, NEW new, IsFiniteSet(seen), IsFiniteSet(new), old \subseteq seen,
         Cardinality(old) = Min({MaxPrefixes, Cardinality(seen)}), NEW S \in Kept(old, new)
  PROVE  /\ S \subseteq seen \cup new
         /\ Cardinality(S) = Min({MaxPrefixes, Cardinality(seen \cup new)})
<1>1. /\ S \subseteq old \cup new /\ old \subseteq S
      /\ Cardinality(S) = Min({MaxPrefixes, Cardinality(old \cup new)})
  BY DEF Kept
<1>2. /\ IsFiniteSet(old) /\ IsFiniteSet(old \cup new) /\ IsFiniteSet(seen \cup new)
      /\ Cardinality(old) <= Cardinality(seen)
      /\ Cardinality(old) = Cardinality(seen) => old = seen
  <2>1. IsFiniteSet(old) BY FS_Subset
  <2> QED BY <2>1, FS_Subset, FS_Union
<1>3. /\ Cardinality(old) \in Nat /\ Cardinality(seen) \in Nat
      /\ Cardinality(old \cup new) \in Nat /\ Cardinality(seen \cup new) \in Nat
  BY <1>2, FS_CardinalityType
<1>4. /\ Cardinality(old) <= Cardinality(old \cup new)
      /\ Cardinality(seen) <= Cardinality(seen \cup new)
  BY <1>2, FS_Subset
<1>5. MaxPrefixes \in Nat BY MatchingAssumption
<1>6. CASE Cardinality(old) = Cardinality(seen) BY <1>1, <1>2, <1>6
<1>7. CASE Cardinality(old) # Cardinality(seen)
  <2> DEFINE a == Cardinality(old)  b == Cardinality(seen)
             c == Cardinality(old \cup new)  d == Cardinality(seen \cup new)
  <2>1. a \in Nat /\ b \in Nat /\ c \in Nat /\ d \in Nat /\ a <= c /\ b <= d /\ a <= b /\ a # b
        /\ a = Min({MaxPrefixes, b}) /\ Cardinality(S) = Min({MaxPrefixes, c})
    BY <1>1, <1>2, <1>3, <1>4, <1>7
  <2> HIDE DEF a, b, c
  <2>2. a = MaxPrefixes BY <1>5, <2>1, MinOfTwo
  <2>3. Min({MaxPrefixes, c}) = MaxPrefixes
    <3>1. Min({MaxPrefixes, c}) \in {MaxPrefixes, c} /\ Min({MaxPrefixes, c}) <= MaxPrefixes
      BY <1>5, <2>1, MinOfTwo
    <3> QED BY <1>5, <2>1, <2>2, <3>1
  <2>4. Min({MaxPrefixes, d}) = MaxPrefixes
    <3> HIDE DEF d
    <3>1. /\ Min({MaxPrefixes, d}) \in {MaxPrefixes, d} /\ Min({MaxPrefixes, d}) <= MaxPrefixes
          /\ Min({MaxPrefixes, d}) <= d
      BY <1>5, <2>1, MinOfTwo
    <3> QED BY <1>5, <2>1, <2>2, <3>1
  <2> QED BY <1>1, <2>1, <2>3, <2>4
<1> QED BY <1>6, <1>7

-----------------------------------------------------------------------------
(* The invariant of the matching, and its steps.                            *)
MatchingInv ==
  /\ GivenTypes /\ done \in BOOLEAN /\ CoverageExplained
  /\ \E D : Queued(Roots, given.includes, queue, D) /\ KeptOf(prefixes, D)

LEMMA RootsAreFinite ==
  ASSUME GivenTypes
  PROVE  /\ IsFiniteSet(given.includes)
         /\ given.includes \subseteq Routers \X Routers \X Seq(Segments)
         /\ IsFiniteSet(Roots)
<1> DEFINE I == given.includes
           from == [e \in I |-> e[1]]
           to == [e \in I |-> e[2]]
           parents == {e[1] : e \in I}
           children == {e[2] : e \in I}
<1>1. IsFiniteSet(I) /\ I \subseteq Routers \X Routers \X Seq(Segments)
  BY MatchingAssumption, FS_EmptySet DEF GivenTypes
<1>2. from \in Surjection(I, parents) /\ to \in Surjection(I, children) BY DEF Surjection
<1> HIDE DEF I, from, to
<1>3. IsFiniteSet(parents) BY <1>1, <1>2, FS_Surjection
<1>4. IsFiniteSet(children) BY <1>1, <1>2, FS_Surjection
<1>5. IsFiniteSet(parents \cup children) BY <1>3, <1>4, FS_Union
<1>6. Roots \subseteq parents \cup children BY DEF Roots, I
<1>7. IsFiniteSet(Roots)
  <2> HIDE DEF parents, children
  <2> QED BY <1>5, <1>6, FS_Subset
<1> QED BY <1>1, <1>7 DEF I

LEMMA MatchingInitEstablishes == MatchingInit => MatchingInv
<1> SUFFICES ASSUME MatchingInit PROVE MatchingInv OBVIOUS
<1>1. GivenTypes /\ done \in BOOLEAN
  <2>1. given \in [routes: {{r} : r \in Patterns}, calls: {{c} : c \in CallPatterns},
                   includes: {{}}]
             \cup [routes: {{}}, calls: {{}}, includes: Includes]
    BY DEF MatchingInit
  <2>2. /\ given.routes \in {{r} : r \in Patterns} \cup {{}}
        /\ given.calls \in {{c} : c \in CallPatterns} \cup {{}}
        /\ given.includes \in {{}} \cup Includes
    BY <2>1
  <2>3. done = FALSE BY DEF MatchingInit
  <2> QED BY <2>2, <2>3 DEF GivenTypes
<1>2. CoverageExplained BY DEF MatchingInit, CoverageExplained
<1> DEFINE f == [r \in Roots |-> <<r, <<>>, 0>>]
<1>3. IsFiniteSet(queue)
  <2>1. queue = {<<r, <<>>, 0>> : r \in Roots} BY DEF MatchingInit
  <2>2. f \in Surjection(Roots, queue) BY <2>1 DEF Surjection
  <2>3. IsFiniteSet(Roots) BY <1>1, RootsAreFinite
  <2> HIDE DEF f
  <2> QED BY <2>2, <2>3, FS_Surjection
<1>4. Queued(Roots, given.includes, queue, queue)
  <2>1. queue = {<<r, <<>>, 0>> : r \in Roots} BY DEF MatchingInit
  <2>2. 0 \in 0..MaxDepth + 1 BY MatchingAssumption
  <2>3. Levels(Roots, given.includes)[0] = Begun(Roots) BY LevelsAre
  <2>4. \A x \in queue : /\ x = <<x[1], x[2], x[3]>> /\ x[3] \in 0..MaxDepth + 1
                         /\ <<x[1], x[2]>> \in Levels(Roots, given.includes)[x[3]]
    <3> SUFFICES ASSUME NEW s \in Roots, NEW x, x = <<s, <<>>, 0>>
                 PROVE  /\ x = <<x[1], x[2], x[3]>> /\ x[3] \in 0..MaxDepth + 1
                        /\ <<x[1], x[2]>> \in Levels(Roots, given.includes)[x[3]]
      BY <2>1
    <3>1. x[1] = s /\ x[2] = <<>> /\ x[3] = 0 OBVIOUS
    <3>2. <<s, <<>>>> \in Begun(Roots) BY DEF Begun
    <3> QED BY <2>2, <2>3, <3>1, <3>2
  <2> QED BY <1>3, <2>1, <2>4 DEF Queued
<1>5. KeptOf(prefixes, queue)
  <2>1. /\ queue = {<<r, <<>>, 0>> : r \in Roots}
        /\ prefixes = [r \in Routers |-> IF r \in Roots THEN {<<>>} ELSE {}]
    BY DEF MatchingInit
  <2> SUFFICES ASSUME NEW r \in Routers
               PROVE  /\ prefixes[r] \subseteq Found(queue, r)
                      /\ Cardinality(prefixes[r]) = Min({MaxPrefixes, Cardinality(Found(queue, r))})
    BY DEF KeptOf
  <2>2. prefixes[r] = Found(queue, r)
    <3>1. \A y \in Found(queue, r) : y = <<>> /\ r \in Roots
      <4>1. ASSUME NEW y \in Found(queue, r) PROVE y = <<>> /\ r \in Roots
        <5>1. PICK x \in queue : x[1] = r /\ y = x[2] BY <4>1 DEF Found
        <5>2. PICK s \in Roots : x = <<s, <<>>, 0>> BY <2>1, <5>1
        <5> QED BY <5>1, <5>2
      <4> QED BY <4>1
    <3>2. ASSUME r \in Roots PROVE <<>> \in Found(queue, r)
      <4>1. PICK x : x = <<r, <<>>, 0>> OBVIOUS
      <4>2. x \in queue /\ x[1] = r /\ x[2] = <<>> BY <2>1, <3>2, <4>1
      <4> QED BY <4>2 DEF Found
    <3>3. prefixes[r] = IF r \in Roots THEN {<<>>} ELSE {} BY <2>1
    <3> QED BY <3>1, <3>2, <3>3
  <2>3. Cardinality(Found(queue, r)) \in {0, 1}
    <3>1. prefixes[r] \in {{}, {<<>>}} BY <2>1
    <3>2. Cardinality({}) = 0 BY FS_EmptySet
    <3>3. Cardinality({<<>>}) = 1 BY FS_Singleton
    <3> QED BY <2>2, <3>1, <3>2, <3>3
  <2> DEFINE n == Cardinality(Found(queue, r))
  <2>4. Min({MaxPrefixes, n}) = n
    <3>1. n \in Nat /\ MaxPrefixes \in Nat /\ n <= MaxPrefixes BY <2>3, MatchingAssumption
    <3> HIDE DEF n
    <3> QED BY <3>1, MinOfTwo
  <2> QED BY <2>2, <2>4
<1> QED BY <1>1, <1>2, <1>4, <1>5 DEF MatchingInv

LEMMA FollowKeeps ==
  ASSUME MatchingInv, Follow PROVE MatchingInv'
<1> DEFINE I == given.includes
           R == Roots
           L == Levels(R, I)
<1>1. given' = given /\ done' = done /\ matched' = matched BY DEF Follow
<1>2. GivenTypes' /\ done' \in BOOLEAN /\ CoverageExplained'
  BY <1>1 DEF MatchingInv, GivenTypes, CoverageExplained
<1>3. Roots' = Roots BY <1>1 DEF Roots
<1>4. PICK D : Queued(R, I, queue, D) /\ KeptOf(prefixes, D) BY DEF MatchingInv
<1>5. IsFiniteSet(I) BY RootsAreFinite DEF MatchingInv
<1>6. PICK q \in queue :
        IF q[3] > MaxDepth THEN queue' = queue \ {q} /\ UNCHANGED prefixes
        ELSE /\ queue' = (queue \ {q}) \cup Onward(I, q)
             /\ LET Keeps(r) == Kept(prefixes[r], {n[2] : n \in {m \in Onward(I, q) : m[1] = r}}) IN
                  prefixes' \in {f \in [Routers -> UNION {Keeps(r) : r \in Routers}] :
                                   \A r \in Routers : f[r] \in Keeps(r)}
  BY DEF Follow, Onward
<1>7. /\ IsFiniteSet(D) /\ queue \subseteq D
      /\ \A x \in D : /\ x = <<x[1], x[2], x[3]>> /\ x[3] \in 0..MaxDepth + 1
                      /\ <<x[1], x[2]>> \in L[x[3]]
      /\ \A s \in R : <<s, <<>>, 0>> \in D
      /\ \A x \in D \ queue : x[3] <= MaxDepth => Onward(I, x) \subseteq D
  BY <1>4 DEF Queued
<1>8. q \in D /\ q[3] \in 0..MaxDepth + 1 /\ <<q[1], q[2]>> \in L[q[3]] BY <1>6, <1>7
<1>9. MaxDepth \in Nat BY MatchingAssumption
<1>10. CASE q[3] > MaxDepth
  <2>1. queue' = queue \ {q} /\ prefixes' = prefixes BY <1>6, <1>10
  <2>2. ~(q[3] <= MaxDepth) BY <1>8, <1>9, <1>10
  <2>3. Queued(R, I, queue', D)
    <3> HIDE DEF I, R, L
    <3>1. \A x \in D \ queue' : x[3] <= MaxDepth => Onward(I, x) \subseteq D BY <1>7, <2>1, <2>2
    <3>2. queue' \subseteq D BY <1>7, <2>1
    <3> QED BY <1>7, <3>1, <3>2 DEF Queued, L
  <2>4. KeptOf(prefixes', D) BY <1>4, <2>1
  <2> QED BY <1>1, <1>2, <1>3, <2>3, <2>4 DEF MatchingInv
<1>11. CASE ~(q[3] > MaxDepth)
  <2> DEFINE Fresh == Onward(I, q)
             E == D \cup Fresh
  <2>1. /\ queue' = (queue \ {q}) \cup Fresh
        /\ \A r \in Routers : prefixes'[r] \in Kept(prefixes[r], {n[2] : n \in {m \in Fresh : m[1] = r}})
    BY <1>6, <1>11
  <2>2. q[3] \in 0..MaxDepth BY <1>8, <1>9, <1>11
  <2>3. IsFiniteSet(Fresh) /\ IsFiniteSet(E)
    <3>1. IsFiniteSet(Fresh) BY <1>5, OnwardIsFinite
    <3> HIDE DEF Fresh
    <3> QED BY <1>7, <3>1, FS_Union
  <2>4. \A x \in Fresh : /\ x = <<x[1], x[2], x[3]>> /\ x[3] \in 0..MaxDepth + 1
                     /\ <<x[1], x[2]>> \in L[x[3]]
    <3> SUFFICES ASSUME NEW e \in I, e[1] = q[1], NEW x, x = <<e[2], q[2] \o e[3], q[3] + 1>>
                 PROVE  /\ x = <<x[1], x[2], x[3]>> /\ x[3] \in 0..MaxDepth + 1
                        /\ <<x[1], x[2]>> \in L[x[3]]
      BY DEF Onward
    <3>1. x[1] = e[2] /\ x[2] = q[2] \o e[3] /\ x[3] = q[3] + 1 OBVIOUS
    <3>2. q[3] + 1 \in 0..MaxDepth + 1 BY <1>9, <2>2
    <3>3. L[q[3] + 1] = Further(I, L[q[3]]) BY <2>2, LevelsAre
    <3>4. <<e[2], q[2] \o e[3]>> \in Further(I, L[q[3]])
      <4> DEFINE w == <<q[1], q[2]>>
      <4>1. w \in L[q[3]] /\ w[1] = q[1] /\ w[2] = q[2] BY <1>8
      <4> HIDE DEF w, L, I
      <4>2. e \in {i \in I : i[1] = w[1]} BY <4>1
      <4>3. <<e[2], w[2] \o e[3]>> \in {<<a[2], w[2] \o a[3]>> : a \in {i \in I : i[1] = w[1]}}
        BY <4>2
      <4>4. <<e[2], w[2] \o e[3]>> \in Further(I, L[q[3]]) BY <4>1, <4>3 DEF Further
      <4> QED BY <4>1, <4>4
    <3> HIDE DEF L, I
    <3> QED BY <3>1, <3>2, <3>3, <3>4
  <2>5. Queued(R, I, queue', E)
    <3>1. queue' \subseteq E BY <1>7, <2>1
    <3>2. \A x \in E \ queue' : x[3] <= MaxDepth => Onward(I, x) \subseteq E
      <4> HIDE DEF R, L
      <4>1. \A x \in E \ queue' : x \in D \ queue \/ x = q BY <2>1
      <4> QED BY <1>7, <4>1
    <3>3. \A x \in E : /\ x = <<x[1], x[2], x[3]>> /\ x[3] \in 0..MaxDepth + 1
                       /\ <<x[1], x[2]>> \in L[x[3]]
      <4> HIDE DEF L, Fresh
      <4> QED BY <1>7, <2>4
    <3>4. \A s \in R : <<s, <<>>, 0>> \in E BY <1>7
    <3> HIDE DEF E, R, I
    <3> QED BY <2>3, <3>1, <3>2, <3>3, <3>4 DEF Queued, L
  <2>6. KeptOf(prefixes', E)
    <3> SUFFICES ASSUME NEW r \in Routers
                 PROVE  /\ prefixes'[r] \subseteq Found(E, r)
                        /\ Cardinality(prefixes'[r]) = Min({MaxPrefixes, Cardinality(Found(E, r))})
      BY DEF KeptOf
    <3>1. prefixes'[r] \in Kept(prefixes[r], Found(Fresh, r)) BY <2>1 DEF Found
    <3>2. Found(E, r) = Found(D, r) \cup Found(Fresh, r) BY DEF Found
    <3>3. IsFiniteSet(Found(D, r)) /\ IsFiniteSet(Found(Fresh, r)) BY <1>7, <2>3, FoundIsFinite
    <3>4. /\ prefixes[r] \subseteq Found(D, r)
          /\ Cardinality(prefixes[r]) = Min({MaxPrefixes, Cardinality(Found(D, r))})
      BY <1>4 DEF KeptOf
    <3> HIDE DEF E, Fresh
    <3> QED BY <3>1, <3>2, <3>3, <3>4, KeepsEnough
  <2> HIDE DEF E
  <2> QED BY <1>1, <1>2, <1>3, <2>5, <2>6 DEF MatchingInv
<1> QED BY <1>10, <1>11

LEMMA MatchKeeps ==
  ASSUME MatchingInv, Match PROVE MatchingInv'
<1>1. /\ given' = given /\ queue' = queue /\ prefixes' = prefixes /\ done' = TRUE
      /\ matched' = [routes |-> MatchedRoutes, calls |-> MatchedCalls]
  BY DEF Match
<1>2. GivenTypes' BY <1>1 DEF MatchingInv, GivenTypes
<1>3. Roots' = Roots BY <1>1 DEF Roots
<1>4. CoverageExplained'
  <2>1. /\ MatchedRoutes = {r \in given.routes : \E c \in given.calls : Meets(r, c)}
        /\ MatchedCalls = {c \in given.calls : \E r \in given.routes : Meets(r, c)}
    BY LookupFinds DEF MatchingInv
  <2>2. /\ matched'.routes = {r \in given'.routes : \E c \in given'.calls : Meets(r, c)}
        /\ matched'.calls = {c \in given'.calls : \E r \in given'.routes : Meets(r, c)}
    BY <1>1, <2>1
  <2> QED BY <2>2 DEF CoverageExplained, Meets, Begins
<1> QED BY <1>1, <1>2, <1>3, <1>4 DEF MatchingInv

LEMMA MatchingPreserved == MatchingInv /\ [MatchingNext]_apiVars => MatchingInv'
<1> SUFFICES ASSUME MatchingInv, [MatchingNext]_apiVars PROVE MatchingInv' OBVIOUS
<1>1. CASE Follow BY <1>1, FollowKeeps
<1>2. CASE Match BY <1>2, MatchKeeps
<1>3. CASE UNCHANGED apiVars
  <2>1. /\ given' = given /\ queue' = queue /\ prefixes' = prefixes /\ done' = done
        /\ matched' = matched
    BY <1>3 DEF apiVars
  <2>2. Roots' = Roots BY <2>1 DEF Roots
  <2> QED BY <2>1, <2>2 DEF MatchingInv, GivenTypes, CoverageExplained
<1> QED BY <1>1, <1>2, <1>3 DEF MatchingNext, Matched

\* With nothing left to go on from, all ways have been gone.
LEMMA AllWaysGone ==
  ASSUME NEW R, NEW I, NEW D, Queued(R, I, {}, D), NEW r
  PROVE  Brings(Levels(R, I), r) = Found(D, r)
<1> DEFINE L == Levels(R, I)
           Gone(d) == \A w \in L[d] : <<w[1], w[2], d>> \in D
           Bad == {d \in 0..MaxDepth + 1 : ~Gone(d)}
<1>1. MaxDepth \in Nat BY MatchingAssumption
<1>2. L[0] = Begun(R) /\ \A d \in 0..MaxDepth : L[d + 1] = Further(I, L[d]) BY LevelsAre
<1>3. /\ \A x \in D : /\ x = <<x[1], x[2], x[3]>> /\ x[3] \in 0..MaxDepth + 1
                      /\ <<x[1], x[2]>> \in L[x[3]]
      /\ \A s \in R : <<s, <<>>, 0>> \in D
      /\ \A x \in D : x[3] <= MaxDepth => Onward(I, x) \subseteq D
  BY DEF Queued
<1> HIDE DEF L
<1>4. ASSUME Bad # {} PROVE FALSE
  <2>1. PICK d \in Bad : \A m \in Bad : d <= m
    <3>1. Bad \in SUBSET Nat BY <1>1
    <3> HIDE DEF Bad
    <3> QED BY <1>4, <3>1, FirstOfNumbers
  <2>2. d \in 0..MaxDepth + 1 /\ ~Gone(d) OBVIOUS
  <2>3. CASE d = 0
    <3>1. \A w \in Begun(R) : \E s \in R : w[1] = s /\ w[2] = <<>> BY DEF Begun
    <3> QED BY <1>2, <1>3, <2>2, <2>3, <3>1
  <2>4. CASE d # 0
    <3> DEFINE c == d - 1
    <3>1. c \in 0..MaxDepth /\ c + 1 = d /\ c \in 0..MaxDepth + 1 /\ ~(d <= c)
      BY <1>1, <2>2, <2>4
    <3> HIDE DEF c
    <3>2. Gone(c)
      <4>1. c \notin Bad
        <5> HIDE DEF Bad
        <5> QED BY <2>1, <3>1
      <4> QED BY <3>1, <4>1
    <3>3. ASSUME NEW v \in Further(I, L[c]) PROVE <<v[1], v[2], d>> \in D
      <4>1. PICK w \in L[c] : \E e \in {i \in I : i[1] = w[1]} : v = <<e[2], w[2] \o e[3]>>
        BY <3>3 DEF Further
      <4>2. PICK e \in I : e[1] = w[1] /\ v = <<e[2], w[2] \o e[3]>> BY <4>1
      <4>3. PICK x : x = <<w[1], w[2], c>> OBVIOUS
      <4>4. x \in D /\ x[1] = w[1] /\ x[2] = w[2] /\ x[3] = c BY <3>2, <4>1, <4>3
      <4>5. x[3] <= MaxDepth BY <1>1, <3>1, <4>4
      <4>6. <<e[2], x[2] \o e[3], x[3] + 1>> \in Onward(I, x) BY <4>2, <4>4 DEF Onward
      <4>7. <<e[2], w[2] \o e[3], d>> \in D BY <1>3, <3>1, <4>4, <4>5, <4>6
      <4> QED BY <4>2, <4>7
    <3>4. Gone(d) BY <1>2, <3>1, <3>3
    <3> QED BY <2>2, <3>4
  <2> QED BY <2>3, <2>4
<1>5. \A d \in 0..MaxDepth + 1 : Gone(d) BY <1>4
<1>6. ASSUME NEW y \in Found(D, r) PROVE y \in Brings(L, r)
  <2>1. PICK x \in D : x[1] = r /\ y = x[2] BY <1>6 DEF Found
  <2>2. PICK v : v = <<x[1], x[2]>> OBVIOUS
  <2>3. v \in L[x[3]] /\ x[3] \in 0..MaxDepth + 1 /\ v[1] = r /\ y = v[2] BY <1>3, <2>1, <2>2
  <2> QED BY <2>3 DEF Brings
<1>7. ASSUME NEW y \in Brings(L, r) PROVE y \in Found(D, r)
  <2>0. PICK v : v \in UNION {L[d] : d \in 0..MaxDepth + 1} /\ v[1] = r /\ y = v[2]
    BY <1>7 DEF Brings
  <2>1. PICK d \in 0..MaxDepth + 1 : v \in L[d] /\ v[1] = r /\ y = v[2] BY <2>0
  <2>2. PICK x : x = <<v[1], v[2], d>> OBVIOUS
  <2>3. x \in D /\ x[1] = r /\ y = x[2] BY <1>5, <2>1, <2>2
  <2> QED BY <2>3 DEF Found
<1> QED BY <1>6, <1>7 DEF L

LEMMA MatchingInvExplains == MatchingInv => MatchingExplained
<1> SUFFICES ASSUME MatchingInv PROVE MatchingExplained OBVIOUS
<1>1. CompatibleIsIntersection BY IntersectionHolds DEF MatchingInv
<1>2. CoverageExplained BY DEF MatchingInv
<1>3. PrefixesAreWays
  <2> SUFFICES ASSUME queue = {}, NEW r \in Routers
               PROVE  /\ prefixes[r] \subseteq Ways(r)
                      /\ Cardinality(prefixes[r]) = Min({MaxPrefixes, Cardinality(Ways(r))})
    BY DEF PrefixesAreWays
  <2>1. PICK D : Queued(Roots, given.includes, {}, D) /\ KeptOf(prefixes, D) BY DEF MatchingInv
  <2>2. Ways(r) = Found(D, r) BY <2>1, AllWaysGone, WaysAreBrought
  <2>3. /\ prefixes[r] \subseteq Found(D, r)
        /\ Cardinality(prefixes[r]) = Min({MaxPrefixes, Cardinality(Found(D, r))})
    BY <2>1 DEF KeptOf
  <2> QED BY <2>2, <2>3
<1> QED BY <1>1, <1>2, <1>3 DEF MatchingExplained

\* For any patterns, and any graph of includes: two patterns are taken to go
\* together exactly when some path fits both; the lookup by first segments
\* loses only what begins with a wildcard; and a router has the prefixes of the
\* ways to it from the roots, or as many as are kept (_match_api_coverage_cpu,
\* _compute_prefix_map_cpu, patterns_compatible).
THEOREM MatchingAlwaysExplained == MatchingSpec => []MatchingExplained
<1>1. MatchingInit => MatchingInv BY MatchingInitEstablishes
<1>2. MatchingInv /\ [MatchingNext]_apiVars => MatchingInv' BY MatchingPreserved
<1>3. MatchingInv => MatchingExplained BY MatchingInvExplains
<1> QED BY <1>1, <1>2, <1>3, PTL DEF MatchingSpec

-----------------------------------------------------------------------------
(* The services together.                                                  *)

\* A step of the whole is a step of one part and leaves the others alone.
LEMMA ServicesTakeTurns ==
  ASSUME [ServicesNext]_servicesVars
  PROVE  /\ [Next]_foundingVars /\ [RateNext]_rateVars /\ [CachesNext]_cacheVars
         /\ [RoutingNext]_routingVars /\ [MetricsNext]_graphVars
         /\ [ImportsNext]_resolveVars /\ [MatchingNext]_apiVars
<1>1. CASE UNCHANGED servicesVars BY <1>1 DEF servicesVars
<1>2. CASE ServicesNext BY <1>2 DEF ServicesNext
<1> QED BY <1>1, <1>2

LEMMA ServicesAreParts ==
  ServicesSpec => /\ Spec /\ RateSpec /\ CachesSpec /\ RoutingSpec /\ MetricsSpec
                  /\ ImportsSpec /\ MatchingSpec
<1>1. ServicesInit => /\ Init /\ RateInit /\ CachesInit /\ RoutingInit /\ MetricsInit
                      /\ ImportsInit /\ MatchingInit
  BY DEF ServicesInit
<1> QED BY <1>1, ServicesTakeTurns, PTL
        DEF ServicesSpec, Spec, RateSpec, CachesSpec, RoutingSpec, MetricsSpec, ImportsSpec,
            MatchingSpec

\* The first account (auth_service.py), the limiter (rate_limit.py), the caches, routing and the
\* metrics keep their types side by side.
THEOREM ServicesTypesHold == ServicesSpec => []ServicesTypeOK
<1>1. /\ RateSpec => []RateTypeOK
      /\ CachesSpec => []CachesTypeOK
  BY PartsAssumption, CachesAssumption, RateTypeCorrect, CachesTypeCorrect
<1>2. TypeOK /\ RateTypeOK /\ CachesTypeOK /\ RoutingTypeOK /\ MetricsTypeOK => ServicesTypeOK
  BY DEF ServicesTypeOK
<1> QED BY <1>1, <1>2, ServicesAreParts, FoundingTypeCorrect, RoutingTypeCorrect,
           MetricsTypeCorrect, PTL

\* What holds of each service alone holds of them side by side: one founding, the limit, caches,
\* models, metrics, imports and matches that are right or explained.
THEOREM ServicesHold ==
  ServicesSpec => [](/\ FoundingSound /\ LimitHolds /\ CachesExplained /\ RoutingExplained
                     /\ MetricsExplained /\ ImportsExplained /\ MatchingExplained)
<1>1. /\ RateSpec => []LimitHolds
      /\ CachesSpec => []CachesExplained
  BY PartsAssumption, CachesAssumption, LimitAlwaysHolds, CachesAlwaysExplained
<1> QED BY <1>1, ServicesAreParts, FoundedOnce, RoutingAlwaysExplained, MetricsAlwaysExplained,
           ImportsAlwaysExplained, MatchingAlwaysExplained, PTL
=============================================================================
