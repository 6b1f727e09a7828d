------------------------------ MODULE RateLimit -------------------------------
(***************************************************************************)
(* The rate limit of requests (infra/rate_limit.py): a script counts in    *)
(* Redis, called by its hash; Redis may forget the script, and may answer  *)
(* late, not at all, or after it has counted.                              *)
(***************************************************************************)
EXTENDS Naturals, FiniteSets

CONSTANTS
  Clients,      \* request to [client, proxied, says]: who connects, and for whom
  Limit,        \* rate_limit_requests_per_minute
  MaxWindows    \* bound: windows that pass

Asking == DOMAIN Clients

\* what the constants have to be; assumed where the module is instantiated
RateAssumption ==
  /\ IsFiniteSet(Asking) /\ \A r \in Asking : Clients[r].client \in Asking
  /\ Limit \in Nat /\ MaxWindows \in Nat

VARIABLES
  at,           \* where a request is
  shaKnown,     \* the process knows the hash of the script
  scriptLoaded, \* Redis has the script
  counted,      \* client to the requests counted in its window
  window        \* windows passed, and the window in which a request was counted

rateVars == <<at, shaKnown, scriptLoaded, counted, window>>

RateInit ==
  /\ at = [r \in Asking |-> "start"] /\ shaKnown = FALSE /\ scriptLoaded \in BOOLEAN
  /\ counted = [r \in Asking |-> 0]
  /\ window = [now |-> 0, of |-> [r \in Asking |-> 0]]

\* _client_id: X-Forwarded-For counts only from a trusted proxy, if it is an address
Id(r) ==
  LET q == Clients[r] IN
  IF q.proxied /\ q.says \in Asking THEN q.says ELSE q.client

\* _get_rate_limit_lua_sha, under its lock
LoadScript(r) ==
  /\ at[r] = "start" /\ ~shaKnown
  /\ shaKnown' = TRUE /\ scriptLoaded' = TRUE
  /\ UNCHANGED <<at, counted, window>>
\* Mutant: the limit is compared with the count before this request.
AnswerBefore(r, n) == at' = [at EXCEPT ![r] = IF n - 1 <= Limit THEN "allowed" ELSE "refused"]
Answer(r, n) == at' = [at EXCEPT ![r] = IF n <= Limit THEN "allowed" ELSE "refused"]
Count(r) ==
  /\ counted' = [counted EXCEPT ![Id(r)] = @ + 1]
  /\ window' = [window EXCEPT !.of[r] = window.now]
\* _run_rate_limit_increment: evalsha, and eval when the script is unknown
EvalSha(r) ==
  /\ at[r] = "start" /\ shaKnown
  /\ IF scriptLoaded THEN Count(r) /\ Answer(r, counted[Id(r)] + 1)
     ELSE at' = [at EXCEPT ![r] = "no_script"] /\ UNCHANGED <<counted, window>>
  /\ UNCHANGED <<shaKnown, scriptLoaded>>
Eval(r) ==
  /\ at[r] = "no_script"
  /\ Count(r) /\ Answer(r, counted[Id(r)] + 1)
  /\ scriptLoaded' = TRUE /\ shaKnown' = TRUE
\* allow_request_async: without an answer the request is refused, counted or not
NoAnswer(r) ==
  /\ at[r] \in {"start", "no_script"}
  /\ at' = [at EXCEPT ![r] = "refused"]
  /\ (shaKnown /\ (scriptLoaded \/ at[r] = "no_script") /\ Count(r)) \/ UNCHANGED <<counted, window>>
  /\ UNCHANGED <<shaKnown, scriptLoaded>>
\* Redis forgets its scripts; the key of a client expires, a minute after its first
ScriptsFlushed ==
  /\ scriptLoaded /\ scriptLoaded' = FALSE /\ UNCHANGED <<at, shaKnown, counted, window>>
WindowPasses ==
  /\ window.now < MaxWindows
  /\ window' = [window EXCEPT !.now = @ + 1]
  /\ counted' = [r \in Asking |-> 0]
  /\ UNCHANGED <<at, shaKnown, scriptLoaded>>
AllAnswered == (\A r \in Asking : at[r] \in {"allowed", "refused"}) /\ UNCHANGED rateVars

RateNext ==
  \/ \E r \in Asking : LoadScript(r) \/ EvalSha(r) \/ Eval(r) \/ NoAnswer(r)
  \/ ScriptsFlushed \/ WindowPasses \/ AllAnswered
RateSpec == RateInit /\ [][RateNext]_rateVars

-----------------------------------------------------------------------------
RateTypeOK ==
  /\ at \in [Asking -> {"start", "no_script", "allowed", "refused"}]
  /\ shaKnown \in BOOLEAN /\ scriptLoaded \in BOOLEAN
  /\ counted \in [Asking -> Nat] /\ window.now \in 0..MaxWindows

\* In one window a client is allowed no more requests than the limit, also when
\* the script has to be sent again and answers are lost (rate_limit.py:58-69,
\* 127-139).
LimitHolds ==
  \A c \in Asking, w \in 0..MaxWindows :
    Cardinality({r \in Asking : at[r] = "allowed" /\ Id(r) = c /\ window.of[r] = w}) <= Limit
=============================================================================
