------------------------------ MODULE Routing ------------------------------
(***************************************************************************)
(* Which model a task run asks, and the call itself.                       *)
(*                                                                         *)
(* A periodic calibration derives, from the telemetry of recent stages,    *)
(* the thresholds of complexity at which a stronger model is taken and the *)
(* weights of the telemetry score, and stores each under its own key of    *)
(* the cache, all at once (services/routing_calibration_service.py).  A    *)
(* run reads the thresholds for its fallback policy, the weights and the   *)
(* thresholds again for the selection by telemetry, and the thresholds     *)
(* once more when a self check that failed makes it ask again              *)
(* (llm/policy.py, llm/routing_selector.py, services/task_service.py).     *)
(*                                                                         *)
(* Complexities, thresholds, weights and metrics are thousandths; rounding *)
(* is downward.  The bonuses for complexity and prompt are the same for    *)
(* every model of a stage: they change no order and no distance.           *)
(***************************************************************************)
EXTENDS Integers, Sequences, FiniteSets

CONSTANTS Calibrators, Tasks,
          Windows,        \* telemetry a calibration may find: sequences of rows
          MinSamples, MaxCalibrations,
          Defaults,       \* the configured thresholds: <<low, mid, high>>
          BaseWeights,    \* the configured weights: <<quality, latency, tokens, fails>>
          Profile,        \* the configured SLA profile
          Profiles,       \* the profiles a calibration writes: four in the code
          Pools,          \* [triage, analysis, patch]: sequences of models, weakest first
          Stats,          \* model -> <<quality, latency, tokens, fails>>
          Confidence,     \* below it the selection by telemetry is dropped
          Requests,       \* records [fix, complexity, prompt, nodes]
          MaxPrompt,
          Versions,       \* sets of parameters a version of the client does not know
          None            \* nothing: a model value

VARIABLES stored,         \* the cache: key -> value or None
          todo,           \* calibrator -> entries it is storing
          made,           \* calibrations so far (a bound)
          lacks,          \* parameters the installed client does not know
          run             \* task -> its run

routingVars == <<stored, todo, made, lacks, run>>

StoredKeys == {"thresholds"} \union Profiles
AtLeast(x, y) == IF x >= y THEN x ELSE y
AtMost(x, y) == IF x <= y THEN x ELSE y
Clamp(x, lo, hi) == AtLeast(lo, AtMost(hi, x))
Total(w) == w[1] + w[2] + w[3] + w[4]
Largest(rows, field) == IF rows = <<>> THEN 0
                        ELSE CHOOSE v \in {rows[i][field] : i \in 1..Len(rows)} :
                               \A i \in 1..Len(rows) : rows[i][field] <= v

----------------------------------------------------------------------------
(* The calibration.  A row has the numbers failed, retried and unsure (0 or *)
(* 1), and latency and tokens; in windows this short the percentiles are   *)
(* the largest value.                                                      *)

CountOf(rows, field) == Cardinality({i \in 1..Len(rows) : rows[i][field] > 0})

(* Mutant: a threshold is not kept above the one before it.                *)
ThresholdsApart(rows) ==
  LET q == ((CountOf(rows, "failed") + CountOf(rows, "retried") + CountOf(rows, "unsure")) * 1000)
             \div AtLeast(1, Len(rows))
      l == Clamp((Largest(rows, "latency") - 4000) \div 6, 0, 1000)
  IN  <<Clamp(Defaults[1] + (80 * q - 40 * l) \div 1000, 1000, 2000),
        Clamp(Defaults[2] + (100 * q - 60 * l) \div 1000, 1000, 2000),
        Clamp(Defaults[3] + (120 * q - 80 * l) \div 1000, 1000, 2000)>>

Thresholds(rows) ==
  LET q == ((CountOf(rows, "failed") + CountOf(rows, "retried") + CountOf(rows, "unsure")) * 1000)
             \div AtLeast(1, Len(rows))
      l == Clamp((Largest(rows, "latency") - 4000) \div 6, 0, 1000)
      low == Clamp(Defaults[1] + (80 * q - 40 * l) \div 1000, 1000, 2000)
      mid == Clamp(Defaults[2] + (100 * q - 60 * l) \div 1000, low, 2000)
      high == Clamp(Defaults[3] + (120 * q - 80 * l) \div 1000, mid, 2000)
  IN  IF rows = <<>> THEN Defaults ELSE <<low, mid, high>>

Normal(w) == IF (\E i \in 1..4 : w[i] < 0) \/ Total(w) = 0 THEN <<400, 250, 200, 150>>
             ELSE [i \in 1..4 |-> (w[i] * 1000) \div Total(w)]

Weights(rows) ==
  LET n == AtLeast(1, Len(rows))
      fails == (CountOf(rows, "failed") * 1000) \div n
      again == (CountOf(rows, "retried") * 500) \div n
      unsure == (CountOf(rows, "unsure") * 1000) \div n
      q == (5 * fails + 3 * unsure + 2 * again) \div 10
      l == Clamp((Largest(rows, "latency") - 2000) \div 8, 0, 1000)
      t == Clamp((Largest(rows, "tokens") - 2000) \div 8, 0, 1000)
      base == Normal(BaseWeights)
  IN  Normal(<<AtLeast(0, base[1] + (200 * q - 25 * (l + t)) \div 1000),
               AtLeast(0, base[2] + (220 * l - 40 * q) \div 1000),
               AtLeast(0, base[3] + (220 * t - 30 * q) \div 1000),
               base[4] + (180 * ((65 * fails + 35 * again) \div 100)) \div 1000>>)

Biased(w, profile) ==
  CASE profile = "fast"    -> <<w[1], (w[2] * 135) \div 100, (w[3] * 9) \div 10, w[4]>>
    [] profile = "cheap"   -> <<(w[1] * 9) \div 10, w[2], (w[3] * 14) \div 10, w[4]>>
    [] profile = "quality" -> <<(w[1] * 14) \div 10, (w[2] * 9) \div 10, w[3], w[4]>>
    [] OTHER               -> w

Entries(rows) == {<<"thresholds", Thresholds(rows)>>} \union
                 {<<p, Normal(Biased(Weights(rows), p))>> : p \in Profiles}

Calibrate(k, rows) ==
  /\ todo[k] = {} /\ made < MaxCalibrations
  /\ Len(rows) >= MinSamples
  /\ todo' = [todo EXCEPT ![k] = Entries(rows)]
  /\ made' = made + 1
  /\ UNCHANGED <<stored, lacks, run>>

(* The writes are gathered: one that fails leaves the others under way.    *)
Store(k, e) ==
  /\ todo' = [todo EXCEPT ![k] = @ \ {e}]
  /\ stored' = [stored EXCEPT ![e[1]] = e[2]]
  /\ UNCHANGED <<made, lacks, run>>

StoreFails(k, e) ==
  /\ todo' = [todo EXCEPT ![k] = @ \ {e}]
  /\ UNCHANGED <<stored, made, lacks, run>>

ExpireStored(key) ==
  /\ stored[key] # None
  /\ stored' = [stored EXCEPT ![key] = None]
  /\ UNCHANGED <<todo, made, lacks, run>>

----------------------------------------------------------------------------
(* The policy by thresholds.                                               *)

Accepted(t) == 1000 <= t[1] /\ t[1] <= t[2] /\ t[2] <= t[3] /\ t[3] <= 2000

(* The configuration is refused when its thresholds are not in order, or no *)
(* sample is enough (config.py:491, 497); a pool that names no model is the *)
(* setting itself (policy.py:94), and a profile that is not known is one    *)
(* that is (routing_weights.py:12).                                         *)
ASSUME RoutingAssumption ==
  /\ Defaults \in [1..3 -> Int] /\ Accepted(Defaults)
  /\ MinSamples \in Nat \ {0}
  /\ Windows \subseteq Seq([failed: Nat, retried: Nat, unsure: Nat, latency: Nat, tokens: Nat])
  /\ Requests \subseteq [fix: BOOLEAN, complexity: Nat, prompt: Nat, nodes: Nat]
  /\ \A stage \in {"triage", "analysis", "patch"} : Len(Pools[stage]) \in Nat \ {0}
  /\ "thresholds" \notin Profiles /\ Profile \in Profiles
  /\ BaseWeights \in [1..4 -> Int]
  /\ IsFiniteSet(DOMAIN Stats) /\ Stats \in [DOMAIN Stats -> [1..4 -> Int]]

(* What a read of the thresholds gives: the cache may not answer.          *)
ReadThresholds ==
  {Defaults} \union
  (IF stored["thresholds"] = None \/ ~Accepted(stored["thresholds"]) THEN {}
   ELSE {stored["thresholds"]})

ReadWeights == {Normal(BaseWeights)} \union
               (IF stored[Profile] = None THEN {} ELSE {Normal(stored[Profile])})

Rank(pool, complexity, t) ==
  CASE Len(pool) = 1 -> 1
    [] Len(pool) = 2 -> IF complexity >= t[2] THEN 2 ELSE 1
    [] OTHER -> IF complexity >= t[3] THEN Len(pool)
                ELSE IF complexity >= t[1] THEN 2 ELSE 1

PromptFactor(prompt) == AtMost(1000, (prompt * 1000) \div MaxPrompt)

VerifierEffort(r, complexity, t) ==
  IF r.fix /\ (complexity >= t[3] \/ PromptFactor(r.prompt) >= 800) THEN "high"
  ELSE IF complexity >= t[1] THEN "medium" ELSE "low"

Policy(r, t) ==
  LET complexity == Clamp(r.complexity + (IF r.fix THEN 150 ELSE 0), 1000, 2000)
  IN  [triage   |-> Rank(Pools.triage, 1000 + PromptFactor(r.prompt), t),
       analysis |-> Rank(Pools.analysis, complexity, t),
       patch    |-> Rank(Pools.patch, complexity, t),
       verifier |-> Rank(Pools.analysis, AtMost(t[2], complexity), t),
       effort   |-> VerifierEffort(r, complexity, t)]

----------------------------------------------------------------------------
(* The selection by telemetry.                                             *)

Spread(value, i) ==
  LET all == {Stats[m][i] : m \in DOMAIN Stats}
      lo == CHOOSE v \in all : \A u \in all : v <= u
      hi == CHOOSE v \in all : \A u \in all : v >= u
  IN  IF hi <= lo THEN 500 ELSE ((value - lo) * 1000) \div (hi - lo)

Score(m, w) == (Clamp(Stats[m][1], 0, 1000) * w[1] + (1000 - Spread(Stats[m][2], 2)) * w[2]
                + (1000 - Spread(Stats[m][3], 3)) * w[3]
                + (1000 - Clamp(Stats[m][4], 0, 1000)) * w[4]) \div 1000

(* The best model of a pool and by how much: rank 0 when none has figures. *)
Pick(pool, w) ==
  LET known == {i \in 1..Len(pool) : pool[i] \in DOMAIN Stats}
      best == CHOOSE i \in known : \A j \in known :
                \/ Score(pool[i], w) > Score(pool[j], w)
                \/ Score(pool[i], w) = Score(pool[j], w) /\ i <= j
      lead(j) == Score(pool[best], w) - Score(pool[j], w)
      margin == IF known = {best} THEN AtMost(50, Score(pool[best], w))
                ELSE CHOOSE d \in {lead(j) : j \in known \ {best}} :
                       \A j \in known \ {best} : d <= lead(j)
  IN  IF known = {} THEN [rank |-> 0, sure |-> 0]
      ELSE [rank |-> best, sure |-> AtMost(1000, 500 + margin)]

EdgeCase(r, t) ==
  LET complexity == Clamp(r.complexity + AtMost(200, r.nodes \div 10), 1000, 2000)
  IN  r.fix /\ (Clamp(complexity + 100, 1000, 2000) >= t[3] \/ r.prompt >= 6000)

(* w are the weights of the run, biased by its profile.                    *)
Selection(r, w, t) ==
  LET v == IF EdgeCase(r, t) THEN w
           ELSE Normal(<<w[1], (w[2] * 115) \div 100, (w[3] * 11) \div 10, w[4]>>)
      picks == <<Pick(Pools.triage, w), Pick(Pools.analysis, w), Pick(Pools.patch, w),
                 Pick(Pools.analysis, v)>>
  IN  IF \E i \in 1..4 : picks[i].rank = 0 \/ picks[i].sure < Confidence THEN None
      ELSE [triage |-> picks[1].rank, analysis |-> picks[2].rank, patch |-> picks[3].rank,
            verifier |-> picks[4].rank,
            effort |-> IF EdgeCase(r, t) THEN "high" ELSE "medium"]

----------------------------------------------------------------------------
(* A run: the fallback policy, the selection, the call, the second call.   *)

Idle == [step |-> "idle", request |-> None, read |-> None, fallback |-> None,
         weights |-> None, selected |-> None, policy |-> None, first |-> None, again |-> None]

Begin(c, r, t) ==
  /\ run[c].step = "idle"
  /\ run' = [run EXCEPT ![c] = [Idle EXCEPT !.step = "weights", !.request = r, !.read = t,
                                            !.fallback = Policy(r, t)]]
  /\ UNCHANGED <<stored, todo, made, lacks>>

TakeWeights(c, w) ==
  /\ run[c].step = "weights"
  /\ run' = [run EXCEPT ![c].step = "select", ![c].weights = w]
  /\ UNCHANGED <<stored, todo, made, lacks>>

Select(c, t) ==
  /\ run[c].step = "select"
  /\ \E w \in {Normal(Biased(run[c].weights, Profile))} :
       \E s \in {Selection(run[c].request, w, t)} :
          run' = [run EXCEPT ![c].step = "call", ![c].selected = s,
                             ![c].policy = IF s = None THEN run[c].fallback ELSE s,
                             ![c].weights = None, ![c].fallback = None]
  /\ UNCHANGED <<stored, todo, made, lacks>>

(* The call.  A client that does not know a parameter says so of the first *)
(* one; those that may go are taken out once.                              *)
Arguments == <<"store", "temperature", "prompt_cache_key", "prompt_cache_retention", "reasoning">>
Refused == {i \in 1..Len(Arguments) : Arguments[i] \in lacks}
MayGo == {"store", "temperature", "prompt_cache_key", "prompt_cache_retention"}

Accepts ==
  \A i \in Refused : (\A j \in Refused : i <= j) => Arguments[i] \in MayGo /\ Refused = {i}

(* What the text of an answer is taken for: an object, also one found       *)
(* between the braces of other text, as in a list of one object.           *)
Answers == {"object", "object in text", "object in list", "other", "refusal", "none"}
Read(answer) == IF answer \in {"object", "object in text", "object in list"} THEN "answered"
                ELSE "failed"

\* a run that has failed is of no more interest
Fail(c, step) == run' = [run EXCEPT ![c] = [Idle EXCEPT !.step = step]]

Call(c, answer) ==
  /\ run[c].step = "call" /\ Accepts
  /\ IF Read(answer) = "failed" THEN Fail(c, "failed")
     ELSE run' = [run EXCEPT ![c].step = "answered", ![c].first = run[c].policy]
  /\ UNCHANGED <<stored, todo, made, lacks>>

CallFails(c) ==
  /\ run[c].step = "call"
  /\ Fail(c, IF Accepts THEN "failed" ELSE "unwrapped")
  /\ UNCHANGED <<stored, todo, made, lacks>>

(* The self check found context missing: a quarter more of complexity, a   *)
(* longer prompt, and the policy by thresholds, read anew.                 *)
AskAgain(c, t) ==
  LET r == run[c].request
      harder == [r EXCEPT !.complexity = AtMost(2000, @ + 250), !.prompt = @ + 100]
  IN  /\ run[c].step = "answered"
      /\ run' = [run EXCEPT ![c].step = "again", ![c].policy = Policy(harder, t),
                            ![c].again = t, ![c].request = None]
      /\ UNCHANGED <<stored, todo, made, lacks>>

AllOver ==
  /\ \A k \in Calibrators : todo[k] = {}
  /\ \A c \in Tasks : run[c].step \in {"failed", "unwrapped", "again"}
  /\ UNCHANGED routingVars

RoutingInit ==
  /\ stored = [k \in StoredKeys |-> None]
  /\ todo = [k \in Calibrators |-> {}]
  /\ made = 0
  /\ lacks \in Versions
  /\ run = [c \in Tasks |-> Idle]

RoutingNext ==
  \/ \E k \in Calibrators :
       \/ \E rows \in Windows : Calibrate(k, rows)
       \/ \E e \in todo[k] : Store(k, e) \/ StoreFails(k, e)
  \/ \E key \in StoredKeys : ExpireStored(key)
  \/ \E c \in Tasks :
       \/ \E r \in Requests, t \in ReadThresholds : Begin(c, r, t)
       \/ \E w \in ReadWeights : TakeWeights(c, w)
       \/ \E t \in ReadThresholds : Select(c, t) \/ AskAgain(c, t)
       \/ \E answer \in Answers : Call(c, answer)
       \/ CallFails(c)
  \/ AllOver

RoutingSpec == RoutingInit /\ [][RoutingNext]_routingVars

----------------------------------------------------------------------------
PolicyOK(p) ==
  \/ p = None
  \/ /\ p.triage \in 1..Len(Pools.triage)
     /\ {p.analysis, p.verifier} \subseteq 1..Len(Pools.analysis)
     /\ p.patch \in 1..Len(Pools.patch)
     /\ p.effort \in {"low", "medium", "high"}

(* Numbers in range, and every model a policy names is one of its pool.    *)
RoutingTypeOK ==
  /\ \A k \in StoredKeys : stored[k] = None \/ \A i \in DOMAIN stored[k] : stored[k][i] \in 0..2000
  /\ \A c \in Tasks :
       /\ run[c].step \in {"idle", "weights", "select", "call", "answered", "failed",
                           "unwrapped", "again"}
       /\ PolicyOK(run[c].fallback) /\ PolicyOK(run[c].selected) /\ PolicyOK(run[c].policy)

(* Whatever the telemetry, the thresholds a calibration stores are in order *)
(* and in range, so that no run takes the defaults in their place without   *)
(* the cache being down (_derive_thresholds against the reader's check).    *)
StoredIsTaken == stored["thresholds"] # None => stored["thresholds"] \in ReadThresholds

(* A run that asks again, with more complexity, is given no weaker model    *)
(* than the first time, unless the first was chosen by telemetry, which the *)
(* second call does not consult, or the thresholds it reads have changed.   *)
WeakerRetryExplained ==
  \A c \in Tasks : run[c].step = "again" =>
    \/ run[c].policy.analysis >= run[c].first.analysis /\ run[c].policy.patch >= run[c].first.patch
    \/ run[c].selected # None
    \/ run[c].again # run[c].read

(* A call fails for the client's sake only when it lacks a parameter that   *)
(* may not go, or more than one: the single second try drops one.          *)
UnwrappedIsExplained ==
  \A c \in Tasks : run[c].step = "unwrapped" =>
    \/ \E a \in lacks : a \notin MayGo
    \/ \E a, b \in lacks : a # b

(* What makes a run take another model than it should, taken together.     *)
RoutingExplained == StoredIsTaken /\ WeakerRetryExplained /\ UnwrappedIsExplained
============================================================================
