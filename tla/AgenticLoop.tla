---------------------------- MODULE AgenticLoop -----------------------------
(***************************************************************************)
(* The agentic loop of a task run (llm/agentic/call.py, dispatch.py,       *)
(* self_check.py, public.py): the model answers with tool calls or with a  *)
(* result; calls are counted, answered from a cache or by a tool, and      *)
(* charged to a budget of characters; a result without valid sources, or   *)
(* one the self check refuses, is asked for again by a nested call with a  *)
(* new meta and the same cache.                                            *)
(***************************************************************************)
EXTENDS AgenticTools

CONSTANTS
  Offered,            \* the tools the model calls
  World,              \* what the tools meet, see ToolOutcomes
  ArgShapes,          \* "good" arguments, and "bad" ones the tool refuses
  MaxCalls,           \* eff_calls
  Budget,             \* eff_total, in units of size
  Minimized,          \* the size of the minimized answer, in the same units
  MaxBatch,           \* calls of one answer of the model
  EvidenceMode,       \* evidence_mode
  SelfCheckRetry      \* allow_self_check_retry of the caller

\* what the constants have to be; assumed where the module is instantiated
AgenticAssumption ==
  /\ MaxCalls \in Nat \ {0} /\ Budget \in Nat \ {0} /\ Minimized \in Nat \ {0}
  /\ MaxBatch \in Nat \ {0} /\ Sizes \subseteq Nat \ {0}
  /\ EvidenceMode \in BOOLEAN /\ SelfCheckRetry \in BOOLEAN
  /\ ArgShapes \subseteq {"good", "bad"}

VARIABLES
  pc,         \* where the call is
  level,      \* how deep the nested calls are
  allow,      \* the two allow_..._retry flags of the current level
  meta,       \* AgenticMeta of the current level
  prior,      \* tokens of the levels above, merged when the level returns
  cache,      \* _tool_cache, shared by the levels
  left,       \* function calls of the last answer still to be run
  shown,      \* files whose text a tool answer has shown the model
  shownHere,  \* the same, of the current level, answered by a tool of the level
  spent,      \* tokens the answers of the model cost
  why         \* how the run ended

loopVars == <<pc, level, allow, meta, prior, cache, left, shown, shownHere, spent, why>>

\* AgenticMeta: planned and searched sum up the trace for the policy checks
NewMeta == [loaded |-> {}, calls |-> 0, chars |-> 0, planned |-> FALSE,
            searched |-> FALSE, tokens |-> 0, ok |-> "none"]

Remaining == IF meta.chars >= Budget THEN 0 ELSE Budget - meta.chars

LoopInit ==
  /\ pc = "seed" /\ level = 0 /\ left = 0 /\ prior = 0
  /\ allow = [self |-> SelfCheckRetry, evidence |-> TRUE]
  /\ meta = NewMeta /\ cache = <<>>
  /\ shown = {} /\ shownHere = {} /\ spent = 0 /\ why = "running"

End(reason) ==
  /\ pc' = IF reason = "answered" THEN "done" ELSE "failed"
  /\ why' = reason

\* _seed_context_async: contract and node hints swallow their errors, the
\* neighbour queries and the path check do not
SeedContext ==
  /\ pc = "seed"
  /\ \/ pc' = "model" /\ UNCHANGED why
     \/ End("seed_error")
  /\ UNCHANGED <<level, allow, meta, prior, cache, left, shown, shownHere, spent>>

\* responses.create fails: API error, timeout, or a TypeError twice
ModelFails ==
  /\ pc = "model"
  /\ End("model_error")
  /\ UNCHANGED <<level, allow, meta, prior, cache, left, shown, shownHere, spent>>

Answered ==
  /\ pc = "model"
  /\ meta' = [meta EXCEPT !.tokens = @ + 1]
  /\ spent' = spent + 1

ModelCalls ==
  /\ Answered
  /\ left' \in 1..MaxBatch
  /\ pc' = "calls"
  /\ UNCHANGED <<level, allow, prior, cache, shown, shownHere, why>>

\* the nested _agentic_json_call_async: a new meta, the same cache, and the
\* seed of the caller
Nested(flags, tokens) ==
  /\ level' = level + 1
  /\ allow' = flags
  /\ meta' = NewMeta
  /\ prior' = prior + tokens
  /\ shownHere' = {}
  /\ pc' = "model"
  /\ UNCHANGED <<cache, left, shown, why>>

\* Mutant: the tokens of the levels given up are lost.
Unmerged(m) == m
\* merge_usage: what the level above cost is added to the meta it returns
Merged(m) == [m EXCEPT !.tokens = @ + prior]

BadSources ==
  /\ pc = "model" /\ EvidenceMode
  /\ spent' = spent + 1
  /\ IF allow.evidence
     THEN Nested([self |-> FALSE, evidence |-> FALSE], meta.tokens + 1)
     ELSE /\ End("no_sources")
          /\ meta' = [meta EXCEPT !.tokens = @ + 1]
          /\ UNCHANGED <<level, allow, prior, cache, left, shown, shownHere>>

GoodResult ==
  /\ Answered
  /\ pc' = "check"
  /\ UNCHANGED <<level, allow, prior, cache, left, shown, shownHere, why>>

\* an error of the self check is noted and the result returned unchecked
SelfCheckOver ==
  /\ pc = "check"
  /\ \E verdict \in {"none", "ok"} \cup (IF allow.self THEN {} ELSE {"refused"}) :
       meta' = [Merged(meta) EXCEPT !.ok = verdict]
  /\ End("answered")
  /\ UNCHANGED <<level, allow, prior, cache, left, shown, shownHere, spent>>

\* Mutant: the second answer may be checked and asked for again.
SelfCheckRepeated ==
  /\ pc = "check" /\ allow.self
  /\ Nested(allow, meta.tokens)
  /\ UNCHANGED spent

SelfCheckRetried ==
  /\ pc = "check" /\ allow.self
  /\ Nested([allow EXCEPT !.self = FALSE], meta.tokens)
  /\ UNCHANGED spent

\* the arguments of a search are cut with the budget, so they name another key
CacheKey(name, f, arg) ==
  <<name, f, arg, IF name \in {"search_text", "search_semantic"} THEN Remaining ELSE 0>>

\* _tool_cache[key] = out
CacheWith(key, out) == [k \in DOMAIN cache \cup {key} |-> IF k = key THEN out ELSE cache[k]]

\* _dispatch_tool_async: the plan first, a search before a file
PolicyRefuses(name) ==
  \/ ~meta.planned
  \/ name \in {"get_file", "get_file_lines"} /\ ~meta.searched

Dispatch(name, f, arg) ==
  IF name = "plan_retrieval"
  THEN IF arg = "bad" THEN Err({"bad_args"})
       ELSE [code: {"ok"}, gives: {{}}, adds: {{}}, size: {1}]
  ELSE IF PolicyRefuses(name) THEN Err({"policy_violation"})
  ELSE {o \in ToolOutcomes(name, f, World) : o.code = "bad_args" <=> arg = "bad"}

\* _truncate_tool_output: the lists of a search are cut to fit, anything else
\* becomes the minimized answer, which is not ok and may itself not fit
Cut(name, out) ==
  IF out.size <= Remaining THEN {out}
  ELSE {[code |-> "truncated", gives |-> {}, adds |-> {}, size |-> Minimized]}
         \cup (IF name \in SearchTools
               THEN {[out EXCEPT !.size = n] : n \in 1..Remaining} ELSE {})

CallLimit ==
  /\ pc = "calls" /\ left > 0 /\ meta.calls >= MaxCalls
  /\ meta' = [meta EXCEPT !.calls = @ + 1]
  /\ End("call_limit")
  /\ UNCHANGED <<level, allow, prior, cache, left, shown, shownHere, spent>>

\* the calls left are given no answer, and the model is asked again
BudgetExhausted ==
  /\ pc = "calls" /\ left > 0 /\ meta.calls < MaxCalls /\ Remaining = 0
  /\ meta' = [meta EXCEPT !.calls = @ + 1]
  /\ left' = 0 /\ pc' = "model"
  /\ UNCHANGED <<level, allow, prior, cache, shown, shownHere, spent, why>>

\* what a tool answer does to meta, to the cache and to what the model knows
Deliver(name, out, cut, hit) ==
  /\ meta' = [meta EXCEPT
       !.calls = @ + 1,
       !.chars = @ + cut.size,
       !.loaded = IF hit THEN @ ELSE @ \cup out.adds,
       !.planned = @ \/ (name = "plan_retrieval" /\ (cut.code = "ok" \/ (~hit /\ out.code = "ok"))),
       !.searched = @ \/ (name \in SearchTools /\ cut.code = "ok")]
  /\ shown' = shown \cup cut.gives
  /\ shownHere' = shownHere \cup (IF hit THEN {} ELSE cut.gives)
  /\ left' = left - 1
  /\ pc' = IF left = 1 THEN "model" ELSE "calls"
  /\ UNCHANGED <<level, allow, prior, spent, why>>

CachedCall(name, f, arg) ==
  /\ pc = "calls" /\ left > 0 /\ meta.calls < MaxCalls /\ Remaining > 0
  /\ CacheKey(name, f, arg) \in DOMAIN cache
  /\ LET out == cache[CacheKey(name, f, arg)] IN
       \E cut \in Cut(name, out) : Deliver(name, out, cut, TRUE)
  /\ UNCHANGED cache

ToolCall(name, f, arg) ==
  /\ pc = "calls" /\ left > 0 /\ meta.calls < MaxCalls /\ Remaining > 0
  /\ CacheKey(name, f, arg) \notin DOMAIN cache
  /\ \E out \in Dispatch(name, f, arg) :
       /\ out.code # "raise"
       /\ \E cut \in Cut(name, out) : Deliver(name, out, cut, FALSE)
       /\ cache' = IF out.code = "policy_violation" THEN cache
                   ELSE CacheWith(CacheKey(name, f, arg), out)

\* an exception of a tool ends the run, whatever was left to do
ToolRaises(name, f, arg) ==
  /\ pc = "calls" /\ left > 0 /\ meta.calls < MaxCalls /\ Remaining > 0
  /\ CacheKey(name, f, arg) \notin DOMAIN cache
  /\ \E out \in Dispatch(name, f, arg) : out.code = "raise"
  /\ meta' = [meta EXCEPT !.calls = @ + 1]
  /\ End("tool_error")
  /\ UNCHANGED <<level, allow, prior, cache, left, shown, shownHere, spent>>

Call ==
  \E name \in Offered \cup {"plan_retrieval"}, arg \in ArgShapes :
    \E f \in (IF name \in FileTools \cup FixTools THEN Files ELSE {CHOOSE f \in Files : TRUE}) :
      \/ CachedCall(name, f, arg)
      \/ ToolCall(name, f, arg)
      \/ ToolRaises(name, f, arg)

LoopOver == pc \in {"done", "failed"} /\ UNCHANGED loopVars

LoopNext ==
  \/ SeedContext \/ ModelFails \/ ModelCalls \/ BadSources \/ GoodResult
  \/ SelfCheckOver \/ SelfCheckRetried
  \/ CallLimit \/ BudgetExhausted \/ Call \/ LoopOver

\* every request has a timeout, so each step of the loop is taken in the end
LoopFairness == WF_loopVars(LoopNext)
LoopSpec == LoopInit /\ [][LoopNext]_loopVars /\ LoopFairness

-----------------------------------------------------------------------------
AgenticTypeOK ==
  /\ pc \in {"seed", "model", "calls", "check", "done", "failed"}
  /\ level \in 0..2 /\ left \in 0..MaxBatch
  /\ allow \in [self: BOOLEAN, evidence: BOOLEAN]
  /\ meta.loaded \subseteq Files /\ shown \subseteq Files /\ shownHere \subseteq shown
  /\ meta.calls \in 0..(MaxCalls + 1)

\* A level runs at most MaxCalls tools, and its answers overrun the budget of
\* characters by less than one minimized answer (the loop of call.py:455-597).
WithinBudget ==
  /\ pc # "failed" => meta.calls <= MaxCalls
  /\ meta.chars < Budget + Minimized

\* A file shown by a tool that ran in the level the run returns is one the
\* patch may touch (task_service.py:1721); only what an earlier level read and
\* the cache repeated is not.
ShownIsAllowed == shownHere \subseteq meta.loaded

\* A file that was never shown may be patched only because the answer that held
\* it was cut to nothing, or because a symbol was looked up in it in vain: with
\* the budget whole and no such answer, the whitelist is what was shown.
AllowedWasShown ==
  \A f \in meta.loaded \ shown :
    \E k \in DOMAIN cache : /\ f \in cache[k].adds
                            /\ \/ cache[k].size > Minimized
                               \/ cache[k].size > Budget - meta.chars
                               \/ cache[k].code # "ok"

\* Every token the run spent on answers is in the meta it returns, those of the
\* levels given up included (merge_usage, call.py:354 and 436).
TokensKept == pc = "done" => meta.tokens = spent

\* The loop keeps within its calls and characters and counts every token
\* (llm/agentic/call.py:354 and 455-597), and the whitelist of the patch is what
\* the model was shown, but in the cases named above (task_service.py:1721).
LoopExplained == WithinBudget /\ TokensKept /\ ShownIsAllowed /\ AllowedWasShown

\* What the comment at task_service.py:1721 says: files read via get_contract
\* and get_symbol are whitelisted for patching.
FilesReadAreWhitelisted == pc = "done" => shown \subseteq meta.loaded
=============================================================================
