----------------------------- MODULE ApiMatching ------------------------------
(***************************************************************************)
(* How calls of a frontend are matched with routes of a backend            *)
(* (llm/agentic/tools.py, api_map.py): prefixes of routers along their     *)
(* includes, paths as tokens with wildcards, an index by first segments.   *)
(***************************************************************************)
EXTENDS Naturals, Sequences, FiniteSetsExt

CONSTANTS
  Segments,                 \* what stands between the slashes of a path
  Patterns, CallPatterns,   \* token sequences of routes and of calls
  Words,                    \* paths, as sequences of segments
  Routers, Includes,        \* routers, and graphs of <<parent, child, prefix>>
  MaxDepth, MaxPrefixes     \* 8 and 12 in the code

One == "{}"
Many == "{*}"
Wild(t) == t \in {One, Many}

\* two patterns that some path fits are fitted by one no longer than this
LengthFor(r, c) ==
  IF \A k \in DOMAIN r : r[k] # Many THEN Len(r)
  ELSE IF \A k \in DOMAIN c : c[k] # Many THEN Len(c) ELSE Len(r) + Len(c) - 2
ASSUME MatchingAssumption ==
  /\ MaxDepth \in Nat /\ MaxPrefixes \in Nat \ {0} /\ Segments # {}
  /\ Patterns \cup CallPatterns \subseteq Seq(Segments \cup {One, Many})
  /\ Words \subseteq Seq(Segments)
  /\ \A r \in Patterns, c \in CallPatterns : \A n \in 0..LengthFor(r, c) :
       [1..n -> Segments] \subseteq Words
  /\ \A I \in Includes : IsFiniteSet(I) /\ I \subseteq Routers \X Routers \X Seq(Segments)

VARIABLES
  given,        \* [routes, calls, includes] of one request
  queue,        \* routers to go on from, with the prefix so far and the depth
  prefixes,     \* router to the prefixes found
  done,         \* whether the matching has been computed
  matched       \* [routes, calls] that have a partner

apiVars == <<given, queue, prefixes, done, matched>>

\* Mutant: what is left of one pattern never stands for nothing.
CompatibleToTheEnd(p, q) ==
  LET rec[at \in (1..Len(p) + 1) \X (1..Len(q) + 1)] ==
        LET i == at[1] j == at[2] IN
        IF i > Len(p) \/ j > Len(q) THEN i > Len(p) /\ j > Len(q)
        ELSE IF p[i] = Many \/ q[j] = Many THEN rec[<<i + 1, j>>] \/ rec[<<i, j + 1>>]
        ELSE (Wild(p[i]) \/ Wild(q[j]) \/ p[i] = q[j]) /\ rec[<<i + 1, j + 1>>]
  IN rec[<<1, 1>>]

\* patterns_compatible: may the two stand for one path
Compatible(p, q) ==
  LET rec[at \in (1..Len(p) + 1) \X (1..Len(q) + 1)] ==
        LET i == at[1] j == at[2] IN
        IF i > Len(p) THEN \A n \in j..Len(q) : q[n] = Many
        ELSE IF j > Len(q) THEN \A n \in i..Len(p) : p[n] = Many
        ELSE IF p[i] = Many \/ q[j] = Many THEN rec[<<i + 1, j>>] \/ rec[<<i, j + 1>>]
        ELSE (Wild(p[i]) \/ Wild(q[j]) \/ p[i] = q[j]) /\ rec[<<i + 1, j + 1>>]
  IN rec[<<1, 1>>]

\* _candidate_keys_from_path: a placeholder is a segment as it is written;
\* _candidate_keys_from_static_prefix: the segments before the first wildcard
KeysOf(segments) == {SubSeq(segments, 1, k) : k \in 1..Min({3, Len(segments)})}
CallKeys(c) == KeysOf(c)
Static(p) ==
  LET n == CHOOSE n \in 0..Len(p) :
             (\A k \in 1..n : ~Wild(p[k])) /\ (n = Len(p) \/ Wild(p[n + 1]))
  IN SubSeq(p, 1, n)
RouteKeys(p) == IF Static(p) = <<>> THEN {<<>>} ELSE KeysOf(Static(p))

\* _build_call_index_cpu, _build_route_patterns_cpu: what is found under a key
CallsUnder(k) == {c \in given.calls : c # <<>> /\ k \in CallKeys(c)}
RoutesUnder(k) == {r \in given.routes : r # <<>> /\ k \in RouteKeys(r)}

\* _match_api_coverage_cpu
MatchedCalls ==
  {c \in given.calls : \E k \in CallKeys(c) : \E r \in RoutesUnder(k) : Compatible(r, c)}
MatchedRoutes ==
  {r \in given.routes : r # <<>> /\ \E k \in RouteKeys(r) : \E c \in CallsUnder(k) : Compatible(r, c)}

\* the routers nothing includes, or every router when there is none
Roots ==
  LET parents == {e[1] : e \in given.includes} children == {e[2] : e \in given.includes} IN
  IF parents \ children = {} THEN parents \cup children ELSE parents \ children

MatchingInit ==
  /\ given \in [routes: {{r} : r \in Patterns}, calls: {{c} : c \in CallPatterns},
                includes: {{}}]
             \cup [routes: {{}}, calls: {{}}, includes: Includes]
  /\ queue = {<<r, <<>>, 0>> : r \in Roots}
  /\ prefixes = [r \in Routers |-> IF r \in Roots THEN {<<>>} ELSE {}]
  /\ done = FALSE /\ matched = [routes |-> {}, calls |-> {}]

\* what a router may have after new ways to it: all of them, or MaxPrefixes
Kept(old, new) ==
  LET n == Min({MaxPrefixes, Cardinality(old \cup new)}) IN
  {S \in SUBSET (old \cup new) : old \subseteq S /\ Cardinality(S) = n}

\* _compute_prefix_map_cpu: one router from the queue, a level after the other;
\* more than MaxPrefixes are not kept, but gone on from
Follow ==
  /\ \E q \in queue :
       /\ \A o \in queue : q[3] <= o[3]
       /\ LET next == {<<e[2], q[2] \o e[3], q[3] + 1>> : e \in {i \in given.includes : i[1] = q[1]}} IN
          IF q[3] > MaxDepth THEN queue' = queue \ {q} /\ UNCHANGED prefixes
          ELSE /\ queue' = (queue \ {q}) \cup next
               /\ LET Keeps(r) == Kept(prefixes[r], {n[2] : n \in {m \in next : m[1] = r}}) IN
                    prefixes' \in {f \in [Routers -> UNION {Keeps(r) : r \in Routers}] :
                                     \A r \in Routers : f[r] \in Keeps(r)}
  /\ UNCHANGED <<given, done, matched>>
\* _compute_api_coverage_async
Match ==
  /\ queue = {} /\ ~done /\ done' = TRUE
  /\ matched' = [routes |-> MatchedRoutes, calls |-> MatchedCalls]
  /\ UNCHANGED <<given, queue, prefixes>>
Matched == done /\ UNCHANGED apiVars

MatchingNext == Follow \/ Match \/ Matched
MatchingSpec == MatchingInit /\ [][MatchingNext]_apiVars

-----------------------------------------------------------------------------
\* the paths a pattern stands for: they can be cut, in order, so that {} and a
\* literal have one segment each and {*} any number of them
Fits(w, p) ==
  \E cut \in [DOMAIN p -> 0..Len(w)] :
    LET upto(k) == IF k = 0 THEN 0 ELSE cut[k] IN
    /\ upto(Len(p)) = Len(w)
    /\ \A k, n \in DOMAIN p : k <= n => cut[k] <= cut[n]
    /\ \A k \in DOMAIN p :
         p[k] # Many => cut[k] = upto(k - 1) + 1 /\ p[k] \in {One, w[cut[k]]}

\* Two patterns are compatible exactly when some path fits both (api_map.py:164).
CompatibleIsIntersection ==
  \A r \in given.routes, c \in given.calls :
    Compatible(r, c) <=> \E w \in Words : Fits(w, c) /\ Fits(w, r)

\* A route and a call that may meet are both matched, unless one of them begins
\* with a wildcard: such a route is under a key no call is looked up with
\* (tools.py:1592 and 1656).
CoverageExplained ==
  done =>
    LET Begins(p) == p # <<>> /\ ~Wild(p[1])
        Meets(r, c) == Begins(r) /\ Begins(c) /\ \E w \in Words : Fits(w, c) /\ Fits(w, r)
    IN /\ matched.routes = {r \in given.routes : \E c \in given.calls : Meets(r, c)}
       /\ matched.calls = {c \in given.calls : \E r \in given.routes : Meets(r, c)}

\* A router has the prefixes of the ways to it from the routers that none
\* includes, up to a depth, all of them or as many as are kept; one that is
\* included only from within a cycle has none (tools.py:1493-1516).
Ways(r) ==
  LET from[d \in 0..MaxDepth + 1] ==
        IF d = 0 THEN {<<s, <<>>>> : s \in Roots}
        ELSE UNION {{<<e[2], w[2] \o e[3]>> : e \in {i \in given.includes : i[1] = w[1]}} : w \in from[d - 1]}
      all == UNION {from[d] : d \in 0..MaxDepth + 1}
  IN {w[2] : w \in {v \in all : v[1] = r}}
PrefixesAreWays ==
  queue = {} =>
    \A r \in Routers :
      /\ prefixes[r] \subseteq Ways(r)
      /\ Cardinality(prefixes[r]) = Min({MaxPrefixes, Cardinality(Ways(r))})

\* What is found is what there is, but for the cases named: all of the above.
MatchingExplained == CompatibleIsIntersection /\ CoverageExplained /\ PrefixesAreWays
=============================================================================
