------------------------------ MODULE MCServices ------------------------------
(* Components that share nothing, checked side by side: part says which of  *)
(* them a behaviour is of.  The modules of the others stay as they begin.    *)
EXTENDS Founding, RateLimit, FileCaches, Routing, GraphMetrics, Resolve,
        ApiMatching, FiniteSetsExt, TLC

CONSTANTS f1, f2, f3, m1, m2, r1, r2, r3, r4, c1, c2, u1, u2, t1

VARIABLE part
servicesVars ==
  <<part, foundingVars, rateVars, cacheVars, routingVars, graphVars, resolveVars, apiVars>>

-----------------------------------------------------------------------------
(* FileCaches: one file with two contents, two requests and two changes.    *)
(* RateLimit: four requests, one through a trusted proxy and one that only  *)
(* claims to be, with two requests allowed in each of two windows.          *)
MCClients == [r \in {r1, r2, r3, r4} |->
  [client |-> IF r = r2 THEN r2 ELSE r1, proxied |-> r \in {r2, r3},
   says |-> CASE r = r1 -> r2 [] r = r2 -> r1 [] OTHER -> "none"]]
ASSUME PartsAssumption == RateAssumption

(* GraphMetrics: three files, among the graphs a cycle of two and of three, *)
(* and two updates.                                                         *)
ScannedEdges == {{}, {<<1, 2>>, <<2, 1>>}, {<<1, 2>>, <<2, 3>>, <<3, 1>>},
                 {<<1, 2>>, <<2, 1>>, <<2, 3>>}, {<<1, 3>>, <<2, 3>>}}
MetricFiles == 1..3

(* ApiMatching: patterns of up to three tokens over a letter and the two    *)
(* wildcards, and some with another letter, paths of up to four segments,   *)
(* and graphs of up to three inclusions among three routers.                *)
Upto(S, n) == UNION {[1..k -> S] : k \in 0..n}
Tokens == {"a", "{}", "{*}"}
Inclusions == {<<p, c, <<"a">>>> : p \in 1..3, c \in 1..3} \cup {<<1, 2, <<"b">>>>}
RoutePatterns == Upto(Tokens, 3)
CallTokens == Upto(Tokens, 2) \cup
  {<<"b">>, <<"a", "{*}", "b">>, <<"{}", "a", "{*}">>, <<"{*}", "a", "b">>}
Paths == Upto({"a", "b"}, 4)
ThreeRouters == 1..3
InclusionGraphs == UNION {kSubset(k, Inclusions) : k \in 1..3}

(* Resolve: a project with TypeScript, Python, Go and PHP files, without    *)
(* some of them, without a directory that replaces a module or with nothing *)
(* of Go in it; two states of its configuration files, and imports of every *)
(* kind.  A name is the sequence of its dotted pieces.                      *)
N(a) == <<a>>
Ts(a) == <<a, "ts">>
AllFiles == {<<N("src"), Ts("a")>>, <<N("src"), <<"a", "b", "ts">>>>,
  <<N("src"), N("lib"), <<"index", "js">>>>, <<N("src"), <<"m", "py">>>>,
  <<N("src"), N("m"), <<"__init__", "py">>>>, <<N("packages"), N("p"), Ts("main")>>,
  <<N("packages"), N("p"), Ts("a")>>, <<N("g"), <<"x", "go">>>>,
  <<N("g"), N("h"), <<"y", "go">>>>, <<N("g"), N("w"), <<"z", "go">>>>,
  <<N("src"), <<"v", "php">>>>}
DirectoryW == {<<N("g"), N("w"), <<"z", "go">>>>}
NowhereConf == [d \in {} |-> 0]
NoConf == [tsconfig |-> NowhereConf, packages |-> NowhereConf, workspaces |-> {},
           gomod |-> NowhereConf, gowork |-> NowhereConf]
TsAliases == [d \in {<<>>} |-> [base |-> <<>>, paths |->
  {[prefix |-> <<N("@")>>, star |-> TRUE, target |-> <<N("src")>>],
   [prefix |-> <<N("p")>>, star |-> FALSE, target |-> <<N("src"), N("lib")>>]}]]
TsOfSource == [d \in {<<>>, <<N("src")>>} |-> [base |-> <<N("packages"), N("p")>>,
  paths |-> {[prefix |-> <<>>, star |-> TRUE, target |-> <<>>]}]]
PackageP == [d \in {<<N("packages"), N("p")>>} |->
  [dir |-> d, name |-> <<N("p")>>, main |-> <<>>,
   exports |-> [s \in {<<>>} |-> <<<<N("gone")>>, <<N("main")>>>>]]]
GoModG == [d \in {<<N("g")>>} |-> [module |-> <<N("ex"), N("mod")>>,
  replaces |-> {[old |-> <<N("ex"), N("old")>>, new |-> <<N("g")>>],
                [old |-> <<N("ex"), N("old"), N("h")>>, new |-> <<N("g"), N("w")>>]}]]
GoWork == [d \in {<<>>} |-> [uses |-> {<<N("g")>>},
  replaces |-> {[old |-> <<N("ex"), N("mod"), N("h")>>, new |-> <<N("g"), N("w")>>]}]]
Relative(kind, up, path) == [kind |-> kind, up |-> up, path |-> path]
Bare(path) == Relative("bare", 0, path)
ScriptImports == {[importer |-> <<N("src"), Ts("k")>>, spec |-> s] : s \in
  {Relative("js", 0, <<N("a")>>), Relative("js", 0, <<<<"a", "b">>>>),
   Relative("js", 1, <<N("src"), N("lib")>>), Relative("js", 2, <<N("a")>>),
   Relative("js", 2, <<N("root"), N("src"), N("a")>>), Relative("py", 3, <<N("m")>>),
   Relative("py", 0, <<N("m")>>), Relative("py", 0, <<>>), Bare(<<N("@"), N("a")>>),
   Bare(<<N("p")>>), Bare(<<N("p"), N("a")>>), Bare(<<<<"m">>>>), Bare(<<<<"v", "php">>>>)}}
GoImports == {[importer |-> <<N("g"), <<"k", "go">>>>, spec |-> Bare(p)] : p \in
  {<<N("ex"), N("mod")>>, <<N("ex"), N("mod"), N("h")>>, <<N("ex"), N("old"), N("h")>>}}
AllImports == ScriptImports \cup GoImports
ProjectTrees == {AllFiles, AllFiles \ {<<N("src"), Ts("a")>>, <<N("src"), <<"m", "py">>>>},
  AllFiles \ DirectoryW, (AllFiles \ DirectoryW) \cup {<<N("g"), N("w"), N("notes")>>}}
ProjectRoot == <<N("data"), N("root")>>
ProjectConfs ==
  {[NoConf EXCEPT !.tsconfig = TsAliases, !.packages = PackageP, !.gomod = GoModG],
   [NoConf EXCEPT !.tsconfig = TsOfSource, !.packages = PackageP, !.gomod = GoModG,
                  !.gowork = GoWork]}

(* Routing: two calibrations, one run, three models of which the strongest  *)
(* scores best by the configured weights; clients that do not know one      *)
(* parameter, or two.                                                       *)
Row(failed, retried, unsure, latency, tokens) ==
  [failed |-> failed, retried |-> retried, unsure |-> unsure, latency |-> latency,
   tokens |-> tokens]
ModelStats == [m \in {"m1", "m2", "m3"} |->
  CASE m = "m1" -> <<500, 300, 2, 200>> [] m = "m2" -> <<600, 900, 5, 150>>
    [] OTHER -> <<950, 500, 6, 10>>]
RouteWindows == {<<Row(0, 0, 0, 10000, 1000)>>,
                 <<Row(1, 1, 1, 0, 9000), Row(1, 1, 0, 4000, 0)>>}
RouteDefaults == <<1350, 1350, 1400>>
RouteWeights == <<600, 150, 100, 150>>
RoutePools == [triage |-> <<"m1">>, analysis |-> <<"m1", "m2">>, patch |-> <<"m1", "m2", "m3">>]
RouteRequests == {[fix |-> TRUE, complexity |-> 1200, prompt |-> 3000, nodes |-> 500],
                  [fix |-> FALSE, complexity |-> 1050, prompt |-> 100, nodes |-> 0]}
RouteClients == {{"temperature"}, {"prompt_cache_key", "prompt_cache_retention"}}

-----------------------------------------------------------------------------
(* The extended modules as they stand while a behaviour is of another part. *)
NothingGiven == [routes |-> {<<>>}, calls |-> {<<>>}, includes |-> {}]
Dormant == [f \in Founders |-> [op |-> "login", mail |-> m1, step |-> "start"]]

ServicesInit ==
  /\ part \in {"founding", "caches", "rates", "metrics", "apis", "imports", "routes"}
  /\ Init /\ (part # "founding" => doing = Dormant)
  /\ RateInit /\ (part # "rates" => ~scriptLoaded)
  /\ CachesInit
  /\ RoutingInit /\ (part # "routes" => lacks = {"temperature"})
  /\ MetricsInit /\ (part # "metrics" => edges = {})
  /\ ImportsInit /\ (part # "imports" => files = AllFiles /\ DOMAIN conf.gowork = {})
  /\ MatchingInit /\ (part # "apis" => given = NothingGiven)

ServicesNext ==
  /\ UNCHANGED part
  /\ \/ part = "founding" /\ Next
        /\ UNCHANGED <<rateVars, cacheVars, routingVars, graphVars, resolveVars, apiVars>>
     \/ part = "rates" /\ RateNext
        /\ UNCHANGED <<foundingVars, cacheVars, routingVars, graphVars, resolveVars, apiVars>>
     \/ part = "caches" /\ CachesNext
        /\ UNCHANGED <<foundingVars, rateVars, routingVars, graphVars, resolveVars, apiVars>>
     \/ part = "routes" /\ RoutingNext
        /\ UNCHANGED <<foundingVars, rateVars, cacheVars, graphVars, resolveVars, apiVars>>
     \/ part = "metrics" /\ MetricsNext
        /\ UNCHANGED <<foundingVars, rateVars, cacheVars, routingVars, resolveVars, apiVars>>
     \/ part = "imports" /\ ImportsNext
        /\ UNCHANGED <<foundingVars, rateVars, cacheVars, routingVars, graphVars, apiVars>>
     \/ part = "apis" /\ MatchingNext
        /\ UNCHANGED <<foundingVars, rateVars, cacheVars, routingVars, graphVars, resolveVars>>

(* The requests, updaters and calibrators, u1 and u2, are alike, and so are *)
(* the changers c1 and c2.                                                  *)
Alike == {p @@ q : p \in Permutations({u1, u2}), q \in Permutations({c1, c2})}

ServicesSpec == ServicesInit /\ [][ServicesNext]_servicesVars

-----------------------------------------------------------------------------
(* Every part keeps its types: what each module says of its variables.      *)
ServicesTypeOK ==
  TypeOK /\ RateTypeOK /\ CachesTypeOK /\ RoutingTypeOK /\ MetricsTypeOK
=============================================================================
