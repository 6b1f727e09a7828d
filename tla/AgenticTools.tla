---------------------------- MODULE AgenticTools ----------------------------
(***************************************************************************)
(* What the tools of the agentic loop may answer                           *)
(* (llm/agentic/tools.py).  An outcome is a record                         *)
(*   code   "ok", the error code of the answer, or "raise" when an         *)
(*          exception leaves the tool                                      *)
(*   gives  the files whose own text is in the answer                      *)
(*   adds   the files the tool puts in meta.full_file_paths                *)
(*   size   the length of the answer, in units                             *)
(* Each tool is an operator giving the set of its possible outcomes; what  *)
(* the indexes hold is left open, the kind of each file is a parameter.    *)
(***************************************************************************)
EXTENDS Naturals, FiniteSets, Sequences

CONSTANTS
  Files,          \* the relative paths a tool can be given
  Sizes           \* the lengths an answer can have

Err(codes) == [code: codes, gives: {{}}, adds: {{}}, size: {1}]
Ok(fs) == [code: {"ok"}, gives: {fs}, adds: {fs}, size: Sizes]
Answer == [code: {"ok"}, gives: {{}}, adds: {{}}, size: Sizes]
\* a statement of the session that no handler of the tool catches
DbRaises == Err({"raise"})

\* _resolve_and_read_file_under_root: the code of the failure, "ok" when read
ReadCode(kind) ==
  CASE kind = "outside"    -> "invalid_path"
    [] kind = "missing"    -> "not_found"
    [] kind = "dir"        -> "not_a_file"
    [] kind = "unreadable" -> "read_failed"
    [] OTHER               -> "ok"

\* _read_text_under_root_async: any failure is "not readable"
Readable(kind) == ReadCode(kind) = "ok"

CheckIndexed == Err({"not_indexed"}) \cup DbRaises

GetFile(f, kind) ==
  Err({"bad_args"})
    \cup (IF Readable(kind) THEN Ok({f}) ELSE Err({ReadCode(kind)}))
\* the same reading, after the bounds of the lines are checked
GetFileLines(f, kind) ==
  Err({"bad_args"})
    \cup (IF Readable(kind) THEN Ok({f}) ELSE Err({ReadCode(kind)}))

GetContract(f, kind) ==
  IF kind = "outside" THEN Err({"bad_args", "invalid_path"})
  ELSE Err({"bad_args", "contract_failed"}) \cup (IF Readable(kind) THEN Ok({f}) ELSE {})
\* the file is whitelisted before the symbol is looked for
GetSymbol(f, kind) ==
  GetContract(f, kind) \cup
    (IF Readable(kind)
     THEN [code: {"no_symbols", "not_found"}, gives: {{}}, adds: {{f}}, size: {1}]
     ELSE {})

GetNode(f, kind) ==
  IF kind = "outside" THEN Err({"bad_args", "invalid_path"})
  ELSE Err({"bad_args", "not_found"}) \cup Answer \cup DbRaises
GetNeighbors(f, kind) ==
  IF kind = "outside" THEN Err({"bad_args", "invalid_path"})
  ELSE Err({"bad_args"}) \cup Answer \cup DbRaises

SearchPaths == CheckIndexed \cup Err({"bad_args"}) \cup Answer
SearchSymbols == CheckIndexed \cup Err({"bad_args"}) \cup Answer
SearchTests == CheckIndexed \cup Answer
GetTreeOutline == CheckIndexed \cup Answer
ProjectSummary == CheckIndexed \cup Answer
SearchText == CheckIndexed \cup Err({"bad_args"}) \cup Answer

\* search_semantic falls back to search_text when nothing was found, and hands
\* it semantic["meta"], a plain dict, as the meta of the run: the first file to
\* be read asks it for fs_ops_semaphore and the tool raises.  The fallback
\* answers only when there is no file to read.
SemanticFallback(noFiles) ==
  CheckIndexed \cup (IF noFiles THEN Answer ELSE Err({"raise"}))
SearchSemantic(found, noFiles) ==
  Err({"bad_args", "semantic_failed"})
    \cup (IF found THEN Answer ELSE SemanticFallback(noFiles))

SearchRoutes == Err({"db_error"}) \cup Answer
SearchApiCalls == Err({"db_error"}) \cup Answer
RouteUsages == Err({"bad_args", "db_error"}) \cup Answer \cup DbRaises
SuggestEndpointLocation == Err({"bad_args"}) \cup Answer \cup DbRaises
SuggestFrontendClient == Err({"bad_args"}) \cup Answer \cup DbRaises
ImpactRouteChange == Err({"bad_args", "db_error"}) \cup Answer
ApiCoverageSummary == Answer \cup DbRaises
UnmatchedRoutes == Answer \cup DbRaises
UnmatchedCalls == Answer \cup DbRaises

\* A route of the compared usages: has it calls, is its contract stored.  The
\* loop over the calls of a route is named meta and replaces the meta of the
\* run: a later route whose contract must be built on the fly reads its source
\* with a dict and the tool raises.
CompareRaises(routes) ==
  \E i, j \in DOMAIN routes : i < j /\ routes[i].calls /\ ~routes[j].stored
CompareApiContract(routes) ==
  Err({"bad_args", "db_error"}) \cup DbRaises
    \cup (IF CompareRaises(routes) THEN Err({"raise"}) ELSE Answer)

\* the fixes read sources the comparison names, and whitelist each one read
FixedFiles(fs, kinds) == UNION {Ok(S) : S \in SUBSET {f \in fs : Readable(kinds[f])}}
SuggestContractFix(fs, kinds, routes) ==
  Err({"bad_args", "db_error"}) \cup DbRaises
    \cup (IF CompareRaises(routes) THEN Err({"raise"}) ELSE FixedFiles(fs, kinds))
SuggestApiFix(fs, kinds, routes) ==
  Err({"bad_args", "db_error"}) \cup DbRaises
    \cup (IF CompareRaises(routes) THEN Err({"raise"}) ELSE FixedFiles(fs, kinds))

FileTools == {"get_file", "get_file_lines", "get_contract", "get_symbol", "get_node",
              "get_neighbors"}
FixTools == {"compare_api_contract", "suggest_contract_fix", "suggest_api_fix"}
SearchTools == {"search_paths", "search_symbols", "search_text", "search_semantic"}
OtherTools == {"search_tests", "get_tree_outline", "project_summary", "search_routes",
               "search_api_calls", "route_usages", "suggest_endpoint_location",
               "suggest_frontend_client", "impact_route_change",
               "api_coverage_summary", "unmatched_routes", "unmatched_calls"}

\* the table of _dispatch_tool_async, after its policy checks; the world w says
\* of what kind each file is, which routes a comparison meets, whether an
\* embedding matches and whether a text search has no file to read
ToolOutcomes(name, f, w) ==
  CASE name = "get_file"                  -> GetFile(f, w.kind[f])
    [] name = "get_file_lines"            -> GetFileLines(f, w.kind[f])
    [] name = "get_contract"              -> GetContract(f, w.kind[f])
    [] name = "get_symbol"                -> GetSymbol(f, w.kind[f])
    [] name = "get_node"                  -> GetNode(f, w.kind[f])
    [] name = "get_neighbors"             -> GetNeighbors(f, w.kind[f])
    [] name = "compare_api_contract"      -> CompareApiContract(w.routes)
    [] name = "suggest_contract_fix"      -> SuggestContractFix({f}, w.kind, w.routes)
    [] name = "suggest_api_fix"           -> SuggestApiFix({f}, w.kind, w.routes)
    [] name = "search_paths"              -> SearchPaths
    [] name = "search_symbols"            -> SearchSymbols
    [] name = "search_text"               -> SearchText
    [] name = "search_semantic"           -> SearchSemantic(w.found, w.noFiles)
    [] name = "search_tests"              -> SearchTests
    [] name = "get_tree_outline"          -> GetTreeOutline
    [] name = "project_summary"           -> ProjectSummary
    [] name = "search_routes"             -> SearchRoutes
    [] name = "search_api_calls"          -> SearchApiCalls
    [] name = "route_usages"              -> RouteUsages
    [] name = "suggest_endpoint_location" -> SuggestEndpointLocation
    [] name = "suggest_frontend_client"   -> SuggestFrontendClient
    [] name = "impact_route_change"       -> ImpactRouteChange
    [] name = "api_coverage_summary"      -> ApiCoverageSummary
    [] name = "unmatched_routes"          -> UnmatchedRoutes
    [] name = "unmatched_calls"           -> UnmatchedCalls
    [] OTHER                              -> Err({"unknown_tool"})
=============================================================================
