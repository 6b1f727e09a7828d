----------------------------- MODULE GraphMetrics -----------------------------
(***************************************************************************)
(* The metrics of the graph of a project (graph.py): how many edges enter  *)
(* and leave a file, and its strongly connected component.  A change of    *)
(* the index (a scan, under the lock of the project) is followed, outside  *)
(* the lock, by metrics of the part of the graph it is in, or of all of it.*)
(***************************************************************************)
EXTENDS Naturals, FiniteSets

CONSTANTS
  Files,          \* paths, numbers for the order of the components
  FirstEdges,     \* graphs to begin with
  Updaters,       \* scans and changes of files, with their metrics
  MaxComponent    \* graph_metrics_incremental_max_component_nodes

\* the order of paths is one in which every set of them has a first
ASSUME MetricsAssumption ==
  /\ IsFiniteSet(Files) /\ Files \subseteq Nat
  /\ \A E \in FirstEdges : E \subseteq Files \X Files

VARIABLES
  nodes,        \* files the index has
  edges,        \* <<src, dst>>; dst may have no node
  fanIn, fanOut, scc,
  updater,      \* [at, paths, removed, fans, comps]: what it changed, what it read
  stale         \* history: an update crossed another, or was lost, since all was computed alone

graphVars == <<nodes, edges, fanIn, fanOut, scc, updater, stale>>

NoScc == 0
AtRest == [at |-> "idle", paths |-> {}, removed |-> {}, read |-> {}, comp |-> {}, edges |-> {}]

Updating(u) == updater[u].at \notin {"idle", "over"}
Ends(E) == {e[1] : e \in E} \cup {e[2] : e \in E}
Into(E, f) == Cardinality({e \in E : e[2] = f})
OutOf(E, f) == Cardinality({e \in E : e[1] = f})

\* what is reached from a set by a relation: what every set has that holds the set
\* and, with the first end of a pair, the other
Closed(R, S) == \A e \in R : e[1] \in S => e[2] \in S
Grown(R, from) ==
  {f \in Files : \A S \in SUBSET Files : from \subseteq S /\ Closed(R, S) => f \in S}
\* strongly_connected_components, numbered from 1 in the order of the first file of
\* each; NoScc for what is not in it
Mutual(E, f, g) == g \in Grown(E, {f}) /\ f \in Grown(E, {g})
SameScc(E, comp, f) == {g \in comp : Mutual(E, f, g)}
Earlier(c, d) == \E f \in c : \A g \in d : f <= g
Sccs(E, comp) ==
  LET components == {SameScc(E, comp, f) : f \in comp}
  IN [f \in Files |-> IF f \notin comp THEN NoScc
                      ELSE Cardinality({c \in components : Earlier(c, SameScc(E, comp, f))})]

\* a project that was scanned as a whole
MetricsInit ==
  /\ nodes = Files
  /\ edges \in FirstEdges
  /\ fanIn = [f \in Files |-> Into(edges, f)] /\ fanOut = [f \in Files |-> OutOf(edges, f)]
  /\ scc = Sccs(edges, Files)
  /\ updater = [u \in Updaters |-> AtRest] /\ stale = FALSE

\* the commit of a scan: files read again have the edges they ask for, one that
\* is gone takes its edges along; who lost an edge is handed to the metrics
Change(u) ==
  /\ updater[u].at = "idle"
  /\ \E f \in Files, outs \in SUBSET Files, gone \in BOOLEAN, whole \in BOOLEAN :
       /\ f \notin outs /\ (gone => outs = {})
       /\ LET lost == {e \in edges : e[1] = f \/ (gone /\ e[2] = f)} IN
          /\ nodes' = IF gone THEN nodes \ {f} ELSE nodes \cup {f}
          /\ edges' = (edges \ lost) \cup {<<f, d>> : d \in outs}
          /\ updater' = [updater EXCEPT ![u].at = IF whole THEN "full" ELSE "part",
                                        ![u].paths = {f}, ![u].removed = Ends(lost)]
          \* a new node has fans of its own, not yet counted
          /\ fanIn' = IF gone \/ f \notin nodes THEN [fanIn EXCEPT ![f] = 0] ELSE fanIn
          /\ fanOut' = IF gone \/ f \notin nodes THEN [fanOut EXCEPT ![f] = 0] ELSE fanOut
          /\ scc' = IF gone \/ f \notin nodes THEN [scc EXCEPT ![f] = NoScc] ELSE scc
  /\ stale' = (stale \/ \E o \in Updaters \ {u} : Updating(o))

\* the weak component of the paths, found by going along the edges both ways
Around(paths) == Grown(edges \cup {<<e[2], e[1]>> : e \in edges}, paths)
\* Mutant: the ends of the edges that are gone are forgotten.
AffectedNow(u) ==
  LET p == updater[u].paths IN p \cup Ends({e \in edges : e[1] \in p \/ e[2] \in p})
Affected(u) ==
  LET p == updater[u].paths IN
  p \cup updater[u].removed \cup Ends({e \in edges : e[1] \in p \/ e[2] \in p})
\* update_graph_metrics_incremental_async reads; a component too large, a path
\* without a node or with fewer edges than before is for the whole
NeedsWhole(u) ==
  \/ Cardinality(Around(updater[u].paths)) > MaxComponent
  \/ \E f \in updater[u].paths :
       f \notin nodes \/ Into(edges, f) < fanIn[f] \/ OutOf(edges, f) < fanOut[f]
PartReads(u) ==
  /\ updater[u].at = "part"
  /\ updater' = IF NeedsWhole(u) THEN [updater EXCEPT ![u].at = "full"]
                ELSE [updater EXCEPT ![u].at = "part_write", ![u].read = Affected(u),
                                     ![u].comp = Around(updater[u].paths), ![u].edges = edges]
  /\ UNCHANGED <<nodes, edges, fanIn, fanOut, scc, stale>>
PartWrites(u) ==
  /\ updater[u].at = "part_write"
  /\ LET q == updater[u] IN
     /\ fanIn' = [f \in Files |-> IF f \in q.read \cap nodes THEN Into(q.edges, f) ELSE fanIn[f]]
     /\ fanOut' = [f \in Files |-> IF f \in q.read \cap nodes THEN OutOf(q.edges, f) ELSE fanOut[f]]
     /\ LET ids == Sccs(q.edges, q.comp) IN
          scc' = [f \in Files |-> IF f \in q.comp \cap nodes THEN ids[f] ELSE scc[f]]
  /\ updater' = [updater EXCEPT ![u] = [AtRest EXCEPT !.at = "over"]]
  /\ UNCHANGED <<nodes, edges, stale>>

\* compute_graph_metrics_async, at once or as a background task: all is read,
\* computed in a process, and written by the ids of the nodes that were read
FullReads(u) ==
  /\ updater[u].at = "full"
  /\ updater' = [updater EXCEPT ![u].at = "full_write", ![u].read = nodes, ![u].edges = edges,
                                ![u].comp = nodes \cup Ends(edges)]
  /\ stale' = \E o \in Updaters \ {u} : Updating(o)
  /\ UNCHANGED <<nodes, edges, fanIn, fanOut, scc>>
FullWrites(u) ==
  /\ updater[u].at = "full_write"
  /\ LET q == updater[u] IN
     /\ fanIn' = [f \in Files |-> IF f \in q.read \cap nodes THEN Into(q.edges, f) ELSE fanIn[f]]
     /\ fanOut' = [f \in Files |-> IF f \in q.read \cap nodes THEN OutOf(q.edges, f) ELSE fanOut[f]]
     /\ LET ids == Sccs(q.edges, q.comp) IN
          scc' = [f \in Files |-> IF f \in q.read \cap nodes THEN ids[f] ELSE scc[f]]
  /\ updater' = [updater EXCEPT ![u] = [AtRest EXCEPT !.at = "over"]]
  /\ UNCHANGED <<nodes, edges, stale>>
\* the process of the update ends, or its session fails
Lost(u) ==
  /\ Updating(u) /\ stale' = TRUE
  /\ updater' = [updater EXCEPT ![u] = [AtRest EXCEPT !.at = "over"]]
  /\ UNCHANGED <<nodes, edges, fanIn, fanOut, scc>>

MetricsOver == (\A u \in Updaters : updater[u].at = "over") /\ UNCHANGED graphVars
MetricsNext ==
  \/ \E u \in Updaters :
       Change(u) \/ PartReads(u) \/ PartWrites(u) \/ FullReads(u) \/ FullWrites(u) \/ Lost(u)
  \/ MetricsOver
MetricsSpec == MetricsInit /\ [][MetricsNext]_graphVars

-----------------------------------------------------------------------------
MetricsTypeOK ==
  /\ nodes \subseteq Files /\ edges \subseteq Files \X Files
  /\ scc \in [Files -> 0..Cardinality(Files)]
  /\ stale \in BOOLEAN

Settled == ~stale /\ \A u \in Updaters : ~Updating(u)

\* When no update is under way, every file has the fans its edges give it,
\* unless updates crossed or one was lost since the last whole computation
\* (graph.py:231, 320-402).
FansExplained ==
  Settled => \A f \in nodes : fanIn[f] = Into(edges, f) /\ fanOut[f] = OutOf(edges, f)

\* Within one weakly connected part of the graph two files have the same
\* component exactly when each is reached from the other (graph.py:404-437: a
\* partial update numbers from 0 again, so parts may share numbers).
SccExplained ==
  Settled =>
    \A f \in nodes : \A g \in Around({f}) \cap nodes :
      scc[f] = scc[g] <=> Mutual(edges, f, g)

\* The metrics on record are those of the graph, but for updates that crossed.
MetricsExplained == FansExplained /\ SccExplained
=============================================================================
