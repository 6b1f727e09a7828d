------------------------------ MODULE FileCaches ------------------------------
(***************************************************************************)
(* What Redis keeps of the files of a project (infra/cache.py): results of *)
(* searches, under the project, and texts and contracts of files under the *)
(* hash the index has for them (context_pack.py).  Endpoints that change a *)
(* file sweep the packs, a scan sweeps all (api/nodes.py,                  *)
(* services/project_service.py).  One file stands for all: one that has    *)
(* been indexed and so has a text row, which a search reads.  A file that  *)
(* has none yet is searched on the disk (project_service.py:2038).         *)
(***************************************************************************)
EXTENDS Naturals, FiniteSets

CONSTANTS
  Contents,     \* what the file may contain; a content is its own hash
  Readers,      \* requests that search or pack a context
  Changers      \* requests that change the file, and scans

ASSUME CachesAssumption == Contents # {}

VARIABLES
  disk,         \* the file
  indexed,      \* the content the index knows
  found,        \* the cached result of the search: a content, or Nothing
  packs,        \* cached packs: kind and hash to a text
  reader,       \* [op, at, hash, text, torn] of each request
  changer,      \* [op, at, keys] of each change
  unswept,      \* history: the index moved on and no sweep took the search result
  storedLate,         \* history: a search result was stored after the index moved on
  tornPacks     \* history: packs stored when file and index were not the same

cacheVars == <<disk, indexed, found, packs, reader, changer, unswept, storedLate, tornPacks>>

Nothing == "nothing"
Empty == "empty"
PackKinds == {"file", "contract"}
PackKeys == PackKinds \X Contents
SearchKey == <<"search", Nothing>>

CachesInit ==
  /\ disk = CHOOSE c \in Contents : TRUE
  /\ indexed = disk
  /\ found = Nothing /\ packs = [k \in PackKeys |-> Nothing]
  /\ reader = [r \in Readers |-> [op |-> Nothing, at |-> "start", hash |-> Nothing,
                                  text |-> Nothing, torn |-> FALSE]]
  /\ changer = [c \in Changers |-> [op |-> Nothing, at |-> "start", keys |-> {}]]
  /\ unswept = FALSE /\ storedLate = FALSE /\ tornPacks = {}

Step(r, s) == reader' = [reader EXCEPT ![r].at = s]
\* a request that is answered or has failed is of no more interest
Over == [op |-> Nothing, at |-> "over", hash |-> Nothing, text |-> Nothing, torn |-> FALSE]
End(r) == reader' = [reader EXCEPT ![r] = Over]
Key(r) == <<reader[r].op, reader[r].hash>>

\* search_project_text_async: the cached result, or the index, and then stored
SearchGet(r) ==
  /\ reader[r].at = "start"
  /\ IF found = Nothing THEN reader' = [reader EXCEPT ![r].op = "search", ![r].at = "query"]
     ELSE End(r)
  /\ UNCHANGED <<disk, indexed, found, packs, changer, unswept, storedLate, tornPacks>>
SearchQuery(r) ==
  /\ reader[r].op = "search" /\ reader[r].at = "query"
  /\ reader' = [reader EXCEPT ![r].at = "fill", ![r].text = indexed, ![r].torn = FALSE]
  /\ UNCHANGED <<disk, indexed, found, packs, changer, unswept, storedLate, tornPacks>>
SearchFill(r) ==
  /\ reader[r].op = "search" /\ reader[r].at = "fill"
  /\ found' = reader[r].text /\ End(r)
  /\ storedLate' = reader[r].torn /\ unswept' = FALSE
  /\ UNCHANGED <<disk, indexed, packs, changer, tornPacks>>

\* _load_hashes: the hash the index has, in the key of the pack
PackHash(r) ==
  /\ reader[r].at = "start"
  /\ \E kind \in PackKinds :
       reader' = [reader EXCEPT ![r] = [op |-> kind, at |-> "get", hash |-> indexed,
                                        text |-> Nothing, torn |-> disk # indexed]]
  /\ UNCHANGED <<disk, indexed, found, packs, changer, unswept, storedLate, tornPacks>>
\* cache_mget_json_async
PackGet(r) ==
  /\ reader[r].op \in PackKinds /\ reader[r].at = "get"
  /\ IF packs[Key(r)] = Nothing THEN Step(r, "read") ELSE End(r)
  /\ UNCHANGED <<disk, indexed, found, packs, changer, unswept, storedLate, tornPacks>>
\* _read_file: the file as it is, and nothing at all if it cannot be read; a
\* contract that cannot be built is not kept
PackRead(r) ==
  /\ reader[r].op = "file" /\ reader[r].at = "read"
  /\ \E text \in {disk, Empty} :
       reader' = [reader EXCEPT ![r].at = "fill", ![r].text = text]
  /\ UNCHANGED <<disk, indexed, found, packs, changer, unswept, storedLate, tornPacks>>
ContractBuild(r) ==
  /\ reader[r].op = "contract" /\ reader[r].at = "read"
  /\ \/ reader' = [reader EXCEPT ![r].at = "fill", ![r].text = disk]
     \/ End(r)
  /\ UNCHANGED <<disk, indexed, found, packs, changer, unswept, storedLate, tornPacks>>
\* cache_mset_json_async
PackFill(r) ==
  /\ reader[r].op \in PackKinds /\ reader[r].at = "fill"
  /\ packs' = [packs EXCEPT ![Key(r)] = reader[r].text]
  /\ tornPacks' = IF reader[r].torn THEN tornPacks \cup {Key(r)} ELSE tornPacks \ {Key(r)}
  /\ End(r)
  /\ UNCHANGED <<disk, indexed, found, changer, unswept, storedLate>>

\* what is under way when the file or the index changes
Torn(q) == q.at \in {"get", "read", "fill"}
Disturb == reader' = [r \in Readers |-> IF Torn(reader[r]) THEN [reader[r] EXCEPT !.torn = TRUE]
                                        ELSE reader[r]]
Go(c, s, keys) == changer' = [changer EXCEPT ![c].at = s, ![c].keys = keys]
Start(c, op) ==
  /\ changer[c].at = "start"
  /\ changer' = [changer EXCEPT ![c] = [op |-> op, at |-> "sweep", keys |-> {}]]

\* update_file and its like: the file under the lock of the project
Mutate(c) ==
  /\ Start(c, "mutate")
  /\ disk' \in Contents \ {disk} /\ Disturb
  /\ UNCHANGED <<indexed, found, packs, unswept, storedLate, tornPacks>>
\* run_mutation_indexing_async, and scan_project_async: the index takes the file
Index(c) ==
  /\ \/ changer[c].op = "mutate" /\ changer[c].at = "queued" /\ Go(c, "done", {})
        /\ unswept' = (unswept \/ (indexed # disk /\ found # Nothing))
     \/ Start(c, "scan") /\ UNCHANGED unswept
  /\ indexed' = disk
  /\ IF indexed # disk THEN Disturb ELSE UNCHANGED reader
  /\ UNCHANGED <<disk, found, packs, storedLate, tornPacks>>

\* cache_invalidate_prefix_async: the keys there are, then their deletion
Present == {k \in PackKeys : packs[k] # Nothing} \cup (IF found = Nothing THEN {} ELSE {SearchKey})
\* Mutant: a scan sweeps what an edit does.
SweepPacks(c) ==
  /\ changer[c].at = "sweep"
  /\ Go(c, "unlink", Present \cap PackKeys)
  /\ UNCHANGED <<disk, indexed, found, packs, reader, unswept, storedLate, tornPacks>>
SweepScan(c) ==
  /\ changer[c].at = "sweep"
  /\ Go(c, "unlink", IF changer[c].op = "scan" THEN Present ELSE Present \cap PackKeys)
  /\ UNCHANGED <<disk, indexed, found, packs, reader, unswept, storedLate, tornPacks>>
DropKeys(keys) ==
  /\ packs' = [k \in PackKeys |-> IF k \in keys THEN Nothing ELSE packs[k]]
  /\ tornPacks' = tornPacks \ keys
  /\ IF SearchKey \in keys THEN found' = Nothing /\ unswept' = FALSE /\ storedLate' = FALSE
     ELSE UNCHANGED <<found, unswept, storedLate>>
SweepUnlink(c) ==
  /\ changer[c].at = "unlink"
  /\ DropKeys(changer[c].keys)
  /\ Go(c, IF changer[c].op = "mutate" THEN "queued" ELSE "done", {})
  /\ UNCHANGED <<disk, indexed, reader>>
\* Redis does not answer: the request ends, what it did stays
SweepFails(c) ==
  /\ changer[c].at \in {"sweep", "unlink"} /\ Go(c, "failed", {})
  /\ unswept' = (unswept \/ (changer[c].op = "scan" /\ found # Nothing))
  /\ UNCHANGED <<disk, indexed, found, packs, reader, storedLate, tornPacks>>
ReadFails(r) ==
  /\ reader[r].at \in {"start", "get", "fill"} /\ End(r)
  /\ UNCHANGED <<disk, indexed, found, packs, changer, unswept, storedLate, tornPacks>>
ExpireKey ==
  /\ \E k \in Present : DropKeys({k})
  /\ UNCHANGED <<disk, indexed, reader, changer>>

AllServed ==
  /\ \A r \in Readers : reader[r].at = "over"
  /\ \A c \in Changers : changer[c].at \in {"done", "failed"}
  /\ UNCHANGED cacheVars

CachesNext ==
  \/ \E r \in Readers :
       \/ SearchGet(r) \/ SearchQuery(r) \/ SearchFill(r) \/ ReadFails(r)
       \/ PackHash(r) \/ PackGet(r) \/ PackRead(r) \/ ContractBuild(r) \/ PackFill(r)
  \/ \E c \in Changers : Mutate(c) \/ Index(c) \/ SweepScan(c) \/ SweepUnlink(c) \/ SweepFails(c)
  \/ ExpireKey \/ AllServed

CachesSpec == CachesInit /\ [][CachesNext]_cacheVars

-----------------------------------------------------------------------------
CachesTypeOK ==
  /\ disk \in Contents /\ indexed \in Contents /\ found \in Contents \cup {Nothing}
  /\ packs \in [PackKeys -> Contents \cup {Empty, Nothing}]
  /\ unswept \in BOOLEAN /\ storedLate \in BOOLEAN /\ tornPacks \subseteq PackKeys

\* A search result that the index has left behind is one a change of a file does
\* not sweep, one stored after the sweep, or one whose sweep is still to come
\* (project_service.py:1947-2153, api/nodes.py:211).
SearchStaleExplained ==
  found \notin {Nothing, indexed} =>
    unswept \/ storedLate \/ \E c \in Changers : changer[c].op = "scan" /\ changer[c].at \in {"sweep", "unlink"}

\* A pack has the content its hash names, unless it was read from a file that the
\* index did not match at the time, or could not be read: then it is empty until
\* the next sweep (context_pack.py:36, 124 and 167).
PackMatchesHash ==
  \A k \in PackKeys \ tornPacks : packs[k] \in {k[2], Nothing} \cup (IF k[1] = "file" THEN {Empty} ELSE {})

\* A change of a file is left out of the index, when all is over, only where the
\* sweep of the packs failed before the indexing was queued (api/nodes.py:342).
LeftOutExplained ==
  (\A c \in Changers : changer[c].at \in {"done", "failed"}) /\ disk # indexed =>
    \E c \in Changers : changer[c].op = "mutate" /\ changer[c].at = "failed"

\* What the caches and the index have left behind is explained: all of the above.
CachesExplained == SearchStaleExplained /\ PackMatchesHash /\ LeftOutExplained
=============================================================================
