------------------------------- MODULE Resolve --------------------------------
(***************************************************************************)
(* What an import of a file names (resolve.py).  A path is a sequence of   *)
(* names, a name the sequence of its pieces between dots: a.b.ts is        *)
(* <<"a", "b", "ts">>.  What configuration files say is read once in a     *)
(* process and kept by lru_cache, which nothing clears when they change;   *)
(* and with it whether the directories they replace modules by are there.  *)
(***************************************************************************)
EXTENDS Naturals, SequencesExt

CONSTANTS
  Trees,        \* sets of files a project may have
  Confs,        \* what the configuration files of a project may say
  Imports,      \* [importer, spec]: the imports that are looked up
  RootNames     \* the names of the directories down to the root of the project

NoFile == <<"no file">>

\* a path is a sequence of names, a name a sequence of pieces; NoFile is no file
Path == Seq(Seq(STRING))
ASSUME ImportsAssumption ==
  /\ RootNames \in Path /\ \A tree \in Trees : NoFile \notin tree
  /\ \A imp \in Imports :
       /\ imp.importer \in Path \ {<<>>} /\ imp.spec.path \in Path
       /\ imp.spec.up \in Nat /\ imp.spec.kind \in {"js", "py", "bare"}

VARIABLES
  files,        \* the files there are
  conf,         \* what the configuration files say
  kept,         \* lru_cache: what was asked for to what was read for it
  answer        \* [import, path, fresh, old]: the last answer, that of a new process

resolveVars == <<files, conf, kept, answer>>

JsExts == <<<<"ts">>, <<"js">>>>      \* standing for the nine of the code
PyExts == <<<<"py">>, <<"pyi">>>>
PackageExts == JsExts \o <<<<"d", "ts">>>>

FirstOf(paths) ==
  LET there == {i \in DOMAIN paths : paths[i] \in files} IN
  IF there = {} THEN NoFile ELSE paths[CHOOSE i \in there : \A k \in there : i <= k]
Or(p, q) == IF p # NoFile THEN p ELSE q
Suffix(path) ==
  IF path = <<>> \/ Len(Last(path)) < 2 THEN <<>> ELSE <<Last(Last(path))>>
WithSuffix(path, ext) ==
  Append(Front(path), (IF Suffix(path) = <<>> THEN Last(path) ELSE Front(Last(path))) \o ext)

\* _try_files: Path.with_suffix replaces the last piece of a name with dots
TryFiles(base, exts) ==
  LET known == Suffix(base) \in ToSet(exts)
      order == IF known THEN <<Suffix(base)>> \o SelectSeq(exts, LAMBDA e : e # Suffix(base)) ELSE exts
  IN FirstOf((IF known THEN <<base>> ELSE <<>>)
             \o (IF base = <<>> THEN <<>> ELSE [i \in DOMAIN order |-> WithSuffix(base, order[i])])
             \o [i \in DOMAIN order |-> Append(base, <<"index">> \o order[i])])

Up(dir, n) == SubSeq(dir, 1, Len(dir) - n)
InitFiles(base) == <<Append(base, <<"__init__", "py">>), Append(base, <<"__init__", "pyi">>)>>

\* Mutant: the steps up are forgotten.
JsFromHere(dir, spec) ==
  LET base == dir \o spec.path IN
  IF base \in files THEN base ELSE TryFiles(base, JsExts \o PyExts)

\* where a relative path leads within the project, if it does: above the root there
\* is nothing but the way back, by the names of the directories down to it
Bases(dir, spec) ==
  LET over == IF spec.up - Len(dir) < Len(RootNames) THEN spec.up - Len(dir) ELSE Len(RootNames)
      back == SubSeq(RootNames, Len(RootNames) - over + 1, Len(RootNames))
  IN IF spec.up <= Len(dir) THEN {Up(dir, spec.up) \o spec.path}
     ELSE IF IsPrefix(back, spec.path) THEN {SubSeq(spec.path, over + 1, Len(spec.path))}
     ELSE {}

\* resolve_spec of "./..." and "../..."
JsRelative(dir, spec) ==
  IF Bases(dir, spec) = {} THEN NoFile
  ELSE LET base == CHOOSE b \in Bases(dir, spec) : TRUE IN
       IF base \in files THEN base ELSE TryFiles(base, JsExts \o PyExts)
\* _resolve_python_relative
PyRelative(dir, spec) ==
  IF Bases(dir, spec) = {} THEN NoFile
  ELSE LET base == CHOOSE b \in Bases(dir, spec) : TRUE IN
       Or(TryFiles(base, PyExts), FirstOf(InitFiles(base)))
\* resolve_spec, at last: a dotted module under the root or under src
Modules(spec) ==
  LET parts == FlattenSeq([i \in DOMAIN spec.path |-> [k \in DOMAIN spec.path[i] |-> <<spec.path[i][k]>>]])
      under(root) == Or(TryFiles(root \o parts, PyExts), FirstOf(InitFiles(root \o parts)))
  IN Or(under(<<>>), under(<<<<"src">>>>))
\* resolve_spec of "x.php": from the importer, then from the root
Php(dir, spec) ==
  IF Suffix(spec.path) # <<"php">> THEN NoFile ELSE FirstOf(<<dir \o spec.path, spec.path>>)

-----------------------------------------------------------------------------
\* _parse_go_replaces: the replacements of a go.mod or a go.work, within the project
Replacements(key) ==
  CASE key[1] = "replaces" /\ key[2] \in DOMAIN conf.gomod -> conf.gomod[key[2]].replaces
    [] key[1] = "work" /\ key[2] \in DOMAIN conf.gowork -> conf.gowork[key[2]].replaces
    [] OTHER -> {}
\* _localize_path: a replacement counts where its directory is there; an empty
\* directory is one with a file in it that no import names
Localized(replaces) ==
  {r \in replaces : r.new = <<>> \/ \E f \in files : IsStrictPrefix(r.new, f)}
\* what is read at once where it is not in the cache, and what the process sees
ReadFor(key) == [conf |-> conf, replaces |-> Localized(Replacements(key))]
Seen(known, key) == IF key \in DOMAIN known THEN known[key] ELSE ReadFor(key)

\* the nearest directory, from here up to the root, that is in a set
Nearest(dir, dirs) ==
  LET above == {n \in 0..Len(dir) : SubSeq(dir, 1, n) \in dirs} IN
  {SubSeq(dir, 1, n) : n \in {k \in above : \A o \in above : o <= k}}
Rest(prefix, path) == SubSeq(path, Len(prefix) + 1, Len(path))

\* _tsconfig_info, _resolve_tsconfig_path: an exact path, the longest pattern one
\* of whose targets is there, then the base itself
TsInfo(known, dir) ==
  LET c == Seen(known, <<"ts", dir>>).conf.tsconfig IN {c[d] : d \in Nearest(dir, DOMAIN c)}
TsConfig(known, importer, spec) ==
  IF Suffix(importer) \notin ToSet(JsExts) \/ TsInfo(known, Front(importer)) = {} THEN NoFile
  ELSE LET info == CHOOSE i \in TsInfo(known, Front(importer)) : TRUE
           target(p) == TryFiles(info.base \o p.target \o (IF p.star THEN Rest(p.prefix, spec.path) ELSE <<>>), JsExts)
           exact == {p \in info.paths : ~p.star /\ p.prefix = spec.path /\ target(p) # NoFile}
           stars == {p \in info.paths : p.star /\ IsStrictPrefix(p.prefix, spec.path) /\ target(p) # NoFile}
       IN IF exact # {} THEN target(CHOOSE p \in exact : TRUE)
          ELSE IF stars # {} THEN target(CHOOSE p \in stars : \A q \in stars : Len(q.prefix) <= Len(p.prefix))
          ELSE TryFiles(info.base \o spec.path, JsExts)

\* the workspaces package.json, pnpm-workspace.yaml and the lock files name
Workspaces(c) == c.workspaces
\* _local_package_info: packages/*, apps/*, the workspaces and the root
Packages(known) ==
  LET c == Seen(known, <<"packages">>).conf IN
  {c.packages[d] : d \in {d \in DOMAIN c.packages :
     \/ d = <<>> \/ d \in Workspaces(c)
     \/ Len(d) = 2 /\ d[1] \in {<<"packages">>, <<"apps">>}}}
\* _resolve_package_target, _export_targets: the first target that is there
Target(p, targets) ==
  LET found == [i \in DOMAIN targets |-> TryFiles(p.dir \o targets[i], PackageExts)]
      there == SelectSeq(found, LAMBDA f : f # NoFile)
  IN IF there = <<>> THEN NoFile ELSE Head(there)
\* _resolve_package_entry: the exports, the path within, or the main file
Entry(p, sub) ==
  Or(IF sub \in DOMAIN p.exports THEN Target(p, p.exports[sub]) ELSE NoFile,
     IF sub # <<>> THEN TryFiles(p.dir \o sub, PackageExts)
     ELSE Or(Target(p, p.main), TryFiles(Append(p.dir, <<"index">>), PackageExts)))
\* _resolve_local_package: of the packages of the longest name, the first that answers
LocalPackage(known, spec) ==
  LET fit == {p \in Packages(known) : IsPrefix(p.name, spec.path)}
      best == {p \in fit : \A q \in fit : Len(q.name) <= Len(p.name)}
      there == {p \in best : Entry(p, Rest(p.name, spec.path)) # NoFile}
  IN IF there = {} THEN NoFile
     ELSE LET p == CHOOSE p \in there : TRUE IN Entry(p, Rest(p.name, spec.path))

\* _nearest_go_module, _go_mod_local_replaces, _nearest_go_work_dir, _go_work_info
GoModule(known, dir) ==
  LET c == Seen(known, <<"gomod", dir>>).conf.gomod IN
  {[prefix |-> c[d].module, dir |-> d, rank |-> 0] : d \in Nearest(dir, DOMAIN c)}
Replaces(known, dir, rank) ==
  {[prefix |-> r.old, dir |-> r.new, rank |-> rank] : r \in Seen(known, <<"replaces", dir>>).replaces}
GoWorkDir(known, dir) == Nearest(dir, DOMAIN Seen(known, <<"gowork", dir>>).conf.gowork)
GoUses(known, work) ==
  LET c == Seen(known, <<"work", work>>).conf IN
  IF work \notin DOMAIN c.gowork THEN {}
  ELSE {[prefix |-> c.gomod[d].module, dir |-> d, rank |-> 1] : d \in c.gowork[work].uses \cap DOMAIN c.gomod}
GoWorkReplaces(known, work) ==
  {[prefix |-> r.old, dir |-> r.new, rank |-> 1] : r \in Seen(known, <<"work", work>>).replaces}

\* _best_prefix_match: the longest, then the one of the lowest rank
BestPrefix(spec, candidates) ==
  LET fit == {c \in candidates : c.prefix # <<>> /\ IsPrefix(c.prefix, spec.path)} IN
  {c \in fit : \A o \in fit : \/ Len(c.prefix) > Len(o.prefix)
                              \/ Len(c.prefix) = Len(o.prefix) /\ c.rank <= o.rank}
\* _pick_go_file, of the best candidate alone: the one that is chosen stands for the
\* first that is listed, and its file for the first of the package by name
GoFile(spec, candidates) ==
  LET c == CHOOSE c \in BestPrefix(spec, candidates) : TRUE
      dir == c.dir \o Rest(c.prefix, spec.path)
      in == {f \in files : Len(f) = Len(dir) + 1 /\ IsPrefix(dir, f) /\ Suffix(f) = <<"go">>}
  IN IF BestPrefix(spec, candidates) = {} \/ in = {} THEN NoFile ELSE CHOOSE f \in in : TRUE
GoPackage(known, dir, spec) ==
  LET near == GoModule(known, dir)
      works == GoWorkDir(known, dir)
      uses == UNION {GoUses(known, w) : w \in works}
  IN Or(GoFile(spec, UNION ({Replaces(known, m.dir, 0) : m \in near}
                            \cup {Replaces(known, m.dir, 2) : m \in uses}
                            \cup {GoWorkReplaces(known, w) : w \in works})),
        GoFile(spec, near \cup uses))

\* resolve_spec
ResolveSpec(known, imp) ==
  LET dir == Front(imp.importer) IN
  CASE imp.spec.kind = "js" -> JsRelative(dir, imp.spec)
    [] imp.spec.kind = "py" -> PyRelative(dir, imp.spec)
    [] OTHER -> Or(Php(dir, imp.spec),
                Or(TsConfig(known, imp.importer, imp.spec),
                Or(LocalPackage(known, imp.spec),
                Or(GoPackage(known, dir, imp.spec), Modules(imp.spec)))))
\* what of the configuration it asks for, and so has in the cache afterwards
Asked(known, imp) ==
  LET dir == Front(imp.importer)
      ts == TsConfig(known, imp.importer, imp.spec)
      far == Or(ts, LocalPackage(known, imp.spec)) = NoFile
  IN IF imp.spec.kind \in {"js", "py"} \/ Php(dir, imp.spec) # NoFile THEN {}
     ELSE (IF Suffix(imp.importer) \in ToSet(JsExts) THEN {<<"ts", dir>>} ELSE {})
       \cup (IF ts = NoFile THEN {<<"packages">>} ELSE {})
       \cup (IF ~far THEN {}
             ELSE {<<"gomod", dir>>, <<"gowork", dir>>}
               \cup {<<"work", w>> : w \in GoWorkDir(known, dir)}
               \cup {<<"replaces", m.dir>> : m \in GoModule(known, dir)
                       \cup UNION {GoUses(known, w) : w \in GoWorkDir(known, dir)}})

-----------------------------------------------------------------------------
NoLookup == [import |-> {}, path |-> NoFile, fresh |-> NoFile, old |-> FALSE]
ImportsInit ==
  /\ files \in Trees /\ conf \in Confs /\ kept = <<>> /\ answer = NoLookup

\* an import of a scan, answered in the process of the pool it is looked up in
Lookup ==
  /\ \E imp \in Imports :
       LET asked == Asked(kept, imp) IN
       /\ answer' = [import |-> {imp}, path |-> ResolveSpec(kept, imp), fresh |-> ResolveSpec(<<>>, imp),
                     old |-> \E k \in asked \cap DOMAIN kept : kept[k] # ReadFor(k)]
       /\ kept' = [k \in asked \cup DOMAIN kept |-> Seen(kept, k)]
  /\ UNCHANGED <<files, conf>>
\* the project is changed: a file, or a configuration file
Edit ==
  /\ \/ files' \in Trees \ {files} /\ UNCHANGED conf
     \/ conf' \in Confs \ {conf} /\ UNCHANGED files
  /\ answer' = NoLookup /\ UNCHANGED kept
\* the process of the pool ends, or entries make way for others
NewProcess == kept # <<>> /\ kept' = <<>> /\ answer' = NoLookup /\ UNCHANGED <<files, conf>>

ImportsNext == Lookup \/ Edit \/ NewProcess
ImportsSpec == ImportsInit /\ [][ImportsNext]_resolveVars

-----------------------------------------------------------------------------
Plain(path) == path = <<>> \/ Len(Last(path)) = 1
Appended(base, exts) ==
  {Append(Front(base), Last(base) \o exts[i]) : i \in IF base = <<>> THEN {} ELSE DOMAIN exts}
    \cup {Append(base, <<"index">> \o exts[i]) : i \in DOMAIN exts}

\* A relative import that names a file of the project is answered with such a
\* file, and no other file is, unless the name has a dot in it: then its last
\* piece is replaced and another file may be taken (resolve.py:27).
ResolvesAsNamed ==
  \A imp \in answer.import :
    LET dir == Front(imp.importer)
        base == Up(dir, imp.spec.up) \o imp.spec.path
        named == {base} \cup Appended(base, JsExts \o PyExts)
                   \cup (IF imp.spec.kind = "py" THEN ToSet(InitFiles(base)) ELSE {})
    IN imp.spec.kind \in {"js", "py"} /\ imp.spec.up <= Len(dir) /\ Plain(base) =>
         /\ answer.path # NoFile => answer.path \in named \cap files
         /\ imp.spec.kind = "js" /\ named \cap files # {} => answer.path # NoFile

\* An answer differs from the one a new process would give only where something it
\* asked for was read before the configuration changed, or before the directory of
\* one of its replacements appeared or vanished; an import by a relative path is
\* never stale (resolve.py:194, 466, 471, 497, 517, 565, 757).
StaleAnswerExplained ==
  answer.path # answer.fresh =>
    answer.old /\ \A imp \in answer.import : imp.spec.kind \notin {"js", "py"}

\* An answer is the file that is named, or the reason is known: both of the above.
ImportsExplained == ResolvesAsNamed /\ StaleAnswerExplained
=============================================================================
