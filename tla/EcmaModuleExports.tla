-------------------------- MODULE EcmaModuleExports --------------------------
(***************************************************************************)
(* Which binding an exported name stands for, and which names a namespace  *)
(* object has: ecma_module_resolve_export and                              *)
(* ecma_module_create_namespace_object of jerry-core/ecma/base/            *)
(* ecma-module.c.                                                          *)
(*                                                                         *)
(* One step is one turn of a loop.  A binding is a pair <<module, name>>;  *)
(* the parser admits a name once among the exports of a module, either     *)
(* local or indirect.                                                      *)
(***************************************************************************)
EXTENDS Integers, Sequences, FiniteSets

CONSTANTS Exporter,   \* the modules
          Name,       \* names, "default" among them
          Forwarded,  \* bound: the names of indirect exports
          Renames,    \* whether an indirect export may change the name
          Circular,   \* whether an indirect export may lead back to itself
          MaxStars    \* bound: star exports of a module

ASSUME ExportsAssumption ==
  /\ IsFiniteSet(Exporter) /\ IsFiniteSet(Name) /\ "*" \notin Name
  /\ Renames \in BOOLEAN /\ Circular \in BOOLEAN /\ MaxStars \in Nat

None == <<>>
Pairs == Exporter \X Name

\* How a module may export a name, besides the pair of an indirect export.
Local == <<"local">>
NotExported == <<"none">>

VARIABLES
  export,     \* how a module exports a name: Local, NotExported, or the pair that
              \* an indirect export stands for
  star,       \* star_exports_p, in order
  root,       \* the module that is asked
  task,       \* "resolve" or "namespace", then "done" or "failed"
  asked,      \* the name that is being resolved, or None
  frames,     \* the resolve stack, top last
  resolve_set,
  found,
  record,     \* the record found: a pair, or None if it is ambiguous
  todo,       \* namespace: the stack of modules, top last
  visited,    \* namespace: its resolve set
  visiting,   \* namespace: the current module
  names,      \* namespace: names of the current module left to add
  entries     \* namespace: the properties of the object, with their bindings

exportVars == <<export, star>>
resolveVars == <<asked, frames, resolve_set, found, record>>
namespaceVars == <<todo, visited, visiting, names, entries>>
exportsVars == <<exportVars, root, task, resolveVars, namespaceVars>>

-----------------------------------------------------------------------------
(***************************************************************************)
(* The reference: ES2015 15.2.1.16.3 as reachability.  A local name is its *)
(* own end, an indirect one stands for its pair, and any other name but    *)
(* "default" is looked up in all star exports.  What a pair reaches is the *)
(* least set that has the pair and where its members lead.                 *)
(***************************************************************************)
Stars(m) == {star[m][i] : i \in DOMAIN star[m]}

Leads(p) ==
  CASE export[p] = Local -> {}
    [] export[p] \in Pairs -> {export[p]}
    [] OTHER -> {<<s, p[2]>> : s \in IF p[2] = "default" THEN {} ELSE Stars(p[1])}

Closed(S) == \A q \in S : Leads(q) \subseteq S

Reachable(p) ==
  LET closed == {S \in SUBSET Pairs : p \in S /\ Closed(S)}
  IN {q \in Pairs : \A S \in closed : q \in S}

Bindings(p) == {q \in Reachable(p) : export[q] = Local}

\* Indirect exports that do not stand for one binding: a module that has one does
\* not run, because of ecma_module_check_indirect_exports.
BrokenExports ==
  {p \in Pairs : export[p] \in Pairs /\ Cardinality(Bindings(p)) # 1}

\* Indirect exports that star exports of other modules lead back to.
CircularExports == {p \in Pairs : export[p] \in Pairs /\ p \in Reachable(export[p])}

-----------------------------------------------------------------------------
\* No module names itself, and a star export names a module once.
StarLists ==
  {s \in UNION {[1..k -> Exporter] : k \in 0..MaxStars} :
     \A i, j \in DOMAIN s : s[i] = s[j] => i = j}

StarTables ==
  {t \in [Exporter -> StarLists] :
     \A m \in Exporter : \A i \in DOMAIN t[m] : t[m][i] # m}

ExportTables ==
  {e \in [Pairs -> {Local, NotExported} \cup Pairs] :
     \A p \in Pairs : e[p] \in Pairs =>
       /\ p[2] \in Forwarded
       /\ p[1] # e[p][1]
       /\ Renames \/ e[p][2] = p[2]}

ExportsInit ==
  /\ star \in StarTables
  /\ export \in ExportTables
  /\ BrokenExports = {}
  /\ Circular \/ CircularExports = {}
  /\ root \in Exporter
  /\ task \in {"resolve", "namespace"}
  /\ todo = IF task = "namespace" THEN <<root>> ELSE <<>>
  /\ asked = None
  /\ frames = <<>>
  /\ resolve_set = {}
  /\ found = FALSE
  /\ record = None
  /\ visited = {}
  /\ visiting = root
  /\ names = {}
  /\ entries = {}

-----------------------------------------------------------------------------
(***************************************************************************)
(* ecma_module_resolve_export.                                             *)
(***************************************************************************)
ResolveFrame(p) == [pair |-> p, resolving |-> FALSE]
ResolveTop == frames[Len(frames)]
ResolveBelow == SubSeq(frames, 1, Len(frames) - 1)
Looping == task \in {"resolve", "namespace"} /\ frames # <<>>

\* The loop starts for the name n of the root.
StartResolve(n) ==
  /\ asked' = <<root, n>>
  /\ frames' = <<ResolveFrame(<<root, n>>)>>
  /\ resolve_set' = {}
  /\ found' = FALSE
  /\ record' = None

ResolveName(n) ==
  /\ task = "resolve"
  /\ asked = None
  /\ StartResolve(n)
  /\ UNCHANGED <<exportVars, root, task, namespaceVars>>

UNCHANGED_Rest == UNCHANGED <<exportVars, root, asked, namespaceVars>>

\* A frame that was seen before, or whose turn comes after something was found.
SkipFrame ==
  /\ Looping
  /\ \/ ~ResolveTop.resolving /\ ResolveTop.pair \in resolve_set
     \/ ResolveTop.resolving /\ found
     \/ /\ ResolveTop.resolving
        /\ ResolveTop.pair[2] # "default"
        /\ <<ResolveTop.pair[1], "*">> \in resolve_set
  /\ frames' = ResolveBelow
  /\ UNCHANGED <<task, resolve_set, found, record>>
  /\ UNCHANGED_Rest

\* Faulty variant of LocalExport: a binding that was met before is not recognised.
LocalExportTwice ==
  /\ Looping
  /\ ~ResolveTop.resolving
  /\ export[ResolveTop.pair] = Local
  /\ resolve_set' = resolve_set \cup {ResolveTop.pair}
  /\ found' = TRUE
  /\ record' = IF found THEN None ELSE ResolveTop.pair
  /\ frames' = ResolveBelow
  /\ UNCHANGED task
  /\ UNCHANGED_Rest

\* A new frame: a local export is found, or makes the name ambiguous.
LocalExport ==
  /\ Looping
  /\ ~ResolveTop.resolving
  /\ ResolveTop.pair \notin resolve_set
  /\ export[ResolveTop.pair] = Local
  /\ resolve_set' = resolve_set \cup {ResolveTop.pair}
  /\ found' = TRUE
  /\ record' = IF found THEN None ELSE ResolveTop.pair
  /\ frames' = ResolveBelow
  /\ UNCHANGED task
  /\ UNCHANGED_Rest

\* If there is none, and nothing was found so far, indirect exports come next.
IndirectExport ==
  /\ Looping
  /\ ~ResolveTop.resolving
  /\ ResolveTop.pair \notin resolve_set
  /\ export[ResolveTop.pair] # Local
  /\ resolve_set' = resolve_set \cup {ResolveTop.pair}
  /\ frames' = IF found THEN ResolveBelow
               ELSE Append(ResolveBelow, [ResolveTop EXCEPT !.resolving = TRUE])
                      \o (IF export[ResolveTop.pair] \in Pairs
                            THEN <<ResolveFrame(export[ResolveTop.pair])>> ELSE <<>>)
  /\ UNCHANGED <<task, found, record>>
  /\ UNCHANGED_Rest

Unfinished ==
  /\ Looping
  /\ ResolveTop.resolving
  /\ ~found
  
\* They led nowhere: a default export is not looked up any further,
NoDefault ==
  /\ Unfinished
  /\ ResolveTop.pair[2] = "default"
  /\ task' = "failed"
  /\ UNCHANGED resolveVars
  /\ UNCHANGED <<exportVars, root, namespaceVars>>

\* and another name is looked up in the star exports, by the name that was asked
\* for.
StarExports ==
  /\ Unfinished
  /\ ResolveTop.pair[2] # "default"
  /\ <<ResolveTop.pair[1], "*">> \notin resolve_set
  /\ resolve_set' = resolve_set \cup {<<ResolveTop.pair[1], "*">>}
  /\ frames' = ResolveBelow \o [i \in DOMAIN star[ResolveTop.pair[1]] |->
                            ResolveFrame(<<star[ResolveTop.pair[1]][i], asked[2]>>)]
  /\ UNCHANGED <<task, found, record>>
  /\ UNCHANGED_Rest

\* The loop is over.
Resolved == asked # None /\ frames = <<>>

ResolveEnds ==
  /\ task = "resolve"
  /\ Resolved
  /\ task' = IF found THEN "done" ELSE "failed"
  /\ UNCHANGED <<exportVars, root, resolveVars, namespaceVars>>

-----------------------------------------------------------------------------
(***************************************************************************)
(* ecma_module_create_namespace_object.                                    *)
(***************************************************************************)
Filling == task = "namespace" /\ frames = <<>>
ExportedBy(m) == {n \in Name : export[<<m, n>>] # NotExported}
Handled == {e[1] : e \in entries}

\* Faulty variant of NextModule: "default" is taken from every module.
NextModuleAllDefaults ==
  LET m == todo[Len(todo)]
      rest == SubSeq(todo, 1, Len(todo) - 1)
  IN /\ Filling
     /\ asked = None
     /\ names = {}
     /\ todo # <<>>
     /\ visited' = visited \cup {m}
     /\ visiting' = m
     /\ IF m \in visited
          THEN todo' = rest /\ UNCHANGED names
          ELSE todo' = rest \o star[m] /\ names' = ExportedBy(m)
     /\ UNCHANGED <<exportVars, root, task, resolveVars, entries>>

\* The next module of the stack: its names are added, and its star exports are
\* pushed.  Only the root adds "default".
NextModule ==
  LET m == todo[Len(todo)]
      rest == SubSeq(todo, 1, Len(todo) - 1)
  IN /\ Filling
     /\ asked = None
     /\ names = {}
     /\ todo # <<>>
     /\ visited' = visited \cup {m}
     /\ visiting' = m
     /\ IF m \in visited
          THEN todo' = rest /\ UNCHANGED names
          ELSE /\ todo' = rest \o star[m]
               /\ names' = IF visited = {} THEN ExportedBy(m)
                                          ELSE ExportedBy(m) \ {"default"}
     /\ UNCHANGED <<exportVars, root, task, resolveVars, entries>>

\* ecma_module_namespace_object_add_export_if_needed: a name that has a property
\* is done; another one is resolved from the root, local exports before indirect
\* ones,
NextNames ==
  LET local == {n \in names : export[<<visiting, n>>] = Local}
  IN IF local # {} THEN local ELSE names

AddName(n) ==
  /\ Filling
  /\ asked = None
  /\ n \in NextNames
  /\ names' = names \ {n}
  /\ IF n \in Handled THEN UNCHANGED resolveVars ELSE StartResolve(n)
  /\ UNCHANGED <<exportVars, root, task, todo, visited, visiting, entries>>

\* and added unless it is ambiguous; the creation fails if it is not found.
NameResolved ==
  /\ Filling
  /\ Resolved
  /\ asked' = None
  /\ task' = IF found THEN task ELSE "failed"
  /\ entries' = IF found /\ record # None THEN entries \cup {<<asked[2], record>>}
                                         ELSE entries
  /\ UNCHANGED <<exportVars, root, frames, resolve_set, found, record, todo, visited,
                 visiting, names>>

NamespaceEnds ==
  /\ Filling
  /\ asked = None
  /\ names = {}
  /\ todo = <<>>
  /\ task' = "done"
  /\ UNCHANGED <<exportVars, root, resolveVars, namespaceVars>>

ExportsNext ==
  \/ \E n \in Name : ResolveName(n) \/ AddName(n)
  \/ SkipFrame
  \/ LocalExport
  \/ IndirectExport
  \/ NoDefault
  \/ StarExports
  \/ ResolveEnds
  \/ NextModule
  \/ NameResolved
  \/ NamespaceEnds

ExportsSpec == ExportsInit /\ [][ExportsNext]_exportsVars

-----------------------------------------------------------------------------
(***************************************************************************)
(* Properties.                                                             *)
(***************************************************************************)

\* What ecma_module_resolve_export finds satisfies the export: it is a binding the
\* name may stand for, and the binding is found if there is only one.
ExportSatisfied ==
  asked # None /\ (frames = <<>> \/ task = "failed") =>
    /\ found => record \in {None} \cup Bindings(asked)
    /\ Cardinality(Bindings(asked)) = 1 => found /\ record \in Bindings(asked)
    /\ Bindings(asked) = {} => ~found

\* The creation of a namespace object does not fail, and the object has every name
\* that stands for one binding, and nothing else but names that stand for several.
NamespaceComplete ==
  visited # {} /\ task \in {"done", "failed"} =>
    /\ task = "done"
    /\ \A e \in entries : e[2] \in Bindings(<<root, e[1]>>)
    /\ \A n \in Name : Cardinality(Bindings(<<root, n>>)) = 1 => n \in Handled
=============================================================================
