---------------------------- MODULE ImportGraph ----------------------------
(***************************************************************************)
(* How imports are resolved and their cycles found (tools/metrics/         *)
(* dependencies.py), measured (tools/metrics/architecture.py) and broken   *)
(* (tools/refactoring/circular_imports.py).                                *)
(*                                                                         *)
(* A file is [root, parts, package]: its dotted name under its import root *)
(* and whether it is an __init__.py.                                       *)
(***************************************************************************)
EXTENDS Integers, Lists, SequencesExt, FiniteSetsExt

-----------------------------------------------------------------------------
(* Resolution *)

\* workspace_import_roots, in resolution order; "." is the workspace.
ImportRoots == <<"src", "lib", ".">>

\* The names of a file under a root: those of the other roots are below the
\* workspace too.
NamesUnder(f, root) ==
    IF f.root = root THEN {f.parts}
    ELSE IF root = "." THEN {<<f.root>> \o f.parts} ELSE {}

\* source_package_parts: what a relative import starts from.
PackageOf(f) == IF f.package THEN f.parts ELSE Front(f.parts)

\* resolve_import_from: the dotted names an import may start with, none above
\* the top level.
Bases(f, import) ==
    LET package == PackageOf(f) IN
    IF import.level = 0 THEN {import.module}
    ELSE IF import.level > Len(package) THEN {}
    ELSE {SubSeq(package, 1, Len(package) - (import.level - 1)) \o import.module}

\* _resolve_module_to_file: the first root that has the name, and there the
\* package before the module.
ResolveModule(parts, roots, files) ==
    LET Named(root) == {f \in files : parts \in NamesUnder(f, root)}
        having == SelectSeq(roots, LAMBDA r : Named(r) # {})
        named == IF having = <<>> THEN {} ELSE Named(Head(having))
        packages == {f \in named : f.package}
    IN IF packages # {} THEN packages ELSE named

\* Mutant: a relative import is searched in the order of the roots.
RootsInOrder(f) == ImportRoots

\* _source_first_import_roots
SourceFirst(f) == <<f.root>> \o SelectSeq(ImportRoots, LAMBDA r : r # f.root)

\* _resolve_from_target: a child module before a name of the module.
ResolveFrom(f, import, files) ==
    LET roots == IF import.level > 0 THEN SourceFirst(f) ELSE ImportRoots
        children == UNION {ResolveModule(Append(base, import.name), roots, files) :
                           base \in Bases(f, import)}
    IN IF children # {} THEN children
       ELSE UNION {ResolveModule(base, roots, files) : base \in Bases(f, import)}

-----------------------------------------------------------------------------
(* Cycles.  A statement is [source, place, aliases]: place is "top" for a    *)
(* simple statement of the module, "block" for one that runs on import but   *)
(* is not, "function" or "guarded" by TYPE_CHECKING.  An alias is [target,   *)
(* use]: the file it resolves to (Outside, if none), and where its binding   *)
(* is used: in annotations, at run time, in __all__.                         *)

Outside == 0

\* _is_runtime_import
RunsOnImport(s) == s.place \notin {"function", "guarded"}

Imported(s) == {a.target : a \in s.aliases} \ {Outside}

\* The graph of the imports that run on import.
RuntimeGraph(files, statements) ==
    [f \in files |-> UNION {Imported(s) : s \in {t \in ToSet(statements) :
                                                  t.source = f /\ RunsOnImport(t)}}]

Unseen == -1
Smaller(x, y) == IF x < y THEN x ELSE y

\* Mutant: a neighbor of a finished component counts too.
LowersAlways(t, n) == TRUE

\* A neighbor that was seen lowers the link only while it is on the stack.
Lowers(t, n) == n \in ToSet(t.stack)

RECURSIVE StrongConnect(_, _, _)
StrongConnect(graph, node, t) ==
    LET opened == [t EXCEPT !.index[node] = t.next, !.low[node] = t.next,
                            !.next = @ + 1, !.stack = Append(@, node)]
        Look(w, n) ==
            IF w.index[n] = Unseen
            THEN LET v == StrongConnect(graph, n, w)
                 IN [v EXCEPT !.low[node] = Smaller(@, v.low[n])]
            ELSE IF Lowers(w, n) THEN [w EXCEPT !.low[node] = Smaller(@, w.index[n])] ELSE w
        looked == FoldLeft(Look, opened, Ascending(graph[node]))
        below == SelectInSeq(looked.stack, LAMBDA n : n = node) - 1
        component == ToSet(SubSeq(looked.stack, below + 1, Len(looked.stack)))
    IN IF looked.low[node] # looked.index[node] THEN looked
       ELSE [looked EXCEPT !.stack = SubSeq(@, 1, below),
                           !.cycles = IF Cardinality(component) > 1 \/ node \in graph[node]
                                      THEN @ \cup {component} ELSE @]

\* _find_cycles
FindCycles(graph) ==
    LET unseen == [n \in DOMAIN graph |-> Unseen]
        Visit(t, n) == IF t.index[n] = Unseen THEN StrongConnect(graph, n, t) ELSE t
    IN FoldLeft(Visit, [index |-> unseen, low |-> unseen, next |-> 0, stack |-> <<>>, cycles |-> {}],
                Ascending(DOMAIN graph)).cycles

-----------------------------------------------------------------------------
(* Coupling and layers *)

\* get_coupling_metrics counts every import, whenever it runs.
Efferent(files, statements) ==
    [f \in files |-> UNION {Imported(s) \cap files : s \in {t \in ToSet(statements) : t.source = f}}]

Coupling(files, statements) ==
    LET efferent == Efferent(files, statements)
    IN [f \in files |-> [ce |-> Cardinality(efferent[f]),
                         ca |-> Cardinality({g \in files : f \in efferent[g]})]]

\* _pattern_matches: a dotted pattern is a prefix of the name, a plain one is
\* one of its components.
PatternMatches(pattern, dotted, components) ==
    IF Len(pattern) > 1 THEN IsPrefix(pattern, dotted) ELSE pattern[1] \in components

NoLayer == 0

\* layers[l] is the patterns of a layer, in no other; the first that matches
\* decides.
LayerOf(layers, dotted, components) ==
    LET matching == {l \in DOMAIN layers :
                        \E p \in layers[l] : PatternMatches(p, dotted, components)}
    IN IF matching = {} THEN NoLayer ELSE Min(matching)

TargetLayer(layers, dotted) == LayerOf(layers, dotted, ToSet(dotted))

\* A source's components are those of its path: the directories, and the file
\* name with its suffix.
SourceLayer(layers, f) ==
    LayerOf(layers, f.parts,
            {f.root} \cup ToSet(IF f.package THEN f.parts ELSE Front(f.parts)))

\* check_layer_violations: a from-import counts as one of its base, and as one
\* of the imported child when the base is of no layer.
ImportedLayer(layers, import) ==
    LET base == TargetLayer(layers, import.module)
    IN IF import.name = "" \/ base # NoLayer THEN base
       ELSE TargetLayer(layers, Append(import.module, import.name))

Violates(layers, f, import) ==
    LET source == SourceLayer(layers, f)
        target == ImportedLayer(layers, import)
    IN NoLayer \notin {source, target} /\ source > target

-----------------------------------------------------------------------------
(* fix_circular_imports *)

\* _cycle_lines_by_source: an import from one module of a cycle to another.
OnCycle(s, cycles) == \E c \in cycles : s.source \in c /\ Imported(s) \cap c # {}

AnnotationOnly(a) == "annotation" \in a.use /\ a.use \cap {"runtime", "exported"} = {}

\* Mutant: one annotation-only binding is enough to move a statement.
MovesAny(s) == \E a \in s.aliases : AnnotationOnly(a)

Moves(s) == \A a \in s.aliases : AnnotationOnly(a)

\* All files are transformed before one is written: when one cannot be, or
\* the scan failed, nothing is.
FixCircularImports(q) ==
    LET cycles == FindCycles(RuntimeGraph(q.files, q.statements))
        moved == {k \in DOMAIN q.statements :
                    LET s == q.statements[k]
                    IN s.place = "top" /\ s.source \in q.requested /\ OnCycle(s, cycles) /\ Moves(s)}
    IN IF q.unscanned \/ \E k \in moved : q.statements[k].source \in q.guardTaken
       THEN [error |-> TRUE, statements |-> q.statements]
       ELSE [error |-> FALSE, statements |-> [k \in DOMAIN q.statements |->
                IF k \in moved THEN [q.statements[k] EXCEPT !.place = "guarded"]
                ELSE q.statements[k]]]

-----------------------------------------------------------------------------
(* What the answers mean *)

\* A relative import finds the module beside its source, whatever an earlier
\* root holds under the same name.
ResolutionExact(q) ==
    LET found == ResolveFrom(q.file, q.import, q.files)
        beside == {g \in q.files : g.root = q.file.root
                    /\ \E base \in Bases(q.file, q.import) : g.parts = Append(base, q.import.name)}
    IN /\ Cardinality(found) <= 1
       /\ q.import.level > 0 /\ beside # {} => found \subseteq beside /\ found # {}
       /\ q.import.level > Len(PackageOf(q.file)) => found = {}

\* The nodes reachable in one step or more.
Reachable(graph, node) ==
    LET reach[d \in 0..Cardinality(DOMAIN graph)] ==
            IF d = 0 THEN graph[node]
            ELSE reach[d - 1] \cup UNION {graph[n] : n \in reach[d - 1]}
    IN reach[Cardinality(DOMAIN graph)]

\* The cycles are the classes of modules that reach one another.
CyclesExact(graph, cycles) ==
    LET reach == [n \in DOMAIN graph |-> Reachable(graph, n)]
    IN cycles = {{m \in reach[n] : n \in reach[m]} : n \in {m \in DOMAIN graph : m \in reach[m]}}

\* What one module imports another is imported by.
CouplingBalances(files, coupling) ==
    FoldSet(LAMBDA f, n : n + coupling[f].ce, 0, files)
        = FoldSet(LAMBDA f, n : n + coupling[f].ca, 0, files)

\* When no import is reported, and each module is of one layer as a source and
\* as a target, a cycle of imports stays in one layer.  imports[f] gives the
\* files f imports and how.
LayersSound(q) ==
    LET graph == [f \in q.files |-> {i.of : i \in q.imports[f]}]
        Reported(f, i) == Violates(q.layers, f, i)
        Plain(f) == SourceLayer(q.layers, f) = TargetLayer(q.layers, f.parts)
    IN \/ \E f \in q.files : \E i \in q.imports[f] : Reported(f, i)
       \/ \E f \in q.files : ~Plain(f) \/ SourceLayer(q.layers, f) = NoLayer
       \/ \E f \in q.files : \E i \in q.imports[f] :
             ImportedLayer(q.layers, i) # TargetLayer(q.layers, i.of.parts)
       \/ \A f, g \in q.files : f \in Reachable(graph, g) /\ g \in Reachable(graph, f)
                                => SourceLayer(q.layers, f) = SourceLayer(q.layers, g)

\* A failed fix changes nothing.  A fix keeps what is needed at run time
\* imported, and moves only statements of a cycle; when all files are asked for, no
\* cycle is left that it could still have broken.
FixSafe(q, r) ==
    LET before == RuntimeGraph(q.files, q.statements)
        after == RuntimeGraph(q.files, r.statements)
        again == FixCircularImports([q EXCEPT !.statements = r.statements])
    IN /\ r.error => r.statements = q.statements
       /\ \A k \in DOMAIN q.statements : LET s == q.statements[k] IN
             /\ \A a \in s.aliases : a.use \cap {"runtime", "exported"} # {}
                   => r.statements[k] = s
             /\ r.statements[k] # s
                   => \E t \in Imported(s) : s.source \in Reachable(before, t)
       /\ \A c \in FindCycles(after) : \E d \in FindCycles(before) : c \subseteq d
       /\ again.statements = r.statements
       /\ ~r.error /\ q.requested = q.files =>
             \A c \in FindCycles(after) : \A k \in DOMAIN q.statements :
                LET s == r.statements[k]
                IN s.place = "top" /\ s.source \in c /\ Imported(s) \cap c # {}
                   => \E a \in s.aliases : a.use # {"annotation"}
=============================================================================
