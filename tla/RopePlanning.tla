---------------------------- MODULE RopePlanning ----------------------------
(***************************************************************************)
(* The refactorings of backends/rope_backend.py, from the checks of their  *)
(* arguments to the result of a preview or an apply, as functions of what  *)
(* Rope computes.  Its histories and change stacks are RopeHistory's.      *)
(*                                                                         *)
(* A workspace tree is a function from paths, which are sequences of names,*)
(* to Folder or a file's text.  Rope's changes are leaves [kind, path, to, *)
(* folder, text] in the order they are performed.                          *)
(***************************************************************************)
EXTENDS Integers, FiniteSets, TLC, SequencesExt

Folder == "folder"

-----------------------------------------------------------------------------
(* Rope's changes *)

\* _is_within
Within(path, root) == IsPrefix(root, path)

\* Mutant: the files of a moved folder stay where they were.
RelocatedItself(path, source, target) == IF path = source THEN target ELSE path

Relocated(path, source, target) ==
    IF Within(path, source) THEN target \o SubSeq(path, Len(source) + 1, Len(path)) ELSE path

\* What performing one change does to the tree.
Perform(tree, c) ==
    LET Lands(x) == IF Within(x, c.path)
                    THEN c.to \o SubSeq(x, Len(c.path) + 1, Len(x)) ELSE x
    IN CASE c.kind = "contents" -> (c.path :> c.text) @@ tree
         [] c.kind = "create" -> (c.path :> IF c.folder THEN Folder ELSE "") @@ tree
         [] c.kind = "remove" -> [p \in {x \in DOMAIN tree : ~Within(x, c.path)} |-> tree[p]]
         [] c.kind = "move" -> [p \in {Lands(x) : x \in DOMAIN tree} |->
                                    tree[CHOOSE x \in DOMAIN tree : Lands(x) = p]]

PerformAll(tree, changes) == FoldLeft(Perform, tree, changes)

-----------------------------------------------------------------------------
(* What a preview tells *)

Rewrites(changes) == SelectSeq(changes, LAMBDA c : c.kind = "contents")

\* _changes_to_edits reads the file of every rewrite as it is on the disk now.
Readable(tree, changes) ==
    \A c \in ToSet(Rewrites(changes)) : c.path \in DOMAIN tree /\ tree[c.path] # Folder

\* Mutant: rewrites that change nothing are edits too.
EditsAll(tree, changes) == Rewrites(changes)

Edits(tree, changes) == SelectSeq(Rewrites(changes), LAMBDA c : c.text # tree[c.path])

FileOperations(changes) == SelectSeq(changes, LAMBDA c : c.kind # "contents")

\* _files_after: the files the changes touch, at their paths afterwards.
FilesAfter(changes, edits) ==
    LET edited == {e.path : e \in ToSet(edits)}
        Follow(files, c) ==
            CASE c.kind = "contents" -> files \cup ({c.path} \cap edited)
              [] c.kind = "create" -> files \cup (IF c.folder THEN {} ELSE {c.path})
              [] c.kind = "remove" -> {f \in files : ~Within(f, c.path)}
              [] c.kind = "move" -> {Relocated(f, c.path, c.to) : f \in files}
                                    \cup (IF c.folder THEN {} ELSE {c.to})
    IN FoldLeft(Follow, {}, changes)

-----------------------------------------------------------------------------
(* Applying it *)

WriteAll(tree, edits) == FoldLeft(Perform, tree, edits)

\* Mutant: what was written before the failure stays.
RestoreNothing(tree, written) == WriteAll(tree, written)

\* The files that were written get their originals back.
Restore(tree, written) ==
    FoldLeft(LAMBDA t, e : (e.path :> tree[e.path]) @@ t, WriteAll(tree, written), written)

\* _apply_edits; failing is the write that fails, if any.
ApplyEdits(tree, edits, failing) ==
    IF failing \in DOMAIN edits THEN Restore(tree, SubSeq(edits, 1, failing - 1))
    ELSE WriteAll(tree, edits)

\* ChangeSet.do and ChangeStack.push undo what they did when a change fails.
Do(tree, changes, failing) ==
    IF failing \in DOMAIN changes THEN tree ELSE PerformAll(tree, changes)

Refused(why, tree) == [error |-> why, applied |-> FALSE, edits |-> <<>>, operations |-> <<>>,
                       files |-> {}, tree |-> tree]

\* _build_result: through Rope when a change stack is open or there are file
\* operations, else by writing the edits.
BuildResult(q) ==
    LET edits == Edits(q.tree, q.changes)
        operations == FileOperations(q.changes)
        performed == IF q.stacked \/ operations # <<>> THEN q.changes ELSE edits
        failed == q.apply /\ q.failing \in DOMAIN performed
        after == IF q.stacked \/ operations # <<>> THEN Do(q.tree, q.changes, q.failing)
                 ELSE ApplyEdits(q.tree, edits, q.failing)
    IN IF ~Readable(q.tree, q.changes) THEN Refused("rope", q.tree)
       ELSE IF failed THEN Refused("rope", after)
       ELSE [error |-> "none", applied |-> q.apply, edits |-> edits, operations |-> operations,
             files |-> FilesAfter(q.changes, edits),
             tree |-> IF q.apply THEN after ELSE q.tree]

-----------------------------------------------------------------------------
(* The refactorings: what each checks before Rope computes its changes, in  *)
(* order.                                                                   *)

Rename == <<"project", "resource", "position">>
ExtractMethod == <<"project", "resource", "start", "end">>
ExtractVariable == <<"project", "resource", "start", "end">>
Inline == <<"project", "resource", "position">>
MoveSymbol == <<"project", "resource", "destination", "symbol">>
IntroduceParameter == <<"project", "resource", "position">>
EncapsulateField == <<"project", "resource", "position">>
ChangeSignature == <<"project", "resource", "position", "operations">>
Restructure == <<"project", "resource">>
UseFunction == <<"project", "resource", "position">>
IntroduceFactory == <<"project", "resource", "position">>
ModuleToPackage == <<"project", "resource">>
LocalToField == <<"project", "resource", "position">>
MethodObject == <<"project", "resource", "position">>
InlineMethod == <<"project", "resource", "position">>
InlineParameter == <<"project", "resource", "position">>
MoveMethod == <<"project", "resource", "position">>
MoveModule == <<"project", "resource", "destination">>
GenerateCode == <<"kind", "project", "resource", "position">>
FixModuleNames == <<"project">>
ExpandStarImports == <<"project", "resource">>
RelativesToAbsolutes == <<"project", "resource">>
FromsToImports == <<"project", "resource">>
HandleLongImports == <<"project", "resource">>

Refactorings == {Rename, ExtractMethod, ExtractVariable, Inline, MoveSymbol, IntroduceParameter,
    EncapsulateField, ChangeSignature, Restructure, UseFunction, IntroduceFactory,
    ModuleToPackage, LocalToField, MethodObject, InlineMethod, InlineParameter, MoveMethod,
    MoveModule, GenerateCode, FixModuleNames, ExpandStarImports, RelativesToAbsolutes,
    FromsToImports, HandleLongImports}

\* The arguments whose fault is the caller's: a path outside the workspace, a
\* position that is not in the file.  A file that is not there, the symbol and
\* the kind of code to generate are Rope errors here.
InputChecks == {"resource", "destination", "position", "start", "end", "operations"}

\* The first check that fails decides; Rope may refuse after them all.
Refactor(q) ==
    LET failing == SelectSeq(q.method, LAMBDA check : check \in q.faults)
    IN IF failing # <<>>
       THEN Refused(IF Head(failing) \in InputChecks THEN "input" ELSE "rope", q.tree)
       ELSE IF "rope" \in q.faults THEN Refused("rope", q.tree)
       ELSE BuildResult(q)

-----------------------------------------------------------------------------
(* change_signature.  An operation is [op, index, named]; index is NoIndex  *)
(* when it is missing.  defaults tells of each parameter whether it has one.*)

NoIndex == -1

\* _build_signature_changers: what an operation must have.
Complete(o) ==
    CASE o.op \in {"remove", "inline_default"} -> o.index # NoIndex
      [] o.op \in {"add", "rename"} -> o.index # NoIndex /\ o.named
      [] o.op = "reorder" -> o.named
      [] o.op = "normalize" -> TRUE
      [] OTHER -> FALSE

\* How many operations before the k-th do this.
Doing(op, operations, k) == Cardinality({j \in 1..(k - 1) : operations[j].op = op})

\* Mutant: a removed parameter is still counted.
CountedAdds(defaults, operations, k) == Len(defaults) + Doing("add", operations, k)

\* The number of parameters that _validate_inline_default_targets expects at the
\* k-th operation.
Counted(defaults, operations, k) ==
    Len(defaults) + Doing("add", operations, k) - Doing("remove", operations, k)

\* Mutant: an earlier default may stay before a parameter that loses its own.
InlinableWithDefault(defaults, i) == defaults[i + 1]

Inlinable(defaults, i) == defaults[i + 1] /\ \A j \in 1..i : ~defaults[j]

Accepts(defaults, operations) ==
    /\ \A o \in ToSet(operations) : Complete(o)
    /\ \A k \in DOMAIN operations : operations[k].op = "inline_default" =>
          /\ operations[k].index \in 0..(Counted(defaults, operations, k) - 1)
          /\ k = 1 => Inlinable(defaults, operations[k].index)

\* What Rope makes of the parameters.  An inlined default is removed, its
\* parameter stays; only an index that is there removes one.
Changed(defaults, o) ==
    LET i == o.index + 1
        Removed == IF i \in DOMAIN defaults THEN RemoveAt(defaults, i) ELSE defaults
        Added(list) == InsertAt(list, IF i > Len(list) THEN Len(list) + 1 ELSE i, FALSE)
    IN CASE o.op = "remove" -> Removed
         [] o.op = "inline_default" -> [defaults EXCEPT ![i] = FALSE]
         [] o.op = "add" -> Added(defaults)
         [] o.op = "rename" -> Added(Removed)
         [] OTHER -> defaults

\* The parameters after each number of operations.
Rebuilt(defaults, operations) ==
    LET after[k \in 0..Len(operations)] ==
            IF k = 0 THEN defaults ELSE Changed(after[k - 1], operations[k])
    IN after

-----------------------------------------------------------------------------
(* split_module.  before[m][s] counts the top-level definitions of symbol s  *)
(* in module m; users[s] are the modules that import s.  targets is a list   *)
(* of [module, symbols].                                                     *)

TargetModules(q) == {q.targets[k].module : k \in DOMAIN q.targets}
Moved(q) == UNION {ToSet(q.targets[k].symbols) : k \in DOMAIN q.targets}

\* The moves: <<target, symbol of it>>.
SymbolMoves(q) ==
    UNION {{<<k, i>> : i \in DOMAIN q.targets[k].symbols} : k \in DOMAIN q.targets}

SymbolOf(q, move) == q.targets[move[1]].symbols[move[2]]

\* The arguments: two targets or more, all different and with symbols, none of
\* which is given twice.  Paths are compared as they are resolved.
SplitAllowed(q) ==
    /\ Len(q.targets) >= 2
    /\ TargetModules(q) \cup {q.source} \subseteq DOMAIN q.before
    /\ q.source \notin TargetModules(q) /\ Cardinality(TargetModules(q)) = Len(q.targets)
    /\ \A k \in DOMAIN q.targets : q.targets[k].symbols # <<>>
    /\ \A x, y \in SymbolMoves(q) : SymbolOf(q, x) = SymbolOf(q, y) => x = y

\* Mutant: any definition of the symbol will do.
SomeDefinition(q, s) == q.before[q.source][s] > 0

\* _find_symbol_offset: exactly one top-level definition.
OneDefinition(q, s) == q.before[q.source][s] = 1

\* The definitions of s that the moves of the isolated project take out of the
\* source, and those they put into a module.
Leaving(q, s) == Cardinality({x \in SymbolMoves(q) : SymbolOf(q, x) = s})
Arriving(q, m, s) ==
    Cardinality({x \in SymbolMoves(q) : SymbolOf(q, x) = s /\ q.targets[x[1]].module = m})

Planned(q) ==
    [m \in DOMAIN q.before |-> [s \in DOMAIN q.before[m] |->
        q.before[m][s] + Arriving(q, m, s) - IF m = q.source THEN Leaving(q, s) ELSE 0]]

\* The files whose text the moves change.
Rewritten(q) == {q.source} \cup TargetModules(q) \cup UNION {q.users[s] : s \in Moved(q)}

\* Mutant: the batch is not given the snapshot.
StaleEarly(q) == q.early # {}

\* early are the files others changed before the snapshot is compared again,
\* late those changed between that and the batch, which compares what it writes.
Stale(q) == q.early # {} \/ (q.apply /\ q.late \cap Rewritten(q) # {})

SplitFails(q) ==
    \/ ~(TargetModules(q) \cup {q.source} \subseteq q.discovered)
    \/ \E s \in Moved(q) : ~OneDefinition(q, s)
    \/ q.refused \/ q.extra \/ Stale(q)

SplitModule(q) ==
    LET unsplit(why) == [error |-> why, applied |-> FALSE, edited |-> {}, after |-> q.before]
    IN IF ~SplitAllowed(q) THEN unsplit("input")
       ELSE IF SplitFails(q) THEN unsplit("rope")
       ELSE [error |-> "none", applied |-> q.apply, edited |-> Rewritten(q),
             after |-> IF q.apply THEN Planned(q) ELSE q.before]

-----------------------------------------------------------------------------
(* What the answers mean *)

IsFile(tree, p) == p \in DOMAIN tree /\ tree[p] # Folder

\* A preview and a call that fails change nothing.  An apply does what Rope's
\* changes do, whichever way it writes; and what the preview lists is what is
\* new or different afterwards, but for the files a folder took along.
PlanExact(q, r) ==
    LET after == PerformAll(q.tree, q.changes)
        fresh(p) == p \notin DOMAIN q.tree \/ q.tree[p] # after[p]
        carried(p) == \E c \in ToSet(r.operations) : c.kind = "move" /\ c.folder /\ Within(p, c.to)
    IN /\ r.error # "none" \/ ~q.apply => r.tree = q.tree
       /\ r.applied <=> q.apply /\ r.error = "none"
       /\ r.error = "none" =>
            /\ q.apply => r.tree = after
            /\ \A p \in r.files : IsFile(after, p) /\ fresh(p)
            /\ \A p \in DOMAIN after : IsFile(after, p) /\ fresh(p) => p \in r.files \/ carried(p)
            /\ DOMAIN PerformAll(q.tree, r.operations) = DOMAIN after

\* The operations accepted inline defaults of parameters that are there, and
\* one that is first leaves none with a default before one without.
SignatureSafe(q, accepted) ==
    accepted => \A k \in DOMAIN q.operations : q.operations[k].op = "inline_default" =>
        LET there == Rebuilt(q.defaults, q.operations)[k - 1]
            result == Changed(there, q.operations[k])
        IN /\ q.operations[k].index < Len(there)
           /\ k = 1 => \A i, j \in DOMAIN result : i < j /\ result[i] => result[j]

\* A split moves every symbol whole, to the module it was asked for, or does
\* nothing; it writes no file that another program changed since it was read.
SplitWhole(q, r) ==
    /\ ~r.applied => r.after = q.before
    /\ r.applied =>
         /\ r.edited \cap (q.early \cup q.late) = {}
         /\ \A k \in DOMAIN q.targets : \A s \in ToSet(q.targets[k].symbols) :
                r.after[q.source][s] = 0
                /\ r.after[q.targets[k].module][s] = q.before[q.targets[k].module][s] + 1
         /\ \A m \in DOMAIN q.before : r.after[m] # q.before[m] => m \in r.edited
=============================================================================
