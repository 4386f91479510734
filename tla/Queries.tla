------------------------------ MODULE Queries ------------------------------
(***************************************************************************)
(* Read-only tools that ask more than one backend, as functions of the     *)
(* backends' answers: the Jedi backend's methods (backends/jedi_backend.py)*)
(* and the tools over them and Pyright (tools/analysis, tools/navigation/  *)
(* definitions.py, tools/search).                                          *)
(*                                                                         *)
(* A backend's answer is ok or a failure (it raised, timed out or was not  *)
(* there) with what it found.  Locations, symbols and types are numbers,   *)
(* in the order the tools sort them by.                                    *)
(***************************************************************************)
EXTENDS Lists, SequencesExt

Failure == [ok |-> FALSE, found |-> <<>>]
Answer(found) == [ok |-> TRUE, found |-> found]

\* What the library returns: names, each with a key, that may lack a name or a
\* path or be named otherwise than asked; the names inside the first one;
\* those of the wider search; the definitions around the position.  lib.ok is
\* FALSE when there is no project, the file cannot be read, the library
\* raises or the worker is late.

-----------------------------------------------------------------------------
(* The Jedi backend: which names a method keeps.                           *)

Lookup(takes, drops) == [takes |-> takes, drops |-> drops]

GetReferences == Lookup("all", {"unlocated"})
GotoDefinition == Lookup("all", {"unlocated"})
InferType == Lookup("first", {})
SearchNames == Lookup("all", {"inexact", "unlocated", "repeated"})
SearchSymbolsIn == Lookup("all", {"unlocated", "unnamed", "repeated"})
GetSignatures == Lookup("first", {})
GetHelp == Lookup("all", {})
DeepInfer == Lookup("all", {})
GetTypeHint == Lookup("all", {})
GetSyntaxErrors == Lookup("all", {})
GetContext == Lookup("scope", {})
GetNames == Lookup("all", {"unnamed"})
GetCompletions == Lookup("all", {"unnamed"})
GetSubDefinitions == Lookup("inner", {"unnamed"})
SimulateExecute == Lookup("inner", {})
ListEnvironments == Lookup("all", {"unnamed", "repeated"})
ProjectSearch == Lookup("exact first", {"unlocated", "unnamed", "repeated"})
CompleteSearch == Lookup("wider", {"unlocated", "unnamed", "repeated"})

JediMethods == {GetReferences, GotoDefinition, InferType, SearchNames, SearchSymbolsIn,
    GetSignatures, GetHelp, DeepInfer, GetTypeHint, GetSyntaxErrors, GetContext, GetNames,
    GetCompletions, GetSubDefinitions, SimulateExecute, ListEnvironments, ProjectSearch,
    CompleteSearch}

\* A scope without a name is the module: the innermost definition around the
\* position, if any, is more exact.
Taken(method, lib) ==
    IF method.takes = "wider" THEN lib.wider
    ELSE IF lib.names = <<>>
    THEN IF method.takes = "exact first" THEN lib.wider ELSE <<>>
    ELSE CASE method.takes = "first" -> <<Head(lib.names)>>
           [] method.takes = "inner" -> lib.inner
           [] method.takes = "scope" ->
                 IF Head(lib.names).named \/ lib.around = <<>>
                 THEN <<Head(lib.names)>> ELSE <<Head(lib.around)>>
           [] OTHER -> lib.names

Keeps(method, name) ==
    /\ name.named \/ "unnamed" \notin method.drops
    /\ name.located \/ "unlocated" \notin method.drops
    /\ name.exact \/ "inexact" \notin method.drops

\* The keys of the names it keeps.
Keys(method, names) ==
    LET kept == Only(names, {k \in DOMAIN names : Keeps(method, names[k])})
    IN [k \in DOMAIN kept |-> kept[k].key]

\* Mutant: a failing library is an empty answer.
JediQuiet(method, lib) == Answer(Keys(method, Taken(method, lib)))

Jedi(method, lib) ==
    LET keys == Keys(method, Taken(method, lib))
    IN IF ~lib.ok THEN Failure
       ELSE Answer(IF "repeated" \in method.drops THEN Once(keys) ELSE keys)

-----------------------------------------------------------------------------
(* Tools over both backends *)

Raised == [error |-> TRUE]

Sorted(found) == Ascending(ToSet(found))

\* Pyright's references at the position or, when there are none, at the
\* definition's name nearby.
PyrightReferences(q) ==
    IF q.at.ok /\ q.at.found = <<>> /\ q.snaps THEN q.snapped ELSE q.at

Page(found, limit) == IF limit = 0 \/ Len(found) <= limit THEN found ELSE SubSeq(found, 1, limit)

References(found, source, failed, limit) ==
    LET all == Sorted(found) IN
    [error |-> FALSE, found |-> Page(all, limit), total |-> Len(all), source |-> source,
     truncated |-> Len(Page(all, limit)) < Len(all), failed |-> failed]

\* Mutant: a failing Jedi is not told, and its answer is combined always.
FindReferencesSilently(q) ==
    LET pyright == PyrightReferences(q)
        jedi == Jedi(GetReferences, q.lib)
    IN IF ~pyright.ok THEN Raised
       ELSE References(pyright.found \o jedi.found, "combined", {}, q.limit)

\* find_references: Pyright's, with those only Jedi knows.  Jedi's failure is
\* told, Pyright's ends the call.
FindReferences(q) ==
    LET pyright == PyrightReferences(q)
        jedi == Jedi(GetReferences, q.lib)
        failed == IF jedi.ok THEN {} ELSE {"jedi"}
        more == ToSet(jedi.found) \ ToSet(pyright.found)
    IN IF ~pyright.ok THEN Raised
       ELSE IF pyright.found = <<>>
       THEN References(jedi.found, IF jedi.ok THEN "jedi" ELSE "pyright", failed, q.limit)
       ELSE References(pyright.found \o jedi.found,
                       IF more # {} THEN "combined" ELSE "pyright", failed, q.limit)

SiteKinds == {"annotation", "instantiation", "other", "subclass"}

\* The first kind whose mark the place of a reference has; a file that cannot
\* be read or parsed has no marks.
SiteKind(marks) ==
    CASE "annotation" \in marks -> "annotation"
      [] "annotation" \notin marks /\ "base" \in marks -> "subclass"
      [] marks \cap {"annotation", "base"} = {} /\ "called" \in marks -> "instantiation"
      [] OTHER -> "other"

\* find_type_users: every reference is put in one bucket, the sites of the
\* wanted buckets are returned.  Jedi's failure is not told.
TypeUsers(q) ==
    LET refs == FindReferences([q EXCEPT !.limit = 0])
        Of(l) == SiteKind(q.marks[l])
        sites == Only(refs.found, {k \in DOMAIN refs.found : Of(refs.found[k]) \in q.kinds})
    IN IF refs.error \/ ~(q.kinds \subseteq SiteKinds) THEN Raised
       ELSE [error |-> FALSE, sites |-> Page(sites, q.limit), total |-> Len(sites),
             counts |-> [k \in SiteKinds |-> Cardinality({l \in ToSet(refs.found) : Of(l) = k})],
             truncated |-> Len(Page(sites, q.limit)) < Len(sites)]

\* goto_definition, get_signature_help: Jedi is asked when Pyright has
\* nothing, and its failure is an empty answer.
FirstOf(pyright, jedi) ==
    IF ~pyright.ok THEN Raised
    ELSE [error |-> FALSE, found |-> Sorted(IF pyright.found # <<>> THEN pyright.found
                                            ELSE jedi.found)]

Definition(q) == FirstOf(q.at, Jedi(GotoDefinition, q.lib))
SignatureHelp(q) == FirstOf(q.at, Jedi(GetSignatures, q.lib))

\* get_type_info: a type Pyright calls unknown gives way to Jedi's, and is
\* better than none.
TypeInfo(q) ==
    LET jedi == Jedi(InferType, q.lib)
        known == {k \in DOMAIN q.at.found : q.at.found[k] \notin q.unknown}
    IN IF ~q.at.ok THEN Raised
       ELSE [error |-> FALSE, found |->
                IF known # {} THEN <<Head(Only(q.at.found, known))>>
                ELSE IF jedi.found # <<>> THEN jedi.found ELSE q.at.found]

\* search_symbols: either backend may fail; a symbol both know is Pyright's.
SearchSymbols(q) ==
    LET jedi == Jedi(SearchSymbolsIn, q.lib)
        all == Sorted(q.at.found \o jedi.found)
    IN [error |-> FALSE, found |-> Page(all, q.limit), total |-> Len(all),
        truncated |-> Len(Page(all, q.limit)) < Len(all),
        failed |-> (IF q.at.ok THEN {} ELSE {"pyright"}) \cup (IF jedi.ok THEN {} ELSE {"jedi"})]

\* suggest_imports: one suggestion of a module, Pyright's first.  A failure of
\* either backend ends the call.
SuggestImports(q) ==
    LET jedi == Jedi(SearchNames, q.lib)
    IN IF ~q.at.ok \/ ~jedi.ok THEN Raised
       ELSE [error |-> FALSE, found |-> Sorted(Once(q.at.found \o jedi.found))]

-----------------------------------------------------------------------------
(* Scans: dead_code_detection and unused_symbol_sweep.  Symbols are numbered *)
(* by file and name; their refs are the answer to the references at them:    *)
(* "here" is the declaration, "own" another place of its file, "other" a     *)
(* place of another file.  A scan's failures are <<phase, file or symbol>>.  *)

\* resolve_target_files: the files a scan looks at; a scope that is not there
\* is a failure.
Targets(q) ==
    LET asked == {f \in DOMAIN q.files : ~(q.skipTests /\ q.files[f].test)}
    IN IF q.rootMissing THEN [files |-> {}, failed |-> {<<"resolve", "root">>}]
       ELSE [files |-> {f \in asked : q.files[f].there},
             failed |-> {<<"resolve", f>> : f \in {g \in asked : ~q.files[g].there}}]

\* Mutant: a symbol whose references could not be fetched is dead.
UnreferencedOrFailed(s) == ToSet(s.refs.found) \subseteq {"here"}

\* _check_symbol: no reference but the declaration.
Unreferenced(s) == s.refs.ok /\ ToSet(s.refs.found) \subseteq {"here"}

\* _check_export_symbol: no reference from another file.
UnreferencedElsewhere(s) == s.refs.ok /\ "other" \notin ToSet(s.refs.found)

\* The declarations of these files dead_code_detection asks about.
Declared(q, files) == {k \in DOMAIN q.symbols :
    LET s == q.symbols[k]
    IN s.file \in files /\ q.files[s.file].parses /\ ~s.decorated /\ ~s.excluded}

\* The export surface of these files: __all__ when there is one, else what has
\* no underscore; what a framework registers is left out.
Surface(q, files) == {k \in DOMAIN q.symbols :
    LET s == q.symbols[k] IN
    /\ s.file \in files /\ q.files[s.file].parses
    /\ IF q.files[s.file].hasAll THEN s.listed ELSE ~s.underscore
    /\ ~s.registered /\ ~s.excluded}

\* Mutant: an offset is a number of pages.
PagedByPages(keys, failed, q) ==
    LET sorted == Ascending(keys)
        rest == SubSeq(sorted, q.offset * q.limit + 1, Len(sorted))
    IN [items |-> Page(rest, q.limit), total |-> Len(sorted),
        truncated |-> Len(Page(rest, q.limit)) < Len(rest), failed |-> failed]

Paged(keys, failed, q) ==
    LET sorted == Ascending(keys)
        rest == SubSeq(sorted, q.offset + 1, Len(sorted))
    IN [items |-> Page(rest, q.limit), total |-> Len(sorted),
        truncated |-> Len(Page(rest, q.limit)) < Len(rest), failed |-> failed]

Unparsed(q, files) == {<<"symbol_scan", f>> : f \in {g \in files : ~q.files[g].parses}}
Unanswered(q, asked) == {<<"references", k>> : k \in {i \in asked : ~q.symbols[i].refs.ok}}

\* Symbols a diagnostic of a target calls unused, and those without references.
DeadCode(q) ==
    LET targets == Targets(q)
        asked == Declared(q, targets.files)
        diagnosed == {f \in targets.files : q.files[f].diagnosed.ok}
        flagged == UNION {ToSet(q.files[f].diagnosed.found) : f \in diagnosed}
    IN Paged(flagged \cup {k \in asked : Unreferenced(q.symbols[k])},
             targets.failed \cup Unparsed(q, targets.files) \cup Unanswered(q, asked)
                 \cup {<<"diagnostics", f>> : f \in targets.files \ diagnosed}, q)

\* The sweep opens all its files before it asks for references.
UnusedSymbols(q) ==
    LET targets == Targets(q)
        opened == {f \in targets.files : q.files[f].opens}
        asked == Surface(q, opened)
    IN Paged({k \in asked : UnreferencedElsewhere(q.symbols[k])},
             targets.failed \cup Unparsed(q, opened) \cup Unanswered(q, asked)
                 \cup {<<"open", f>> : f \in targets.files \ opened}, q)

\* get_workspace_diagnostics: a summary of each file whose diagnostics could
\* be fetched and that has some, a failure of each that could not.
WorkspaceDiagnostics(q) ==
    Paged({f \in DOMAIN q.files : q.files[f].diagnosed.ok /\ q.files[f].diagnosed.found # <<>>},
          {<<"diagnostics", f>> : f \in {g \in DOMAIN q.files : ~q.files[g].diagnosed.ok}}, q)

-----------------------------------------------------------------------------
(* What the answers mean *)

\* A method that fails says so; one that answers leaves out no name that it
\* could report, and a name it may not repeat is reported once.
JediHonest(q, r) ==
    LET whole(n) == n.named /\ n.located /\ n.exact
    IN /\ r.ok <=> q.lib.ok
       /\ r.ok => {n.key : n \in {x \in ToSet(Taken(q.method, q.lib)) : whole(x)}} \subseteq ToSet(r.found)
       /\ "repeated" \in q.method.drops => Cardinality(ToSet(r.found)) = Len(r.found)
       /\ q.method = ProjectSearch /\ r.ok /\ q.lib.names # <<>> =>
             ToSet(r.found) \subseteq {n.key : n \in ToSet(q.lib.names)}

\* Jedi can neither cost a reference of Pyright's nor the call; every
\* reference is of a backend the source names, once; a backend that failed is
\* named; the total and the truncation tell what the limit left out.
ReferencesHonest(q, r) ==
    LET pyright == ToSet(PyrightReferences(q).found)
        jedi == {n.key : n \in ToSet(q.lib.names)}
        all == FindReferences([q EXCEPT !.limit = 0])
    IN \/ r.error /\ ~PyrightReferences(q).ok
       \/ /\ ~r.error
          /\ ToSet(r.found) \subseteq (CASE r.source = "pyright" -> pyright
                                         [] r.source = "jedi" -> jedi
                                         [] OTHER -> pyright \cup jedi)
          /\ r.source = "combined" => ~(ToSet(all.found) \subseteq pyright)
          /\ pyright \subseteq ToSet(all.found)
          /\ ~q.lib.ok <=> r.failed = {"jedi"}
          /\ r.total = Cardinality(ToSet(all.found))
          /\ r.truncated <=> r.total > Len(r.found)
          /\ IsPrefix(r.found, all.found)

\* The buckets of a type's users add up to its references, and the sites to
\* the wanted buckets.
BucketsAddUp(q, r) ==
    r.error \/ LET Share(k, kinds) == IF k \in kinds THEN r.counts[k] ELSE 0
                   Total(kinds) == Share("annotation", kinds) + Share("instantiation", kinds)
                                   + Share("other", kinds) + Share("subclass", kinds)
               IN /\ Total(SiteKinds) = FindReferences([q EXCEPT !.limit = 0]).total
                  /\ Total(q.kinds) = r.total
                  /\ r.truncated <=> Len(r.sites) < r.total

\* What a tool falls back to never replaces what Pyright knows, and only the
\* import suggestions need both backends.
FallbackHonest(q) ==
    /\ \A r \in {Definition(q), SignatureHelp(q)} :
          /\ r.error <=> ~q.at.ok
          /\ ~r.error /\ q.at.found # <<>> => ToSet(r.found) = ToSet(q.at.found)
    /\ TypeInfo(q).error \/ q.at.found = <<>> \/ TypeInfo(q).found # <<>>
    /\ LET r == SearchSymbols([q EXCEPT !.limit = 0])
       IN /\ ToSet(q.at.found) \subseteq ToSet(r.found)
          /\ r.failed = (IF q.at.ok THEN {} ELSE {"pyright"}) \cup (IF q.lib.ok THEN {} ELSE {"jedi"})
    /\ LET r == SuggestImports(q)
       IN r.error \/ ToSet(q.at.found) \cup ToSet(Jedi(SearchNames, q.lib).found) = ToSet(r.found)

\* A symbol is called unused only when it was asked about and no use was
\* found; every file and symbol of the scope was looked at or is a failure;
\* what is dead by its references and exported is in the sweep of the same
\* files; and pages follow each other without a gap or a repetition.
ScansHonest(q) ==
    LET all == [q EXCEPT !.limit = 0, !.offset = 0]
        dead == DeadCode(all)
        unused == UnusedSymbols(all)
        flagged == UNION {ToSet(q.files[f].diagnosed.found) : f \in DOMAIN q.files}
        scope == {f \in DOMAIN q.files : ~(q.skipTests /\ q.files[f].test)}
        FileTold(scan, f) == \E phase \in {"resolve", "open", "symbol_scan"} :
                                <<phase, f>> \in scan.failed
        Told(scan, k) == FileTold(scan, q.symbols[k].file) \/ <<"references", k>> \in scan.failed
        After == [q EXCEPT !.offset = @ + q.limit]
    IN /\ \A k \in ToSet(dead.items) \ flagged :
             q.symbols[k].refs.ok /\ ToSet(q.symbols[k].refs.found) \cap {"own", "other"} = {}
       /\ \A k \in ToSet(unused.items) :
             q.symbols[k].refs.ok /\ "other" \notin ToSet(q.symbols[k].refs.found)
       /\ \A k \in DOMAIN q.symbols : LET s == q.symbols[k] IN
             s.file \in scope /\ ~s.excluded =>
                /\ \/ s.decorated \/ k \in ToSet(dead.items) \/ q.rootMissing
                   \/ Told(dead, k)
                   \/ ToSet(s.refs.found) \cap {"own", "other"} # {}
                /\ k \in ToSet(dead.items) \ flagged /\ k \in Surface(q, scope) =>
                      k \in ToSet(unused.items) \/ FileTold(unused, s.file)
       /\ \A f \in scope : <<"diagnostics", f>> \notin dead.failed
                           => \/ q.rootMissing \/ FileTold(dead, f)
                              \/ q.files[f].diagnosed.ok
                                 /\ ToSet(q.files[f].diagnosed.found) \subseteq ToSet(dead.items)
       /\ \A page \in {<<DeadCode(q), DeadCode(After), dead>>,
                       <<UnusedSymbols(q), UnusedSymbols(After), unused>>,
                       <<WorkspaceDiagnostics(q), WorkspaceDiagnostics(After),
                         WorkspaceDiagnostics(all)>>} :
             LET rest == SubSeq(page[3].items, q.offset + 1, Len(page[3].items))
             IN /\ IsPrefix(page[1].items, rest)
                /\ page[1].truncated <=> page[1].items # rest
                /\ q.limit > 0 => page[1].truncated <=> page[2].items # <<>>
                /\ q.limit > 0 => IsPrefix(page[1].items \o page[2].items, rest)
=============================================================================
