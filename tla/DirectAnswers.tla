--------------------------- MODULE DirectAnswers ---------------------------
(***************************************************************************)
(* One call of a tool that asks its backends once and answers from what    *)
(* they say, or that rewrites one syntax tree, checks a signature or splits*)
(* a module: a question and the answer computed from it.  A question holds *)
(* the arguments and what the backends and the files have to say; the      *)
(* constants are the questions of each tool.  ToolAnswers adds the tools   *)
(* that walk a graph or plan a list of changes.                            *)
(***************************************************************************)
EXTENDS Queries, Conversions, RopePlanning

CONSTANTS Lookups, Uses, Scans, Signatures, Splits, Converted

\* What a backend may answer with items of a kind, and Jedi's library.
Results(items) == [ok : BOOLEAN, found : Seq(items)]
FoundNames == [key : Nat, named : BOOLEAN, located : BOOLEAN, exact : BOOLEAN]
Libraries == [ok : BOOLEAN, names : Seq(FoundNames), inner : Seq(FoundNames),
              wider : Seq(FoundNames), around : Seq(FoundNames)]

SourceFiles == [test : BOOLEAN, there : BOOLEAN, opens : BOOLEAN, parses : BOOLEAN,
                hasAll : BOOLEAN, diagnosed : Results(Nat)]
Symbols == [file : Nat, refs : Results({"here", "own", "other"}), decorated : BOOLEAN,
            excluded : BOOLEAN, listed : BOOLEAN, underscore : BOOLEAN, registered : BOOLEAN]

ASSUME LookupsAssumption == Lookups \subseteq [method : JediMethods, lib : Libraries]

ASSUME UsesAssumption ==
    Uses \subseteq [at : Results(Nat), snaps : BOOLEAN, snapped : Results(Nat), lib : Libraries,
                    limit : Nat, kinds : SUBSET STRING, marks : Seq(SUBSET STRING),
                    unknown : SUBSET Nat]

ASSUME ScansAssumption ==
    /\ Scans \subseteq [files : Seq(SourceFiles), symbols : Seq(Symbols), skipTests : BOOLEAN,
                        rootMissing : BOOLEAN, offset : Nat, limit : Nat]
    /\ \A q \in Scans : \A k \in DOMAIN q.symbols : q.symbols[k].file \in DOMAIN q.files

\* Rope lists the parameters with a default last, and an index is not negative.
ASSUME SignaturesAssumption == \A q \in Signatures :
    /\ q.defaults \in Seq(BOOLEAN)
    /\ \A i, j \in DOMAIN q.defaults : i < j /\ q.defaults[i] => q.defaults[j]
    /\ q.operations \in Seq([op : STRING, index : Nat \cup {NoIndex}, named : BOOLEAN])

\* Every module has a number of definitions of every symbol that is asked for.
ASSUME SplitsAssumption == \A q \in Splits :
    /\ q.targets \in Seq([module : STRING, symbols : Seq(STRING)])
    /\ \A m \in DOMAIN q.before :
          /\ Moved(q) \subseteq DOMAIN q.before[m]
          /\ q.before[m] \in [DOMAIN q.before[m] -> Nat]

\* What Python accepts as a call: an argument that is not a star has one value,
\* and no keyword is given twice.
CallArguments == [kind : {"positional", "keyword", "star"}, name : STRING \cup {""}, values : Seq(Nat)]
Callable(args) ==
    /\ args \in Seq(CallArguments)
    /\ \A k \in DOMAIN args : args[k].kind # "star" => Len(args[k].values) = 1
    /\ \A k \in DOMAIN args : args[k].kind = "positional" => args[k].name = ""
    /\ \A j, k \in DOMAIN args :
          args[j].kind = "keyword" /\ args[k].kind = "keyword" /\ args[j].name = args[k].name => j = k

\* A function that becomes a method has a parameter, and the parameters of a
\* constructor have different names.
ASSUME ConvertedAssumption == \A q \in Converted :
    /\ q.tool \in {"function", "extract", "dataclass"}
    /\ q.tool = "function" =>
          /\ q.params \in Seq(STRING) /\ q.params # <<>>
          /\ \A k \in DOMAIN q.uses : Callable(q.uses[k].args)
    /\ q.tool = "extract" =>
          /\ q.init \in Seq([sets : SUBSET STRING, touches : SUBSET STRING])
          /\ q.methods \in Seq([name : STRING, touches : SUBSET STRING, movable : BOOLEAN])
    /\ q.tool = "dataclass" =>
          /\ q.params \in Seq([name : STRING, default : STRING, typed : BOOLEAN, inferred : BOOLEAN])
          /\ {q.before, q.after} \subseteq Seq([name : STRING, annotated : BOOLEAN, value : STRING])
          /\ \A j, k \in DOMAIN q.params : q.params[j].name = q.params[k].name => j = k

VARIABLES tool, question, answer

exchange == <<tool, question, answer>>

Pending == <<>>

Answered(name) == tool = name /\ answer # Pending

Ask(name, questions) == tool = name /\ question \in questions

DirectInit ==
    /\ answer = Pending
    /\ \/ Ask("lookup", Lookups)
       \/ Ask("uses", Uses)
       \/ Ask("scan", Scans)
       \/ Ask("signature", Signatures)
       \/ Ask("split", Splits)
       \/ Ask("convert", Converted)

Reply(name, value) ==
    /\ tool = name /\ answer = Pending
    /\ answer' = <<value>>
    /\ UNCHANGED <<tool, question>>

AnswerLookup == Reply("lookup", Jedi(question.method, question.lib))
AnswerUses == Reply("uses", [references |-> FindReferences(question), users |-> TypeUsers(question)])
AnswerScan == Reply("scan", [dead |-> DeadCode(question), unused |-> UnusedSymbols(question),
                             diagnostics |-> WorkspaceDiagnostics(question)])

AnswerSignature == Reply("signature", Accepts(question.defaults, question.operations))
AnswerSplit == Reply("split", SplitModule(question))
AnswerConvert == Reply("convert", Convert(question))

DirectNext ==
    \/ AnswerLookup \/ AnswerUses \/ AnswerScan
    \/ AnswerSignature \/ AnswerSplit \/ AnswerConvert

DirectSpec == DirectInit /\ [][DirectNext]_exchange

-----------------------------------------------------------------------------

\* What two backends know is merged, limited and reported without losing or
\* inventing a location, and a backend that failed is told or ends the call
\* (references.py:86-189, type_users.py:173-242, definitions.py, symbols.py).
MergesHonest ==
    /\ Answered("lookup") => JediHonest(question, answer[1])
    /\ Answered("uses") =>
          /\ ReferencesHonest(question, answer[1].references)
          /\ BucketsAddUp(question, answer[1].users)
          /\ FallbackHonest(question)

\* No symbol is called unused because something failed, no file is silently
\* left out, the two scans agree, and their pages fit together
\* (dead_code.py:96-201, unused_symbols.py:83-161).
UnusedMeansUnused == Answered("scan") => ScansHonest(question)

\* A function made a method, a member moved to a collaborator and a constructor
\* left to dataclass do for their callers what they did before, or are refused
\* (function_method_conversion.py:247-267, class_extraction.py:303-445,
\* dataclass_conversion.py:108-186); the pre-check of a signature lets through
\* only inlinings Rope can do (rope_backend.py:181-229); and a module is split
\* wholly or not at all (rope_backend.py:602-790).
RewritesKeepMeaning ==
    /\ Answered("convert") => ConversionKeeps(question, answer[1])
    /\ Answered("signature") => SignatureSafe(question, answer[1])
    /\ Answered("split") => SplitWhole(question, answer[1])
=============================================================================
