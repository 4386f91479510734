---------------------------- MODULE Conversions ----------------------------
(***************************************************************************)
(* Three rewrites of a syntax tree whose result other code has to get      *)
(* along with: convert_function_to_method and convert_method_to_function   *)
(* (tools/refactoring/function_method_conversion.py), extract_class        *)
(* (class_extraction.py) and convert_to_dataclass (dataclass_conversion.py).*)
(* A shape of the source that a tool turns down for its looks alone        *)
(* (decorators, one-line bodies, ...) is plain = FALSE.                    *)
(***************************************************************************)
EXTENDS Integers, Lists, SequencesExt

Refusal == [error |-> TRUE]

-----------------------------------------------------------------------------
(* A function becomes a method, or back.  An argument is "positional", a    *)
(* "keyword" or a "star" that stands for several values.  A use is a call   *)
(* of a "name", "bound" or "unbound" as a method, or no call at all.        *)

Positional(v) == [kind |-> "positional", name |-> "", values |-> <<v>>]

\* _semantic_call_positions and _validate_call_sites: nobody failed, the
\* declaration was found, and all uses are calls of one shape in the file.
Rewritable(q) ==
    /\ ~q.search.failed /\ q.search.declared
    /\ \A k \in DOMAIN q.uses :
          /\ q.uses[k].own
          /\ q.uses[k].shape \in (IF q.to = "method" THEN {"name"} ELSE {"bound", "unbound"})

NoReceiver == 0

\* _pop_receiver_argument: the first argument, or the keyword of its name.
ReceiverAt(q, args) ==
    IF args # <<>> /\ Head(args).kind = "positional" THEN 1
    ELSE IF q.positionalOnly THEN NoReceiver
    ELSE SelectInSeq(args, LAMBDA a : a.kind = "keyword" /\ a.name = q.params[1])

\* Mutant: the receiver remains among the arguments.
AsMethodCallKeeping(q, use) ==
    LET i == ReceiverAt(q, use.args)
    IN IF i = NoReceiver THEN Refusal
       ELSE [error |-> FALSE, shape |-> "bound", on |-> use.args[i].values[1], args |-> use.args]

AsMethodCall(q, use) ==
    LET i == ReceiverAt(q, use.args)
    IN IF i = NoReceiver THEN Refusal
       ELSE [error |-> FALSE, shape |-> "bound", on |-> use.args[i].values[1],
             args |-> RemoveAt(use.args, i)]

\* Mutant: a method called on its class is one called on an instance.
AsFunctionCallAlways(q, use) ==
    [error |-> FALSE, shape |-> "name", on |-> use.on, args |-> <<Positional(use.on)>> \o use.args]

AsFunctionCall(q, use) ==
    IF use.shape = "bound"
    THEN [error |-> FALSE, shape |-> "name", on |-> use.on, args |-> <<Positional(use.on)>> \o use.args]
    ELSE IF use.args = <<>> THEN Refusal
    ELSE [error |-> FALSE, shape |-> "name", on |-> use.on, args |-> use.args]

\* All uses are rewritten with the definition, or nothing is.
ConvertFunction(q) ==
    LET calls == [k \in DOMAIN q.uses |-> IF q.to = "method" THEN AsMethodCall(q, q.uses[k])
                                          ELSE AsFunctionCall(q, q.uses[k])]
    IN IF q.plain /\ ~q.taken /\ Rewritable(q) /\ \A k \in DOMAIN calls : ~calls[k].error
       THEN [error |-> FALSE, calls |-> calls]
       ELSE Refusal

-----------------------------------------------------------------------------
(* Members of a class move to a collaborator.  A statement of __init__ sets *)
(* fields and touches members, the ones it sets included.                   *)

SetIn(q, m) == {k \in DOMAIN q.init : m \in q.init[k].sets}
MethodsOf(q, m) == {k \in DOMAIN q.methods : q.methods[k].name = m}

MovesField(q, m) == Cardinality(SetIn(q, m)) = 1 /\ MethodsOf(q, m) = {} /\ m \notin q.attributes

\* Mutant: a method may use members that stay behind.
MovesMethodAnyway(q, m) ==
    /\ SetIn(q, m) = {} /\ Cardinality(MethodsOf(q, m)) = 1
    /\ \A k \in MethodsOf(q, m) : q.methods[k].movable

MovesMethod(q, m) ==
    /\ SetIn(q, m) = {} /\ Cardinality(MethodsOf(q, m)) = 1
    /\ \A k \in MethodsOf(q, m) : q.methods[k].movable /\ q.methods[k].touches \subseteq q.members

TouchedIn(q) ==
    UNION {q.init[k].touches : k \in DOMAIN q.init}
    \cup UNION {q.methods[k].touches \cup {q.methods[k].name} : k \in DOMAIN q.methods}

\* The conditions of extract_class and _extract.
Extractable(q) ==
    /\ q.plain /\ q.members # {} /\ q.collaborator \notin q.members
    /\ q.collaborator \notin q.attributes \cup TouchedIn(q)
    /\ \A m \in q.members : MovesField(q, m) \/ MovesMethod(q, m)

\* Mutant: only assignments need the collaborator.
FirstRelevantAssigns(q) == SelectInSeq(q.init, LAMBDA s : s.sets \cap q.members # {})

\* _first_relevant_init_statement; 0 where no statement is.
FirstRelevant(q) == SelectInSeq(q.init, LAMBDA s : s.touches \cap q.members # {})

Creation(q) == [sets |-> {q.collaborator}, touches |-> {}]

ExtractClass(q) ==
    IF ~Extractable(q) THEN Refusal
    ELSE [error |-> FALSE,
          init |-> InsertAt(q.init, IF FirstRelevant(q) = 0 THEN 1 ELSE FirstRelevant(q), Creation(q)),
          fields |-> {m \in q.members : SetIn(q, m) # {}},
          methods |-> {m \in q.members : MethodsOf(q, m) # {}}]

-----------------------------------------------------------------------------
(* A constructor becomes the fields of a dataclass.  A member of the class  *)
(* is an assignment, with an annotation or not.                             *)

ParameterNames(q) == [k \in DOMAIN q.params |-> q.params[k].name]

\* Mutant: a class attribute may have the name of a field.
ConvertibleOver(q) ==
    /\ q.plain /\ q.assigned = ParameterNames(q)
    /\ \A k \in DOMAIN q.params : /\ q.params[k].default # "mutable"
                                  /\ q.params[k].typed \/ q.params[k].inferred

\* _constructor_fields, and the types Pyright has for those without one.
Convertible(q) ==
    /\ q.plain /\ q.assigned = ParameterNames(q)
    /\ \A m \in ToSet(q.before \o q.after) : m.name \notin ToSet(ParameterNames(q))
    /\ \A k \in DOMAIN q.params : /\ q.params[k].default # "mutable"
                                  /\ q.params[k].typed \/ q.params[k].inferred

Field(p) == [name |-> p.name, annotated |-> TRUE, value |-> p.default]

ConvertToDataclass(q) ==
    IF Convertible(q)
    THEN [error |-> FALSE, body |-> q.before \o [k \in DOMAIN q.params |-> Field(q.params[k])] \o q.after]
    ELSE Refusal

Convert(q) ==
    CASE q.tool = "function" -> ConvertFunction(q)
      [] q.tool = "extract" -> ExtractClass(q)
      [] OTHER -> ConvertToDataclass(q)

-----------------------------------------------------------------------------
(* What the answers mean *)

\* The values an argument list passes by position, as <<argument, value of it>>.
ByPosition(args) ==
    UNION {{<<k, i>> : i \in DOMAIN args[k].values} :
           k \in {j \in DOMAIN args : args[j].kind # "keyword"}}

\* The number of the parameter that takes one of them.
Position(args, s) ==
    Cardinality({r \in ByPosition(args) : r[1] < s[1] \/ (r[1] = s[1] /\ r[2] <= s[2])})

\* What Python binds the parameters to; {} is a call that raises.  All
\* parameters but the receiver may be left out.
Binding(q, args) ==
    LET values == ByPosition(args)
        keywords == {a \in ToSet(args) : a.kind = "keyword"}
        positions == {<<q.params[Position(args, s)], args[s[1]].values[s[2]]>> :
                      s \in {r \in values : Position(args, r) <= Len(q.params)}}
        names == {<<a.name, a.values[1]>> : a \in keywords}
        taken == {b[1] : b \in positions} \cup (IF q.positionalOnly THEN {q.params[1]} ELSE {})
        all == positions \cup names
    IN IF /\ Cardinality(values) <= Len(q.params)
          /\ \A b \in names : b[1] \in ToSet(q.params) \ taken
          /\ \E b \in all : b[1] = q.params[1]
       THEN all ELSE {}

Passed(q, use) ==
    Binding(q, IF use.shape = "bound" THEN <<Positional(use.on)>> \o use.args ELSE use.args)

\* Every use is a call that gives every parameter what it gave before.
CallsKept(q, r) ==
    r.error \/ \A k \in DOMAIN q.uses :
        LET use == q.uses[k] IN
        /\ use.own /\ use.shape # "other"
        /\ Passed(q, use) # {} => Passed(q, r.calls[k]) = Passed(q, use)

\* What moved finds all it uses in the collaborator, which is there before the
\* constructor needs it and hides nothing.
MembersFound(q, r) ==
    r.error \/
      /\ \A k \in DOMAIN q.methods :
            q.methods[k].name \in r.methods => q.methods[k].touches \subseteq r.fields \cup r.methods
      /\ \A k \in DOMAIN r.init :
            r.init[k].touches \cap (r.fields \cup r.methods) # {} => \E j \in 1..(k - 1) : r.init[j] = Creation(q)
      /\ r.fields \cap r.methods = {}
      /\ q.collaborator \notin TouchedIn(q) \cup q.attributes

\* The constructor dataclass generates: the annotated names in the order they
\* first appear, each with the value the class has in the end.
Generated(body) ==
    LET fields == Only(body, {k \in DOMAIN body : body[k].annotated})
        Value(n) == body[CHOOSE k \in DOMAIN body : /\ body[k].name = n
                                                   /\ \A j \in DOMAIN body : body[j].name = n => j <= k].value
    IN Once([k \in DOMAIN fields |-> [name |-> fields[k].name, default |-> Value(fields[k].name)]])

\* The dataclass can be created and takes the parameters of the constructor it
\* replaces, unless the class annotates an attribute of its own.
ConstructorKept(q, r) ==
    ~r.error /\ (\A m \in ToSet(q.before \o q.after) : ~m.annotated) =>
      /\ \A m \in ToSet(r.body) : m.annotated => m.value # "mutable"
      /\ Generated(r.body) = [k \in DOMAIN q.params |-> [name |-> q.params[k].name, default |-> q.params[k].default]]

ConversionKeeps(q, r) ==
    CASE q.tool = "function" -> CallsKept(q, r)
      [] q.tool = "extract" -> MembersFound(q, r)
      [] OTHER -> ConstructorKept(q, r)
=============================================================================
