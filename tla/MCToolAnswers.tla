--------------------------- MODULE MCToolAnswers ---------------------------
(* Small questions for each tool of ToolAnswers.                            *)
EXTENDS ToolAnswers

Upto(n, items) == UNION {[1..k -> items] : k \in 0..n}
\* Lists of at most two of the items, ascending.
Pairs(items) == {<<>>} \cup {<<i>> : i \in items}
                \cup {<<p[1], p[2]>> : p \in {r \in items \X items : r[1] < r[2]}}

-----------------------------------------------------------------------------
Own(i) == [item |-> i, own |-> TRUE, named |-> TRUE]
Other(i) == [item |-> i, own |-> FALSE, named |-> TRUE]
Nameless(i) == [item |-> i, own |-> TRUE, named |-> FALSE]

Reversed(next) == [j \in DOMAIN next |-> SelectSeq([i \in DOMAIN next |-> i], LAMBDA i : j \in ToSet(next[i]))]

Walked(next, depth, most) ==
    [types |-> FALSE, at |-> Own(1), second |-> NoRoot, enclosing |-> <<>>, elsewhere |-> FALSE,
     direction |-> "both", depth |-> depth, most |-> most, up |-> next, down |-> Reversed(next)]

\* From the first item: every graph of four items, the last a leaf, and the
\* graphs of six with two branches that meet at different depths.
Walks == {Walked(<<g[1], g[2], g[3], <<>>>>, d, m) :
             g \in [1..3 -> Pairs(1..4)], d \in {2, 3}, m \in {NoLimit, 1, 2}}
         \cup {Walked(<<<<2, 3>>, g[2], g[3], g[4], g[5], <<>>>>, 3, m) :
             g \in [2..5 -> Pairs(4..6)], m \in {NoLimit, 4}}

\* What a position can stand for.
Positions == [types : BOOLEAN, at : {NoRoot, Own(1), Other(2), Nameless(1), [Nameless(2) EXCEPT !.own = FALSE]},
              second : {NoRoot, Own(3), Nameless(3)},
              enclosing : {<<>>, <<Own(4)>>, <<Nameless(1), Own(4)>>, <<Nameless(1)>>},
              elsewhere : BOOLEAN, direction : {"up", "down", "both", "sideways"}, depth : {0, 1, 2},
              most : {NoLimit, 1}, up : {<< <<2, 3>>, <<4>>, <<1>>, <<>> >>},
              down : {<< <<3>>, <<1>>, <<1>>, <<2>> >>}]

MCHierarchies == Walks \cup Positions

-----------------------------------------------------------------------------
\* Symbol i starts on line i and ends there or on the last line.
RECURSIVE Tree(_, _, _)
Tree(i, parent, long) ==
    LET kids == SelectSeq(<<1, 2, 3, 4>>, LAMBDA k : parent[k] = i)
    IN [id |-> i, first |-> i, last |-> IF i \in long THEN 4 ELSE i,
        kids |-> [k \in DOMAIN kids |-> Tree(kids[k], parent, long)]]

Forests == {Tree(0, <<0, p2, p3, p4>>, long).kids :
            p2 \in 0..1, p3 \in 0..2, p4 \in 0..3, long \in SUBSET {1, 2, 3}}

MCOutlines == [symbols : Forests, wanted : {1..4, {1, 2, 4}, {2, 3, 4}, {1, 3}},
               offset : {0, 1}, limit : {NoLimit, 1}, most : {NoLimit, 1, 2, 3}]

-----------------------------------------------------------------------------
Name(key) == [key |-> key, named |-> TRUE, located |-> TRUE, exact |-> TRUE]
Names == {Name(1), Name(2), [Name(1) EXCEPT !.named = FALSE], [Name(2) EXCEPT !.located = FALSE],
          [Name(2) EXCEPT !.exact = FALSE]}

Library(ok, names, inner, wider, around) ==
    [ok |-> ok, names |-> names, inner |-> inner, wider |-> wider, around |-> around]

MCLookups == [method : JediMethods,
              lib : {Library(ok, n, i, w, a) : ok \in BOOLEAN, n \in Upto(2, Names),
                     i \in {<<>>, <<Name(3), Name(3)>>}, w \in {<<>>, <<Name(2), Name(3)>>},
                     a \in {<<>>, <<Name(3), Name(4)>>}}]

Found == {Failure, Answer(<<>>), Answer(<<1>>), Answer(<<2, 1>>), Answer(<<1, 1>>), Answer(<<3>>)}

MCUses == [at : Found, snaps : BOOLEAN, snapped : {Failure, Answer(<<>>), Answer(<<2>>)},
           lib : {Library(ok, n, <<>>, <<>>, <<>>) : ok \in BOOLEAN,
                  n \in {<<>>, <<Name(1)>>, <<Name(2), Name(3)>>, <<Name(1), [Name(2) EXCEPT !.located = FALSE]>>,
                         <<Name(3), Name(3)>>}},
           limit : {NoLimit, 1, 2},
           kinds : {SiteKinds, {"annotation"}, {"subclass", "other"}, {"anything"}},
           marks : {<<{"annotation", "called"}, {"base", "called"}, {}>>, <<{"called"}, {"base", "annotation"}, {"base"}>>},
           unknown : {{}, {1}}]

-----------------------------------------------------------------------------
Plain == [test |-> FALSE, there |-> TRUE, opens |-> TRUE, parses |-> TRUE, hasAll |-> FALSE,
          diagnosed |-> Answer(<<>>)]
FirstFiles == {[f EXCEPT !.diagnosed = d] : d \in {Failure, Answer(<<>>), Answer(<<1>>)},
               f \in {Plain, [Plain EXCEPT !.test = TRUE], [Plain EXCEPT !.there = FALSE],
                      [Plain EXCEPT !.opens = FALSE], [Plain EXCEPT !.parses = FALSE],
                      [Plain EXCEPT !.hasAll = TRUE]}}

Symbol(file, refs) == [file |-> file, refs |-> refs, decorated |-> FALSE, excluded |-> FALSE,
                       listed |-> FALSE, underscore |-> FALSE, registered |-> FALSE]
Refs == {Failure, Answer(<<>>), Answer(<<"here">>), Answer(<<"own">>), Answer(<<"here", "other">>)}
FirstSymbols == UNION {{Symbol(1, r), [Symbol(1, r) EXCEPT !.decorated = TRUE],
                        [Symbol(1, r) EXCEPT !.underscore = TRUE], [Symbol(1, r) EXCEPT !.listed = TRUE],
                        [Symbol(1, r) EXCEPT !.decorated = TRUE, !.registered = TRUE],
                        [Symbol(1, r) EXCEPT !.excluded = TRUE]} : r \in Refs}

MCScans ==
    [files : {<<f, [Plain EXCEPT !.diagnosed = d]>> : f \in FirstFiles, d \in {Answer(<<3>>), Answer(<<>>)}},
     symbols : {<<s, Symbol(1, r), Symbol(2, t)>> : s \in FirstSymbols,
                r \in {Failure, Answer(<<>>)}, t \in {Answer(<<"own">>), Answer(<<"here">>)}},
     skipTests : BOOLEAN, rootMissing : {FALSE}, offset : {0, 1}, limit : {NoLimit, 1}]
    \cup [files : {<<Plain, Plain>>}, symbols : {<<s, Symbol(2, Answer(<<>>))>> : s \in FirstSymbols},
          skipTests : BOOLEAN, rootMissing : {TRUE}, offset : {0}, limit : {NoLimit, 1}]

-----------------------------------------------------------------------------
File(root, parts, package) == [root |-> root, parts |-> parts, package |-> package]
Files == {File("src", <<"p">>, TRUE), File("src", <<"p", "m">>, FALSE), File("src", <<"p", "q">>, TRUE),
          File("src", <<"p", "q">>, FALSE), File("src", <<"p", "q", "m">>, FALSE),
          File(".", <<"p">>, TRUE), File(".", <<"p", "m">>, FALSE)}

Imports == {i \in [level : 0..3, module : {<<>>, <<"p">>, <<"q">>, <<"src", "p">>}, name : {"m", "q", "*"}] :
            i.level > 0 \/ i.module # <<>>}

MCResolutions == {q \in [file : Files, import : Imports, files : SUBSET Files] : q.file \in q.files}

MCGraphs == {g \in [1..4 -> SUBSET (1..4)] : \A n \in 1..4 : n \notin g[n]}
            \cup [1..3 -> SUBSET (1..3)]

-----------------------------------------------------------------------------
Modules == {File("src", <<"a", "m">>, FALSE), File("src", <<"b">>, TRUE), File("src", <<"c", "m">>, FALSE)}

ImportOf(f) == [level |-> 0, module |-> f.parts, name |-> "", of |-> f]
FromImportOf(f) == IF f.package THEN ImportOf(f)
                   ELSE [level |-> 0, module |-> Front(f.parts), name |-> Last(f.parts), of |-> f]

\* Each module imports some of the others, in one way or the other; no pattern
\* is of two layers.
MCLayerings ==
    [files : {Modules},
     imports : {[f \in Modules |-> {IF from[f] THEN FromImportOf(g) ELSE ImportOf(g) :
                                    g \in which[f] \ {f}}] :
                which \in [Modules -> SUBSET Modules], from \in [Modules -> BOOLEAN]},
     layers : {l \in {<<x, y>> : x, y \in SUBSET {<<"a">>, <<"b">>, <<"c">>, <<"c", "m">>}} :
                    l[1] \cap l[2] = {}}]

-----------------------------------------------------------------------------
Use(target, use) == [target |-> target, use |-> use]
Statement(source, place, aliases) == <<[source |-> source, place |-> place, aliases |-> aliases]>>

Between(i, j) == {<<>>, Statement(i, "top", {Use(j, {"annotation"})}),
                  Statement(i, "top", {Use(j, {"annotation", "runtime"})}),
                  Statement(i, "top", {Use(j, {"annotation", "exported"})})}
Further == {<<>>, Statement(1, "top", {Use(2, {"annotation"}), Use(Outside, {"runtime"})}),
            Statement(1, "top", {Use(2, {"annotation"}), Use(3, {"annotation"})}),
            Statement(2, "guarded", {Use(3, {"annotation"})}), Statement(3, "function", {Use(1, {"runtime"})}),
            Statement(2, "block", {Use(1, {"annotation"})}), Statement(3, "top", {Use(3, {})})}

MCFixes == [files : {1..3}, unscanned : {FALSE},
            statements : {a \o b \o c \o d \o e : a \in Between(1, 2), b \in Between(2, 1),
                          c \in Between(2, 3), d \in Between(3, 1), e \in Further},
            requested : {1..3, {1}}, guardTaken : {{}, {2}}]
           \cup [files : {1..3}, unscanned : {TRUE},
                 statements : {a \o b : a \in Between(1, 2), b \in Between(2, 1)},
                 requested : {1..3}, guardTaken : {{}}]

-----------------------------------------------------------------------------
Leaf(kind, path, to, folder) == [kind |-> kind, path |-> path, to |-> to, folder |-> folder, text |-> ""]
Edit(path, text) == [Leaf("contents", path, <<>>, FALSE) EXCEPT !.text = text]
Leaves == {Edit(<<"a">>, "new"), Edit(<<"a">>, "x"), Edit(<<"p", "m">>, "new"), Edit(<<"p", "m">>, "y"),
           Edit(<<"b">>, "newer"),
           Leaf("move", <<"a">>, <<"b">>, FALSE), Leaf("move", <<"a">>, <<"p", "a">>, FALSE),
           Leaf("move", <<"p", "m">>, <<"m">>, FALSE), Leaf("move", <<"p">>, <<"q">>, TRUE),
           Leaf("create", <<"b">>, <<>>, FALSE), Leaf("create", <<"p", "k">>, <<>>, FALSE),
           Leaf("create", <<"q">>, <<>>, TRUE), Leaf("remove", <<"p">>, <<>>, TRUE)}

\* The leaves of a change set, and whether Rope can perform them in order.
IsPath(tree, p) == p \in DOMAIN tree
Can(tree, c) ==
    LET parent(p) == Len(p) = 1 \/ (IsPath(tree, Front(p)) /\ tree[Front(p)] = Folder)
    IN CASE c.kind = "contents" -> IsFile(tree, c.path)
         [] c.kind = "create" -> ~IsPath(tree, c.path) /\ parent(c.path)
         [] c.kind = "remove" -> IsPath(tree, c.path)
         [] c.kind = "move" -> IsPath(tree, c.path) /\ ~IsPath(tree, c.to) /\ parent(c.to)

Workspace == (<<"a">> :> "x") @@ (<<"p">> :> Folder) @@ (<<"p", "m">> :> "y")

\* A change set rewrites a file once, and makes no path twice.
ChangeSets == {cs \in Upto(3, Leaves) :
    /\ \A i, j \in DOMAIN cs : i < j => cs[i].path # cs[j].path \/ cs[i].kind # cs[j].kind
    /\ \A i \in DOMAIN cs : Can(PerformAll(Workspace, SubSeq(cs, 1, i - 1)), cs[i])}

MCPlans == [method : {Rename}, faults : {{}}, tree : {Workspace}, changes : ChangeSets, apply : BOOLEAN,
            stacked : BOOLEAN, failing : 0..3]
           \cup [method : Refactorings, faults : SUBSET {"kind", "project", "resource", "position", "operations", "rope"},
                 tree : {Workspace}, changes : {<<Edit(<<"a">>, "new")>>}, apply : BOOLEAN,
                 stacked : BOOLEAN, failing : {0}]

-----------------------------------------------------------------------------
Operation(op, index, named) == [op |-> op, index |-> index, named |-> named]
Operations == {Operation(op, i, TRUE) : op \in {"add", "remove", "rename", "inline_default"}, i \in {NoIndex, 0, 1, 2}}
              \cup {Operation("add", 0, FALSE), Operation("reorder", NoIndex, TRUE), Operation("reorder", NoIndex, FALSE),
                    Operation("normalize", NoIndex, FALSE), Operation("unknown", 0, TRUE)}
\* Parameters with a default come last.
MCSignatures == [defaults : {<<>>, <<TRUE>>, <<FALSE>>, <<FALSE, TRUE>>, <<TRUE, TRUE>>, <<FALSE, TRUE, TRUE>>},
                 operations : Upto(3, Operations)]

-----------------------------------------------------------------------------
Target(module, symbols) == <<[module |-> module, symbols |-> symbols]>>
MCSplits ==
    [source : {"src"}, apply : BOOLEAN, refused : BOOLEAN, extra : {FALSE},
     targets : {t \o u : t \in {<<>>, Target("t", <<"f">>), Target("t", <<"f", "g">>), Target("t", <<>>), Target("src", <<"f">>)},
                         u \in {Target("u", <<"g">>), Target("u", <<"h">>), Target("t", <<"h">>)}},
     before : {[src |-> [f |-> n, g |-> 1, h |-> 1], t |-> [f |-> 0, g |-> 0, h |-> k],
                u |-> [f |-> 0, g |-> 0, h |-> 0], v |-> [f |-> 0, g |-> 0, h |-> 0]] : n \in 0..2, k \in 0..1},
     users : {[f |-> {"v"}, g |-> {}, h |-> {}], [f |-> {}, g |-> {"t"}, h |-> {"v"}]},
     discovered : {{"src", "t", "u", "v"}, {"src", "u", "v"}},
     early : {{}, {"v"}}, late : {{}, {"v"}, {"t"}}]
    \cup [source : {"src"}, apply : BOOLEAN, refused : {FALSE}, extra : {TRUE},
          targets : {Target("t", <<"f">>) \o Target("u", <<"g">>)},
          before : {[src |-> [f |-> 1, g |-> 1], t |-> [f |-> 0, g |-> 0], u |-> [f |-> 0, g |-> 0]]},
          users : {[f |-> {}, g |-> {}]}, discovered : {{"src", "t", "u"}}, early : {{}}, late : {{}}]

-----------------------------------------------------------------------------
Texts == Upto(2, {"x", "lf", "cr", "ff"})
         \cup {<<"x", "lf", "x">>, <<"x", "cr", "lf">>, <<"x", "cr", "x">>, <<"cr", "x", "lf">>, <<"x", "ff", "x">>}
Valid(text) == {p \in (0..3) \X (0..3) : PositionToIndex(text, p) # Nowhere}

\* Edits of ranges of the text, and some of what is not one.
EditsOf(text) ==
    {e \in [start : Valid(text), end : Valid(text), new : {<<>>, <<"lf">>}] : ~Before(e.end, e.start)}
    \cup [start : {<<0, 1>>}, end : {<<0, 0>>, <<0, 3>>, <<2, 1>>}, new : {<<"y">>}]

MCRewritings ==
    UNION {{[text |-> t, changes |-> c, documentChanges |-> d, whole |-> <<"y", "lf">>] :
            c \in {<<>>} \cup {<<e, f>> : e, f \in EditsOf(t)}, d \in {<<>>}} : t \in Texts}
    \cup UNION {{[text |-> t, changes |-> <<e>>, documentChanges |-> <<e>>, whole |-> <<>>] :
            e \in EditsOf(t)} : t \in Texts}

-----------------------------------------------------------------------------
(* Conversions *)

Keyword(n, v) == [kind |-> "keyword", name |-> n, values |-> <<v>>]
Star(vs) == [kind |-> "star", name |-> "", values |-> vs]

\* Argument lists that Python accepts.
Arguments ==
    {as \in Upto(3, {Positional(1), Positional(2), Keyword("r", 1), Keyword("b", 2), Star(<<>>), Star(<<1>>)}) :
        \A j, k \in DOMAIN as :
            j < k /\ as[j].kind = "keyword" => as[k].kind # "positional" /\ as[k] # as[j]}

CallUse(shape, as) == [own |-> TRUE, shape |-> shape, on |-> 3, args |-> as]
Uses1 == {<<CallUse(s, as)>> : s \in {"name", "bound", "unbound"}, as \in Arguments}
Uses2 == {<<CallUse(s, <<Positional(1)>>), u>> : s \in {"name", "bound"},
          u \in {CallUse("other", <<>>), [CallUse("name", <<Positional(1)>>) EXCEPT !.own = FALSE],
                 CallUse("unbound", <<Positional(1)>>), CallUse("name", <<Keyword("r", 1)>>)}}

FunctionConversions ==
    [tool : {"function"}, to : {"method", "function"}, params : {<<"r">>, <<"r", "b">>}, positionalOnly : BOOLEAN,
     plain : {TRUE}, taken : BOOLEAN, search : [failed : {FALSE}, declared : {TRUE}], uses : {<<>>} \cup Uses1]
    \cup
    [tool : {"function"}, to : {"method", "function"}, params : {<<"r">>}, positionalOnly : BOOLEAN,
     plain : BOOLEAN, taken : {FALSE}, search : [failed : BOOLEAN, declared : BOOLEAN], uses : Uses2]

\* Statements and methods over the fields "x", "y" and the methods "m", "n".
InitStatements ==
    {[sets |-> {}, touches |-> {}], [sets |-> {}, touches |-> {"m"}], [sets |-> {"x"}, touches |-> {"x"}],
     [sets |-> {"x"}, touches |-> {"x", "m"}], [sets |-> {"y"}, touches |-> {"x", "y"}], [sets |-> {}, touches |-> {"c"}]}
Method(n, touched, movable) == [name |-> n, touches |-> touched, movable |-> movable]
Classes ==
    [tool : {"extract"}, plain : BOOLEAN, init : Upto(3, InitStatements),
     methods : {<<>>, <<Method("m", {"n"}, TRUE), Method("n", {"m"}, TRUE)>>}
               \cup {<<Method("m", t, b)>> : t \in {{}, {"x"}, {"x", "y"}, {"n"}}, b \in BOOLEAN},
     attributes : {{}, {"x"}}, members : {{}, {"x"}, {"m"}, {"x", "m"}, {"x", "y", "m"}, {"m", "n"}},
     collaborator : {"c", "x"}]

Parameter(n, d, t, i) == [name |-> n, default |-> d, typed |-> t, inferred |-> i]
Parameters == {Parameter(n, d, t[1], t[2]) : n \in {"a", "b"}, d \in {"none", "plain", "mutable"},
                                             t \in {<<TRUE, FALSE>>, <<FALSE, TRUE>>, <<FALSE, FALSE>>}}
Attribute(n, annotated, v) == [name |-> n, annotated |-> annotated, value |-> v]
Attributes == {<<>>, <<Attribute("a", FALSE, "other")>>, <<Attribute("k", FALSE, "other")>>, <<Attribute("k", TRUE, "none")>>}
Constructors ==
    {q \in [tool : {"dataclass"}, plain : BOOLEAN, params : Upto(2, Parameters),
            assigned : {<<>>, <<"a">>, <<"a", "b">>, <<"b", "a">>}, before : Attributes, after : Attributes] :
        /\ \A j, k \in DOMAIN q.params : j # k => q.params[j].name # q.params[k].name
        /\ \A j, k \in DOMAIN q.params : j < k /\ q.params[j].default # "none" => q.params[k].default # "none"}

MCConverted == FunctionConversions \cup Classes \cup Constructors
=============================================================================
