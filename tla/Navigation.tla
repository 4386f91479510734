----------------------------- MODULE Navigation -----------------------------
(***************************************************************************)
(* call_hierarchy and type_hierarchy (tools/navigation/hierarchy.py) and   *)
(* get_symbol_outline (tools/navigation/outline.py) as functions of what   *)
(* the language server answers.                                            *)
(*                                                                         *)
(* The items of a hierarchy are numbers, in the order of their keys.  A    *)
(* symbol of an outline is [id, first, last, kids] with the lines it       *)
(* spans; one file is modelled, lines identify symbols.                    *)
(***************************************************************************)
EXTENDS Integers, FiniteSets, SequencesExt

NoLimit == 0

\* Every element of the list xs replaced by a list.
FlatMap(F(_), xs) == FoldLeft(LAMBDA found, x : found \o F(x), <<>>, xs)

-----------------------------------------------------------------------------
(* Hierarchies.  next[i] lists what the server answers for item i.         *)

\* Mutant: an item counts as visited when it is expanded.
MeetUnmarked(walk, i, depth, most) ==
    [walk EXCEPT !.found = Append(@, i), !.pending = Append(@, <<i, depth>>)]

\* A fetched item: it is found and queued once, and the one that reaches
\* max_items ends the traversal.
Meet(walk, i, depth, most) ==
    IF walk.cut \/ i \in walk.visited THEN walk
    ELSE [visited |-> walk.visited \cup {i},
          found |-> Append(walk.found, i),
          pending |-> Append(walk.pending, <<i, depth>>),
          cut |-> most # NoLimit /\ Len(walk.found) + 1 >= most]

\* Mutant: the pending items are a stack.
PickLast(pending) == <<Last(pending), Front(pending)>>

\* The item that is expanded next, and the others.
Pick(pending) == <<Head(pending), Tail(pending)>>

RECURSIVE Walk(_, _, _, _)
Walk(next, depth, most, walk) ==
    IF walk.cut \/ walk.pending = <<>> THEN walk
    ELSE LET picked == Pick(walk.pending)
             item == picked[1][1]
             level == picked[1][2]
             rest == [walk EXCEPT !.pending = picked[2]]
         IN Walk(next, depth, most,
                 IF level >= depth THEN rest
                 ELSE FoldLeft(LAMBDA w, i : Meet(w, i, level + 1, most),
                               rest, next[item]))

Traverse(next, root, depth, most) ==
    LET walk == Walk(next, depth, most,
                     [visited |-> {root}, found |-> <<>>,
                      pending |-> <<<<root, 0>>>>, cut |-> FALSE])
    IN [found |-> ToSet(walk.found), truncated |-> walk.cut]

Nothing == [found |-> {}, truncated |-> FALSE]

\* What a position resolves to: nothing, or an item of this file or another,
\* whose name may be empty.
NoRoot == [item |-> 0, own |-> FALSE, named |-> FALSE]

\* call_hierarchy's root: the first item at the position; that at the
\* decorated function's name when the first is of another file; and that of
\* the first enclosing function with a named item when the root has no name.
CallRoot(at, decorated, enclosing) ==
    LET direct == IF at # NoRoot /\ ~at.own /\ decorated # NoRoot THEN decorated ELSE at
        named == SelectSeq(enclosing, LAMBDA r : r.named)
    IN IF direct.named \/ named = <<>> THEN direct ELSE Head(named)

\* type_hierarchy's root: the position of the class's name is asked when it
\* is another one.
TypeRoot(at, elsewhere, ofClass) ==
    IF at = NoRoot /\ elsewhere THEN ofClass ELSE at

\* One tool call: up is asked for callers or supertypes, down for callees or
\* subtypes.
Hierarchy(q) ==
    LET root == IF q.types THEN TypeRoot(q.at, q.elsewhere, q.second)
                ELSE CallRoot(q.at, q.second, q.enclosing)
        Part(wanted, next) ==
            IF root = NoRoot \/ ~wanted THEN Nothing
            ELSE Traverse(next, root.item, q.depth, q.most)
        up == Part(q.direction \in {"up", "both"}, q.up)
        down == Part(q.direction \in {"down", "both"}, q.down)
    IN IF q.direction \notin {"up", "down", "both"} \/ q.depth < 1
       THEN [error |-> TRUE]
       ELSE [error |-> FALSE, root |-> root, up |-> up, down |-> down,
             truncated |-> up.truncated \/ down.truncated]

-----------------------------------------------------------------------------
(* Outlines *)

Encloses(outer, inner) == outer.first <= inner.first /\ inner.last <= outer.last

RECURSIVE Collect(_, _)
\* The wanted symbols of a forest, all in one list; each keeps its children.
Collect(items, wanted) ==
    FlatMap(LAMBDA s : (IF s.id \in wanted THEN <<s>> ELSE <<>>)
                       \o Collect(s.kids, wanted), items)

\* By start, the outermost first.
Outermost(items) ==
    SortSeq(items, LAMBDA s, t : \/ s.first < t.first
                                 \/ s.first = t.first /\ s.last > t.last)

RECURSIVE Nest(_)
\* The first symbol takes every later one it contains as a child.
Nest(sorted) ==
    IF sorted = <<>> THEN <<>>
    ELSE LET top == Head(sorted)
             inside == SelectSeq(Tail(sorted), LAMBDA s : Encloses(top, s))
             others == SelectSeq(Tail(sorted), LAMBDA s : ~Encloses(top, s))
         IN <<[top EXCEPT !.kids = @ \o inside]>> \o Nest(others)

Renest(items) == IF Len(items) <= 1 THEN items ELSE Nest(Outermost(items))

RECURSIVE Preorder(_)
\* The symbols of a tree, depth first.
Preorder(s) == <<s.id>> \o FlatMap(Preorder, s.kids)

CountNodes(s) == Len(Preorder(s))

RECURSIVE Prune(_, _)
\* Mutant: every child gets the whole remaining budget of the parent.
PruneGenerously(s, budget) ==
    LET kids == [k \in DOMAIN s.kids |-> Prune(s.kids[k], budget - 1)]
    IN [s EXCEPT !.kids = SubSeq(kids, 1, IF budget - 1 < Len(kids) THEN budget - 1 ELSE Len(kids))]

\* A copy with a depth-first prefix of the descendants, of at most budget
\* nodes.
Prune(s, budget) ==
    LET Add(kept, kid) ==
            LET left == budget - 1 - Len(FlatMap(Preorder, kept))
            IN IF left <= 0 THEN kept ELSE Append(kept, Prune(kid, left))
    IN [s EXCEPT !.kids = FoldLeft(Add, <<>>, s.kids)]

RECURSIVE Spend(_, _)
\* Mutant: the root that crosses the budget is dropped, not pruned, and the
\* page is called complete when the budget ends with a root.
SpendWhole(roots, budget) ==
    IF roots = <<>> \/ budget <= 0 THEN [items |-> <<>>, truncated |-> FALSE]
    ELSE LET size == CountNodes(Head(roots))
         IN IF size > budget THEN [items |-> <<>>, truncated |-> TRUE]
            ELSE LET rest == Spend(Tail(roots), budget - size)
                 IN [rest EXCEPT !.items = <<Head(roots)>> \o @]

\* Whole roots until the budget is spent; the root that crosses it is pruned.
Spend(roots, budget) ==
    IF roots = <<>> THEN [items |-> <<>>, truncated |-> FALSE]
    ELSE IF budget <= 0 THEN [items |-> <<>>, truncated |-> TRUE]
    ELSE LET size == CountNodes(Head(roots))
         IN IF size > budget
            THEN [items |-> <<Prune(Head(roots), budget)>>, truncated |-> TRUE]
            ELSE LET rest == Spend(Tail(roots), budget - size)
                 IN [rest EXCEPT !.items = <<Head(roots)>> \o @]

ApplyBudget(roots, most) ==
    IF most = NoLimit THEN [items |-> roots, truncated |-> FALSE] ELSE Spend(roots, most)

\* apply_limit.
Limited(items, limit) ==
    IF limit = NoLimit \/ Len(items) <= limit THEN items ELSE SubSeq(items, 1, limit)

\* The sorted roots from the offset on.
Listed(q) ==
    LET sorted == Renest(Collect(q.symbols, q.wanted))
    IN SubSeq(sorted, q.offset + 1, Len(sorted))

\* get_symbol_outline; a file whose symbols cannot be fetched has none.
Outline(q) ==
    LET limited == Limited(Listed(q), q.limit)
        page == ApplyBudget(limited, q.most)
    IN [items |-> page.items,
        total |-> Len(Renest(Collect(q.symbols, q.wanted))),
        returned |-> Len(FlatMap(Preorder, page.items)),
        truncated |-> page.truncated \/ Len(limited) < Len(Listed(q))]

-----------------------------------------------------------------------------
(* What the answers mean *)

\* The items within a distance of the root.
Ball(next, root, depth) ==
    LET ball[d \in 0..depth] ==
            IF d = 0 THEN {root}
            ELSE ball[d - 1] \cup UNION {ToSet(next[i]) : i \in ball[d - 1]}
    IN ball[depth]

\* Without truncation a traversal finds exactly the items within the depth;
\* a truncated one has max_items of them, and no farther one before a nearer.
TraversalExact(next, root, depth, most, part) ==
    LET within == Ball(next, root, depth) \ {root}
    IN /\ most # NoLimit => Cardinality(part.found) <= most
       /\ ~part.truncated => part.found = within
       /\ part.truncated =>
            /\ part.found \subseteq within
            /\ Cardinality(part.found) = most
            /\ \A d \in 1..depth : part.found \subseteq Ball(next, root, d)
                                   \/ Ball(next, root, d) \ {root} \subseteq part.found

\* Another item replaces the one at the position only when that is of another
\* file or nameless, and there is no answer only when there is no item.
RootExact(q, r) ==
    /\ q.at.own /\ q.at.named => r.root = q.at
    /\ r.root = NoRoot => /\ q.at = NoRoot
                          /\ q.types \/ \A e \in ToSet(q.enclosing) : ~e.named
    /\ r.root \in {q.at, q.second} \cup ToSet(q.enclosing)

HierarchyExact(q, r) ==
    r.error \/
      /\ RootExact(q, r)
      /\ r.root = NoRoot => ~r.truncated /\ r.up = Nothing /\ r.down = Nothing
      /\ r.root # NoRoot =>
            /\ q.direction # "down" => TraversalExact(q.up, r.root.item, q.depth, q.most, r.up)
            /\ q.direction # "up" => TraversalExact(q.down, r.root.item, q.depth, q.most, r.down)

\* A page is the depth-first prefix of the listed symbols that the limits
\* allow, and says so exactly when something was left out.
OutlineExact(q, r) ==
    LET all == FlatMap(Preorder, Listed(q))
        page == FlatMap(Preorder, r.items)
    IN /\ IsPrefix(page, all)
       /\ r.truncated <=> page # all
       /\ r.returned = Len(page)
       /\ q.most # NoLimit => r.returned <= q.most
       /\ q.limit # NoLimit => Len(r.items) <= q.limit
       /\ r.truncated =>
             \/ q.most # NoLimit /\ r.returned = q.most
             \/ q.limit # NoLimit /\ Len(r.items) = q.limit
=============================================================================
