------------------------------ MODULE TextEdits ------------------------------
(***************************************************************************)
(* What a list of text edits makes of a text: apply_text_edits and its     *)
(* positions (util/diff.py), the end of a whole-file edit (util/shared.py) *)
(* and the edits of a code action (tools/refactoring/helpers.py).          *)
(*                                                                         *)
(* A text is a sequence of characters: "lf" and "cr" that end lines, "ff"  *)
(* for the others that end one for str.splitlines, and letters.  A position*)
(* is <<line, character>>, an edit [start, end, new].                      *)
(***************************************************************************)
EXTENDS Integers, Lists, SequencesExt

-----------------------------------------------------------------------------
(* Lines and positions *)

\* The offsets at which a line of splitlines ends, its break included.
LineEnds(text) ==
    {i \in DOMAIN text : \/ text[i] \in {"lf", "ff"}
                         \/ text[i] = "cr" /\ (i = Len(text) \/ text[i + 1] # "lf")}

LineStarts(text) ==
    SetToSortSeq({0} \cup (LineEnds(text) \ {Len(text)}), LAMBDA i, j : i < j)

\* The characters of a line, from the offset start, without those of set.
Width(text, start, set) ==
    Cardinality({i \in DOMAIN text : /\ i > start /\ text[i] \notin set
                                     /\ ~\E e \in LineEnds(text) : start < e /\ e < i})

Nowhere == -1

\* _position_to_index.  The line after the last break has one position.
PositionToIndex(text, p) ==
    LET starts == LineStarts(text) IN
    IF p[1] < Len(starts)
    THEN IF p[2] <= Width(text, starts[p[1] + 1], {"lf", "cr"}) THEN starts[p[1] + 1] + p[2] ELSE Nowhere
    ELSE IF p = <<Len(starts), 0>> THEN Len(text) ELSE Nowhere

\* end_position_for_content
EndPosition(text) ==
    LET starts == LineStarts(text) IN
    IF text = <<>> THEN <<0, 0>>
    ELSE IF Last(text) \in {"lf", "cr"} THEN <<Len(starts), 0>>
    ELSE <<Len(starts) - 1, Width(text, Last(starts), {"lf", "cr", "ff"})>>

-----------------------------------------------------------------------------
(* Edits *)

Before(p, r) == p[1] < r[1] \/ (p[1] = r[1] /\ p[2] < r[2])

\* Mutant: the edits are applied from the first on.
LaterAscending(d, e) == Before(d.start, e.start) \/ (d.start = e.start /\ Before(d.end, e.end))

\* The sort key of apply_text_edits, descending.
Later(d, e) == Before(e.start, d.start) \/ (d.start = e.start /\ Before(e.end, d.end))

\* sorted keeps the order of equal keys.
Ordered(edits) ==
    LET places == SetToSortSeq(DOMAIN edits, LAMBDA i, j :
                      \/ Later(edits[i], edits[j])
                      \/ ~Later(edits[j], edits[i]) /\ i < j)
    IN [k \in DOMAIN edits |-> edits[places[k]]]

\* Mutant: edits that touch are taken for overlapping.
CollidesTouching(end, previous) == end >= previous

Collides(end, previous) == end > previous

\* One edit of the text as the later ones left it; previous is where the last
\* one began.
ApplyOne(s, e) ==
    LET start == PositionToIndex(s.text, e.start)
        end == PositionToIndex(s.text, e.end)
    IN IF s.error \/ Nowhere \in {start, end} \/ end < start \/ Collides(end, s.previous)
       THEN [s EXCEPT !.error = TRUE]
       ELSE [error |-> FALSE, previous |-> start,
             text |-> SubSeq(s.text, 1, start) \o e.new \o SubSeq(s.text, end + 1, Len(s.text))]

ApplyTextEdits(text, edits) ==
    LET applied == FoldLeft(ApplyOne, [error |-> FALSE, text |-> text, previous |-> Len(text)],
                            Ordered(edits))
    IN [error |-> applied.error, text |-> IF applied.error THEN text ELSE applied.text]

\* Mutant: an edit that is given in both forms is applied twice.
DedupedNever(edits) == edits

Deduped(edits) == Once(edits)

\* workspace_edit_to_text_edits: the edits of "changes" and "documentChanges"; its
\* sorting keeps equal keys in order, as Ordered does after it.
WorkspaceEdits(changes, documentChanges) == Deduped(changes \o documentChanges)

\* One rewrite: the edits of a code action, and one that replaces the file.
Rewrite(q) ==
    [action |-> ApplyTextEdits(q.text, WorkspaceEdits(q.changes, q.documentChanges)),
     whole |-> ApplyTextEdits(q.text, <<[start |-> <<0, 0>>, end |-> EndPosition(q.text), new |-> q.whole]>>)]

-----------------------------------------------------------------------------
(* What the answers mean *)

\* All edits at once: every character outside their ranges stays, and the new
\* texts stand where the ranges began, insertions first.
Substituted(text, edits) ==
    LET From(e) == PositionToIndex(text, e.start)
        To(e) == PositionToIndex(text, e.end)
        Starting(i) == SelectSeq(edits, LAMBDA e : From(e) = i /\ To(e) > i)
        Inserted(i) == SelectSeq(Reverse(edits), LAMBDA e : From(e) = i /\ To(e) = i)
        Texts(list) == FlattenSeq([k \in DOMAIN list |-> list[k].new])
        Kept(i) == IF i = Len(text) \/ \E e \in ToSet(edits) : From(e) <= i /\ i < To(e)
                   THEN <<>> ELSE <<text[i + 1]>>
    IN FlattenSeq([k \in 1..(Len(text) + 1) |->
                      Texts(Inserted(k - 1)) \o Texts(Starting(k - 1)) \o Kept(k - 1)])

\* The edits have ranges of the text that do not overlap.
Separate(text, edits) ==
    LET From(k) == PositionToIndex(text, edits[k].start)
        To(k) == PositionToIndex(text, edits[k].end)
    IN /\ \A k \in DOMAIN edits : From(k) # Nowhere /\ To(k) # Nowhere /\ From(k) <= To(k)
       /\ \A j, k \in DOMAIN edits : j # k => To(j) <= From(k) \/ To(k) <= From(j)

\* No edit names a place in two ways: a text that does not end its last line has
\* a next line all the same, at the same place, and so has a form feed.
Unambiguous(text, edits) ==
    LET named == UNION {{e.start, e.end} : e \in ToSet(edits)} IN
    /\ \A p, r \in named : PositionToIndex(text, p) = PositionToIndex(text, r) => p = r
    /\ <<Len(LineStarts(text)), 0>> \in named => text # <<>> /\ Last(text) \in {"lf", "cr"}

\* Where the text is cut off at its end, one position of the rest is beyond it.
CutsOff(text, edits) ==
    \E e \in ToSet(edits) : e.new = <<>> /\ e.start # e.end /\ PositionToIndex(text, e.end) = Len(text)

\* What is applied is what the edits mean in the text they were made for,
\* although each is looked up in the text the others left; edits that overlap or
\* lie outside are refused, and no others unless a lone "\r" could meet a "\n".
\* An edit that is given in both forms counts once.  A whole-file edit leaves
\* nothing of the old text but a last line break other than "\n" and "\r".
RewriteExact(q, r) ==
    LET edits == Deduped(q.changes)
        loneCr == \E i \in LineEnds(q.text) : q.text[i] = "cr"
    IN /\ r.action.error => r.action.text = q.text
       /\ Unambiguous(q.text, edits) =>
            /\ ~r.action.error /\ ~CutsOff(q.text, edits) => Separate(q.text, edits)
            /\ Separate(q.text, edits) =>
                 /\ ~loneCr => ~r.action.error
                 /\ ~r.action.error => r.action.text = Substituted(q.text, edits)
       /\ q.text = <<>> \/ Last(q.text) # "ff" => ~r.whole.error /\ r.whole.text = q.whole
=============================================================================
