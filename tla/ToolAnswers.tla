---------------------------- MODULE ToolAnswers ----------------------------
(***************************************************************************)
(* One call of a read-only tool, or of one that plans a rewrite: a question *)
(* and the answer computed from it (see DirectAnswers).  The tools that     *)
(* walk a graph or a tree, or plan a list of changes or edits.              *)
(***************************************************************************)
EXTENDS DirectAnswers, Navigation, ImportGraph, TextEdits

CONSTANTS Hierarchies, Outlines, Resolutions, Graphs, Layerings, Fixes, Plans, Rewritings

Init ==
    \/ DirectInit
    \/ /\ answer = Pending
       /\ \/ Ask("hierarchy", Hierarchies)
          \/ Ask("outline", Outlines)
          \/ Ask("resolve", Resolutions)
          \/ Ask("cycles", Graphs)
          \/ Ask("layers", Layerings)
          \/ Ask("fix", Fixes)
          \/ Ask("plan", Plans)
          \/ Ask("rewrite", Rewritings)

AnswerHierarchy == Reply("hierarchy", Hierarchy(question))
AnswerOutline == Reply("outline", Outline(question))
AnswerResolve == Reply("resolve", ResolveFrom(question.file, question.import, question.files))
AnswerCycles == Reply("cycles", FindCycles(question))
AnswerLayers == Reply("layers", {f \in question.files :
                                    \E i \in question.imports[f] : Violates(question.layers, f, i)})
AnswerFix == Reply("fix", FixCircularImports(question))
AnswerPlan == Reply("plan", Refactor(question))
AnswerRewrite == Reply("rewrite", Rewrite(question))

Next ==
    \/ DirectNext
    \/ AnswerHierarchy \/ AnswerOutline \/ AnswerResolve \/ AnswerCycles \/ AnswerLayers \/ AnswerFix \/ AnswerPlan
    \/ AnswerRewrite

Spec == Init /\ [][Next]_exchange

-----------------------------------------------------------------------------

\* A hierarchy is the breadth-first ball around the item the position stands
\* for, cut only at max_items (hierarchy.py:37-68); an outline is a
\* depth-first prefix that tells what it left out (outline.py:84-130).
NavigationExact ==
    /\ Answered("hierarchy") => HierarchyExact(question, answer[1])
    /\ Answered("outline") => OutlineExact(question, answer[1])

\* Imports resolve to at most one file, a relative one beside its source; the
\* cycles are the strongly connected components (dependencies.py:120-242);
\* without violations no cycle crosses layers (architecture.py:85-187).
\* Moving imports under TYPE_CHECKING breaks cycles and nothing else: what its
\* own module needs at run time or exports stays imported
\* (circular_imports.py:311-398, 418-476).
ImportsExact ==
    /\ Answered("resolve") => ResolutionExact(question)
    /\ Answered("cycles") => CyclesExact(question, answer[1])
    /\ Answered("layers") => LayersSound(question)
    /\ Answered("fix") =>
          /\ FixSafe(question, answer[1])
          /\ CouplingBalances(question.files, Coupling(question.files, answer[1].statements))

\* A preview tells what the apply would do, an apply does what Rope computed,
\* and one that cannot be done changes nothing (rope_backend.py:395-530); a list
\* of edits does to a text what each of them says of it (diff.py:38-76).
PlansExact ==
    /\ Answered("plan") => PlanExact(question, answer[1])
    /\ Answered("rewrite") => RewriteExact(question, answer[1])
=============================================================================
