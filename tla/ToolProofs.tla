----------------------------- MODULE ToolProofs -----------------------------
(***************************************************************************)
(* Proofs about the tools: about ToolCalls, for all the tools of the       *)
(* catalogue, every set of calls and roots and every limit of workspaces,  *)
(* and about DirectAnswers, for every question and every answer of the     *)
(* backends, every call, class, signature and module.                      *)
(***************************************************************************)
EXTENDS ToolCalls, DirectAnswers, ListProofs

-----------------------------------------------------------------------------
(* The catalogue.  Its rows are facts about the code: what each delegate   *)
(* does, and how it is annotated, group by group.                          *)

Effects == {"reads", "stubs", "edits", "pushes", "spreads", "transaction",
            "restart", "undo", "begin", "commit", "rollback"}

\* A row has a known effect, and it reads exactly when its tool is annotated
\* as read-only.
Honest(rows) ==
    \A r \in rows : /\ r.effect \in Effects
                    /\ r.effect = "reads" <=> ReadOnly(r.name)
                    /\ r.paths \subseteq Nat

LEMMA RecordsHonest == Honest(Records)
BY SMTT(60) DEF Honest, Effects, ReadOnly, Destroys, Additive, Destructive, DestructiveExplicit,
   Records, Rows, SemanticQueries, DiagnosticQueries, StaticQueries, StubTools,
   NavigationTools, Extractions, FileEdits, ClassConversions, SyntaxRewrites,
   ImportTools, ParameterTools, MethodTools, SearchTools, MetricsTools,
   Compositions, HistoryTools, ServerTools, ScanTools

\* A tool is advertised as read-only exactly when its delegate only reads.
LEMMA CatalogueHonest ==
    ASSUME NEW t \in ToolNames
    PROVE  /\ Catalogue[t].effect \in Effects
           /\ ReadOnly(t) <=> Catalogue[t].effect = "reads"
           /\ Catalogue[t].paths \subseteq Nat
<1>1. Catalogue[t] \in Records /\ Catalogue[t].name = t
    BY DEF Catalogue, ToolNames
<1>2. QED  BY <1>1, RecordsHonest DEF Honest

-----------------------------------------------------------------------------
(* The size of the catalogue and of its profiles.  No two rows are of one  *)
(* tool; and the rows are counted group by group, those that read apart    *)
(* from those that do something, which are the two profiles but for the    *)
(* queries that the refactoring profile has as well.                       *)

Distinct(rows) == \A r, s \in rows : r.name = s.name => r = s

LEMMA RecordsDistinct == Distinct(Records)
BY SMTT(60) DEF Distinct,
   Records, Rows, SemanticQueries, DiagnosticQueries, StaticQueries, StubTools,
   NavigationTools, Extractions, FileEdits, ClassConversions, SyntaxRewrites,
   ImportTools, ParameterTools, MethodTools, SearchTools, MetricsTools,
   Compositions, HistoryTools, ServerTools, ScanTools

\* A set has at most n members.
AtMost(n, S) == IsFiniteSet(S) /\ Cardinality(S) <= n

LEMMA AtMostBoth ==
    ASSUME NEW m \in Nat, NEW n \in Nat, NEW S, NEW T, AtMost(m, S), AtMost(n, T)
    PROVE  AtMost(m + n, S \cup T)
<1>1. IsFiniteSet(S) /\ IsFiniteSet(T) /\ Cardinality(S) \in Nat /\ Cardinality(T) \in Nat
    BY FS_CardinalityType DEF AtMost
<1>2. /\ IsFiniteSet(S \cup T) /\ IsFiniteSet(S \cap T)
      /\ Cardinality(S \cup T) = Cardinality(S) + Cardinality(T) - Cardinality(S \cap T)
    BY <1>1, FS_Union, FS_Intersection
<1>3. Cardinality(S \cap T) \in Nat
    BY <1>2, FS_CardinalityType
<1>4. Cardinality(S) <= m /\ Cardinality(T) <= n
    BY DEF AtMost
<1>5. Cardinality(S \cup T) <= m + n
    BY <1>1, <1>2, <1>3, <1>4
<1>6. QED  BY <1>2, <1>5 DEF AtMost

LEMMA AtMostPart ==
    ASSUME NEW n \in Nat, NEW S, AtMost(n, S), NEW T, T \subseteq S
    PROVE  AtMost(n, T)
<1>1. /\ IsFiniteSet(T) /\ Cardinality(T) <= Cardinality(S)
      /\ Cardinality(S) <= n
    BY FS_Subset DEF AtMost
<1>2. Cardinality(T) \in Nat /\ Cardinality(S) \in Nat
    BY <1>1, FS_CardinalityType DEF AtMost
<1>3. Cardinality(T) <= n
    BY <1>1, <1>2
<1>4. QED  BY <1>1, <1>3 DEF AtMost

LEMMA AtMostOne ==
    ASSUME NEW x
    PROVE  AtMost(1, {x})
BY FS_Singleton DEF AtMost

LEMMA AtMostMore ==
    ASSUME NEW n \in Nat, NEW S, AtMost(n, S), NEW x
    PROVE  AtMost(n + 1, S \cup {x})
<1>1. 1 \in Nat /\ AtMost(1, {x})
    BY AtMostOne
<1>2. QED  BY <1>1, AtMostBoth

\* Sets that are listed.
LEMMA AtMostFew ==
    /\ \A a : AtMost(1, {a})
    /\ \A a, b : AtMost(2, {a, b})
    /\ \A a, b, c : AtMost(3, {a, b, c})
    /\ \A a, b, c, d : AtMost(4, {a, b, c, d})
    /\ \A a, b, c, d, e : AtMost(5, {a, b, c, d, e})
    /\ \A a, b, c, d, e, f : AtMost(6, {a, b, c, d, e, f})
    /\ \A a, b, c, d, e, f, g : AtMost(7, {a, b, c, d, e, f, g})
    /\ \A a, b, c, d, e, f, g, h : AtMost(8, {a, b, c, d, e, f, g, h})
<1>1. ASSUME NEW a PROVE AtMost(1, {a})
    BY AtMostOne
<1>2. ASSUME NEW a, NEW b PROVE AtMost(2, {a, b})
  <2>1. AtMost(1 + 1, {a} \cup {b})
      BY AtMostMore, <1>1
  <2>2. {a} \cup {b} = {a, b} /\ 1 + 1 = 2
      OBVIOUS
  <2>3. QED  BY <2>1, <2>2
<1>3. ASSUME NEW a, NEW b, NEW c PROVE AtMost(3, {a, b, c})
  <2>1. AtMost(2 + 1, {a, b} \cup {c})
      BY AtMostMore, <1>2
  <2>2. {a, b} \cup {c} = {a, b, c} /\ 2 + 1 = 3
      OBVIOUS
  <2>3. QED  BY <2>1, <2>2
<1>4. ASSUME NEW a, NEW b, NEW c, NEW d PROVE AtMost(4, {a, b, c, d})
  <2>1. AtMost(3 + 1, {a, b, c} \cup {d})
      BY AtMostMore, <1>3
  <2>2. {a, b, c} \cup {d} = {a, b, c, d} /\ 3 + 1 = 4
      OBVIOUS
  <2>3. QED  BY <2>1, <2>2
<1>5. ASSUME NEW a, NEW b, NEW c, NEW d, NEW e PROVE AtMost(5, {a, b, c, d, e})
  <2>1. AtMost(4 + 1, {a, b, c, d} \cup {e})
      BY AtMostMore, <1>4
  <2>2. {a, b, c, d} \cup {e} = {a, b, c, d, e} /\ 4 + 1 = 5
      OBVIOUS
  <2>3. QED  BY <2>1, <2>2
<1>6. ASSUME NEW a, NEW b, NEW c, NEW d, NEW e, NEW f PROVE AtMost(6, {a, b, c, d, e, f})
  <2>1. AtMost(5 + 1, {a, b, c, d, e} \cup {f})
      BY AtMostMore, <1>5
  <2>2. {a, b, c, d, e} \cup {f} = {a, b, c, d, e, f} /\ 5 + 1 = 6
      OBVIOUS
  <2>3. QED  BY <2>1, <2>2
<1>7. ASSUME NEW a, NEW b, NEW c, NEW d, NEW e, NEW f, NEW g PROVE AtMost(7, {a, b, c, d, e, f, g})
  <2>1. AtMost(6 + 1, {a, b, c, d, e, f} \cup {g})
      BY AtMostMore, <1>6
  <2>2. {a, b, c, d, e, f} \cup {g} = {a, b, c, d, e, f, g} /\ 6 + 1 = 7
      OBVIOUS
  <2>3. QED  BY <2>1, <2>2
<1>8. ASSUME NEW a, NEW b, NEW c, NEW d, NEW e, NEW f, NEW g, NEW h PROVE AtMost(8, {a, b, c, d, e, f, g, h})
  <2>1. AtMost(7 + 1, {a, b, c, d, e, f, g} \cup {h})
      BY AtMostMore, <1>7
  <2>2. {a, b, c, d, e, f, g} \cup {h} = {a, b, c, d, e, f, g, h} /\ 7 + 1 = 8
      OBVIOUS
  <2>3. QED  BY <2>1, <2>2
<1>9. QED  BY <1>1, <1>2, <1>3, <1>4, <1>5, <1>6, <1>7, <1>8

\* At most n rows of a group read, and at most m do not.
Tally(n, m, rows) ==
    /\ AtMost(n, {r \in rows : r.effect = "reads"})
    /\ AtMost(m, {r \in rows : r.effect # "reads"})

\* There are no more rows than names.
LEMMA AtMostRows ==
    ASSUME NEW n \in Nat, NEW names, AtMost(n, names), NEW least, NEW most, NEW effect
    PROVE  AtMost(n, Rows(names, least, most, effect))
<1> DEFINE rows == Rows(names, least, most, effect)
           row == [t \in names |-> [name |-> t, paths |-> least..most, effect |-> effect]]
<1>1. row \in Surjection(names, rows)
    BY DEF Surjection, Rows
<1>2. IsFiniteSet(names) /\ Cardinality(names) <= n
    BY DEF AtMost
<1> HIDE DEF rows, row
<1>3. IsFiniteSet(rows) /\ Cardinality(rows) <= Cardinality(names)
    BY <1>1, <1>2, FS_Surjection
<1>4. Cardinality(rows) \in Nat /\ Cardinality(names) \in Nat
    BY <1>2, <1>3, FS_CardinalityType
<1>5. AtMost(n, rows)
    BY <1>2, <1>3, <1>4 DEF AtMost
<1>6. QED  BY <1>5 DEF rows

LEMMA TallyBoth ==
    ASSUME NEW n1 \in Nat, NEW m1 \in Nat, NEW n2 \in Nat, NEW m2 \in Nat,
           NEW some, NEW others, Tally(n1, m1, some), Tally(n2, m2, others)
    PROVE  Tally(n1 + n2, m1 + m2, some \cup others)
<1>1. /\ {r \in some \cup others : r.effect = "reads"} =
             {r \in some : r.effect = "reads"} \cup {r \in others : r.effect = "reads"}
      /\ {r \in some \cup others : r.effect # "reads"} =
             {r \in some : r.effect # "reads"} \cup {r \in others : r.effect # "reads"}
    OBVIOUS
<1>2. QED  BY <1>1, AtMostBoth DEF Tally

LEMMA TallyReads ==
    ASSUME NEW n \in Nat, NEW names, AtMost(n, names), NEW least, NEW most
    PROVE  Tally(n, 0, Rows(names, least, most, "reads"))
<1>1. /\ {r \in Rows(names, least, most, "reads") : r.effect = "reads"} =
             Rows(names, least, most, "reads")
      /\ {r \in Rows(names, least, most, "reads") : r.effect # "reads"} = {}
    BY DEF Rows
<1>2. AtMost(0, {})
    BY FS_EmptySet DEF AtMost
<1>3. AtMost(n, Rows(names, least, most, "reads"))
    BY AtMostRows
<1>4. QED  BY <1>1, <1>2, <1>3, Zenon DEF Tally

LEMMA TallyEffect ==
    ASSUME NEW n \in Nat, NEW names, AtMost(n, names), NEW least, NEW most,
           NEW effect, effect # "reads"
    PROVE  Tally(0, n, Rows(names, least, most, effect))
<1>1. /\ {r \in Rows(names, least, most, effect) : r.effect # "reads"} =
             Rows(names, least, most, effect)
      /\ {r \in Rows(names, least, most, effect) : r.effect = "reads"} = {}
    BY DEF Rows
<1>2. AtMost(0, {})
    BY FS_EmptySet DEF AtMost
<1>3. AtMost(n, Rows(names, least, most, effect))
    BY AtMostRows
<1>4. QED  BY <1>1, <1>2, <1>3, Zenon DEF Tally

\* The groups, by the rows that read and the rows that do something.
LEMMA GroupsTallied ==
    /\ Tally(7, 0, SemanticQueries)
    /\ Tally(2, 0, DiagnosticQueries)
    /\ Tally(5, 0, StaticQueries)
    /\ Tally(1, 1, StubTools)
    /\ Tally(9, 0, NavigationTools)
    /\ Tally(0, 5, Extractions)
    /\ Tally(0, 6, FileEdits)
    /\ Tally(0, 5, ClassConversions)
    /\ Tally(0, 4, SyntaxRewrites)
    /\ Tally(2, 4, ImportTools)
    /\ Tally(0, 8, ParameterTools)
    /\ Tally(0, 7, MethodTools)
    /\ Tally(5, 0, SearchTools)
    /\ Tally(11, 0, MetricsTools)
    /\ Tally(6, 1, Compositions)
    /\ Tally(1, 7, HistoryTools)
    /\ Tally(3, 2, ServerTools)
    /\ Tally(4, 2, ScanTools)
<1> USE AtMostFew, TallyReads, TallyEffect, TallyBoth
<1>1. {0, 1, 2, 3, 4, 5, 6, 7, 8} \subseteq Nat /\ \A m, n \in Nat : m + n \in Nat
    OBVIOUS
<1>2. Tally(7, 0, SemanticQueries)
    BY <1>1, Zenon DEF SemanticQueries
<1>3. Tally(2, 0, DiagnosticQueries)
    BY <1>1, Zenon DEF DiagnosticQueries
<1>4. Tally(5, 0, StaticQueries)
    BY <1>1, Zenon DEF StaticQueries
<1>5. Tally(1, 1, StubTools)
  <2>1. Tally(0 + 1, 1 + 0, StubTools)
      BY <1>1, Zenon DEF StubTools
  <2>2. QED  BY <2>1
<1>6. Tally(9, 0, NavigationTools)
  <2>1. Tally(8 + 1, 0 + 0, NavigationTools)
      BY <1>1, Zenon DEF NavigationTools
  <2>2. QED  BY <2>1
<1>7. Tally(0, 5, Extractions)
  <2>1. Tally(0 + 0, 4 + 1, Extractions)
      BY <1>1, Zenon DEF Extractions
  <2>2. QED  BY <2>1
<1>8. Tally(0, 6, FileEdits)
  <2>1. Tally(0 + 0, 2 + 4, FileEdits)
      BY <1>1, Zenon DEF FileEdits
  <2>2. QED  BY <2>1
<1>9. Tally(0, 5, ClassConversions)
    BY <1>1, Zenon DEF ClassConversions
<1>10. Tally(0, 4, SyntaxRewrites)
  <2>1. Tally(0 + 0, 3 + 1, SyntaxRewrites)
      BY <1>1, Zenon DEF SyntaxRewrites
  <2>2. QED  BY <2>1
<1>11. Tally(2, 4, ImportTools)
  <2>1. Tally(0 + 1 + 1, 4 + 0 + 0, ImportTools)
      BY <1>1, Zenon DEF ImportTools
  <2>2. QED  BY <2>1
<1>12. Tally(0, 8, ParameterTools)
  <2>1. Tally(0 + 0 + 0, 6 + 1 + 1, ParameterTools)
      BY <1>1, Zenon DEF ParameterTools
  <2>2. QED  BY <2>1
<1>13. Tally(0, 7, MethodTools)
  <2>1. Tally(0 + 0 + 0, 5 + 1 + 1, MethodTools)
      BY <1>1, Zenon DEF MethodTools
  <2>2. QED  BY <2>1
<1>14. Tally(5, 0, SearchTools)
  <2>1. Tally(1 + 2 + 2, 0 + 0 + 0, SearchTools)
      BY <1>1, Zenon DEF SearchTools
  <2>2. QED  BY <2>1
<1>15. Tally(11, 0, MetricsTools)
  <2>1. Tally(5 + 3 + 3, 0 + 0 + 0, MetricsTools)
      BY <1>1, Zenon DEF MetricsTools
  <2>2. QED  BY <2>1
<1>16. Tally(6, 1, Compositions)
  <2>1. Tally(3 + 0 + 3, 0 + 1 + 0, Compositions)
      BY <1>1, Zenon DEF Compositions
  <2>2. QED  BY <2>1
<1>17. Tally(1, 7, HistoryTools)
  <2> DEFINE some == Rows({"restart_server"}, 0, 0, "restart")
                     \cup Rows({"undo_refactoring", "redo_refactoring"}, 0, 0, "undo")
                     \cup Rows({"get_refactoring_history"}, 0, 0, "reads")
                     \cup Rows({"begin_change_stack"}, 0, 0, "begin")
  <2>1. Tally(0 + 0 + 1 + 0, 1 + 2 + 0 + 1, some)
      BY <1>1, Zenon
  <2>2. HistoryTools = some \cup Rows({"commit_change_stack"}, 0, 0, "commit")
                            \cup Rows({"rollback_change_stack"}, 0, 0, "rollback")
                            \cup Rows({"multi_project_rename"}, 1, 1, "spreads")
      BY Zenon DEF HistoryTools
  <2> HIDE DEF some
  <2>3. Tally((0 + 0 + 1 + 0) + 0 + 0 + 0, (1 + 2 + 0 + 1) + 1 + 1 + 1, HistoryTools)
      BY <1>1, <2>1, <2>2, Zenon
  <2>4. QED  BY <2>3
<1>18. Tally(3, 2, ServerTools)
  <2>1. Tally(2 + 1 + 0, 0 + 0 + 2, ServerTools)
      BY <1>1, Zenon DEF ServerTools
  <2>2. QED  BY <2>1
<1>19. Tally(4, 2, ScanTools)
  <2>1. Tally(3 + 0 + 1, 0 + 2 + 0, ScanTools)
      BY <1>1, Zenon DEF ScanTools
  <2>2. QED  BY <2>1
<1>20. QED
    BY <1>2, <1>3, <1>4, <1>5, <1>6, <1>7, <1>8, <1>9, <1>10, <1>11, <1>12,
       <1>13, <1>14, <1>15, <1>16, <1>17, <1>18, <1>19, Zenon

LEMMA RecordsTallied == Tally(56, 52, Records)
<1> DEFINE queries == SemanticQueries \cup DiagnosticQueries \cup StaticQueries
                      \cup StubTools \cup NavigationTools
           edits == Extractions \cup FileEdits \cup ClassConversions
                    \cup SyntaxRewrites \cup ImportTools
           changes == ParameterTools \cup MethodTools \cup SearchTools \cup MetricsTools
           others == Compositions \cup HistoryTools \cup ServerTools \cup ScanTools
<1>1. {0, 1, 2, 3, 4, 5, 6, 7, 8, 9, 11} \subseteq Nat /\ \A m, n \in Nat : m + n \in Nat
    OBVIOUS
<1>2. Tally(24, 1, queries)
  <2>1. Tally(7 + 2 + 5 + 1 + 9, 0 + 0 + 0 + 1 + 0, queries)
      BY <1>1, GroupsTallied, TallyBoth, Zenon
  <2>2. QED  BY <2>1
<1>3. Tally(2, 24, edits)
  <2>1. Tally(0 + 0 + 0 + 0 + 2, 5 + 6 + 5 + 4 + 4, edits)
      BY <1>1, GroupsTallied, TallyBoth, Zenon
  <2>2. QED  BY <2>1
<1>4. Tally(16, 15, changes)
  <2>1. Tally(0 + 0 + 5 + 11, 8 + 7 + 0 + 0, changes)
      BY <1>1, GroupsTallied, TallyBoth, Zenon
  <2>2. QED  BY <2>1
<1>5. Tally(14, 12, others)
  <2>1. Tally(6 + 1 + 3 + 4, 1 + 7 + 2 + 2, others)
      BY <1>1, GroupsTallied, TallyBoth, Zenon
  <2>2. QED  BY <2>1
<1>6. Records = queries \cup edits \cup changes \cup others
    BY DEF Records
<1> HIDE DEF queries, edits, changes, others
<1>7. Tally(26, 25, queries \cup edits)
    BY <1>2, <1>3, TallyBoth
<1>8. Tally(42, 40, queries \cup edits \cup changes)
    BY <1>4, <1>7, TallyBoth
<1>9. Tally(56, 52, queries \cup edits \cup changes \cup others)
    BY <1>5, <1>8, TallyBoth
<1>10. QED  BY <1>6, <1>9

LEMMA SupportAtMost == AtMost(23, RefactoringSupport)
<1>1. AtMost(8, {"autoimport_search", "dead_code_detection", "diff_preview",
             "find_errors_static", "find_references", "find_unused_imports",
             "get_diagnostics", "get_module_dependencies"})
    BY AtMostFew, Zenon
<1>2. AtMost(8, {"get_refactoring_history", "get_symbol_outline", "get_syntax_errors",
             "get_type_info", "get_workspace_diagnostics", "goto_definition",
             "list_environments", "prepare_rename"})
    BY AtMostFew, Zenon
<1>3. AtMost(7, {"search_symbols", "security_scan", "selection_range", "server_status",
             "structural_search", "suggest_imports", "test_impact_select"})
    BY AtMostFew, Zenon
<1> DEFINE first == {"autoimport_search", "dead_code_detection", "diff_preview",
               "find_errors_static", "find_references", "find_unused_imports",
               "get_diagnostics", "get_module_dependencies"}
           second == {"get_refactoring_history", "get_symbol_outline", "get_syntax_errors",
               "get_type_info", "get_workspace_diagnostics", "goto_definition",
               "list_environments", "prepare_rename"}
           third == {"search_symbols", "security_scan", "selection_range", "server_status",
               "structural_search", "suggest_imports", "test_impact_select"}
<1>4. RefactoringSupport \subseteq first \cup second \cup third
    BY DEF RefactoringSupport
<1>5. AtMost(8, first) /\ AtMost(8, second) /\ AtMost(7, third)
    BY <1>1, <1>2, <1>3
<1> HIDE DEF first, second, third
<1>6. AtMost(16, first \cup second)
    BY <1>5, AtMostBoth
<1>7. AtMost(23, first \cup second \cup third)
    BY <1>5, <1>6, AtMostBoth
<1>8. QED  BY <1>4, <1>7, AtMostPart

\* The names of rows are no more than the rows.
LEMMA AtMostNames ==
    ASSUME NEW n \in Nat, NEW rows, AtMost(n, rows)
    PROVE  AtMost(n, {r.name : r \in rows})
<1> DEFINE names == {r.name : r \in rows}
           named == [r \in rows |-> r.name]
<1>1. named \in Surjection(rows, names)
    BY DEF Surjection
<1>2. IsFiniteSet(rows) /\ Cardinality(rows) <= n
    BY DEF AtMost
<1> HIDE DEF names, named
<1>3. IsFiniteSet(names) /\ Cardinality(names) <= Cardinality(rows)
    BY <1>1, <1>2, FS_Surjection
<1>4. Cardinality(rows) \in Nat /\ Cardinality(names) \in Nat
    BY <1>2, <1>3, FS_CardinalityType
<1>5. AtMost(n, names)
    BY <1>2, <1>3, <1>4 DEF AtMost
<1>6. QED  BY <1>5 DEF names

\* build_tools accepts both profiles.
LEMMA ProfilesBuildable ==
    ASSUME NEW p \in Profiles
    PROVE  Buildable(p)
<1> DEFINE reading == {r \in Records : r.effect = "reads"}
           doing == {r \in Records : r.effect # "reads"}
<1>1. AtMost(56, reading) /\ AtMost(52, doing)
    BY RecordsTallied DEF Tally
<1>2. Cardinality(Records) = Cardinality(ToolNames)
  <2> DEFINE named == [r \in Records |-> r.name]
  <2>1. named \in Bijection(Records, ToolNames)
    <3>1. named \in [Records -> ToolNames] /\ \A t \in ToolNames : \E r \in Records : named[r] = t
        BY DEF ToolNames
    <3>2. \A r, s \in Records : named[r] = named[s] => r = s
        BY RecordsDistinct DEF Distinct
    <3> HIDE DEF named
    <3>3. QED  BY <3>1, <3>2 DEF Bijection, Injection, Surjection, IsInjective
  <2>2. Records = reading \cup doing
      OBVIOUS
  <2>3. IsFiniteSet(Records)
      BY <1>1, <2>2, FS_Union DEF AtMost
  <2> HIDE DEF named
  <2>4. ExistsBijection(Records, ToolNames)
      BY <2>1 DEF ExistsBijection
  <2>5. QED  BY <2>3, <2>4, FS_Bijection
<1>3. Cardinality(Advertised[p]) < MaxToolsPerProfile
  <2> DEFINE names(rows) == {r.name : r \in rows}
  <2>1. AtMost(56, names(reading)) /\ AtMost(52, names(doing))
      BY <1>1, AtMostNames
  <2>2. AtMost(75, names(doing) \cup RefactoringSupport)
      BY <2>1, SupportAtMost, AtMostBoth
  <2>3. ASSUME NEW t \in ToolNames
        PROVE  IF ReadOnly(t) THEN t \in names(reading) ELSE t \in names(doing)
      BY RecordsHonest DEF Honest, ToolNames
  <2>4. \/ Advertised[p] \subseteq names(reading)
        \/ Advertised[p] \subseteq names(doing) \cup RefactoringSupport
      BY <2>3 DEF Advertised, ProfileIncludes, Profiles
  <2>5. AtMost(75, Advertised[p]) \/ AtMost(56, Advertised[p])
      BY <2>1, <2>2, <2>4, AtMostPart
  <2>6. QED  BY <2>5, FS_CardinalityType DEF AtMost, MaxToolsPerProfile
<1>4. QED  BY <1>2, <1>3 DEF Buildable

-----------------------------------------------------------------------------
(* The registry                                                            *)

\* The triads of the registry, one of a root.
OnePerRoot == \A j, k \in DOMAIN cached : home[cached[j]] = home[cached[k]] => j = k

\* A hit is the place of the triad of the root, a miss means there is none.
LEMMA FoundTriad ==
    ASSUME NEW S, cached \in Seq(S), NEW r
    PROVE  \/ /\ TriadOf(r) \in 1..Len(cached) /\ TriadOf(r) # 0
              /\ home[cached[TriadOf(r)]] = r
           \/ /\ TriadOf(r) = 0
              /\ \A k \in 1..Len(cached) : home[cached[k]] # r
<1> DEFINE I == {k \in 1..Len(cached) : home[cached[k]] = r}
<1>1. TriadOf(r) = IF I # {} THEN Min(I) ELSE 0
    BY DEF TriadOf, SelectInSeq
<1>2. CASE I # {}
  <2>1. Len(cached) \in Nat /\ I \subseteq Nat
      BY LenProperties
  <2>2. Min(I) \in I
      BY <1>2, <2>1, Least
  <2>3. QED  BY <1>1, <1>2, <2>1, <2>2
<1>3. CASE I = {}
    BY <1>1, <1>3
<1>4. QED  BY <1>2, <1>3

-----------------------------------------------------------------------------
(* The inductive invariant.  A call that is past the resolution carries a  *)
(* tool its server advertises and absolute paths; a call that runs has a   *)
(* triad, and all its paths are in the workspace of that triad.  The       *)
(* properties follow: what a call may write is decided by its record.      *)

CallRecords ==
    [pc : {"idle", "asked", "bound", "running"} \cup Over,
     tool : ToolNames \cup {None}, paths : Seq(Paths), valid : BOOLEAN,
     apply : BOOLEAN, triad : Triads \cup {None}]

\* The record k of a call, under profile p and with the triads' roots h.
SoundIn(k, p, h) ==
    /\ k.pc \in {"idle", "asked"} \cup Over => k.triad = None
    /\ k.pc \in {"asked", "bound", "running"} => k.tool \in Advertised[p]
    /\ k.pc \in {"bound", "running"} => \A q \in ToSet(k.paths) : q.absolute
    /\ k.pc = "running" =>
          k.triad # None /\ \A q \in ToSet(k.paths) : q.root = h[k.triad]

CallsSound ==
    /\ call \in [Calls -> CallRecords]
    /\ \A c \in Calls : SoundIn(call[c], profile, home)

WritesOwn == wrote # None /\ ~Spreads(wrote.by.tool) => wrote.root = wrote.own

IInv == TypeOK /\ CallsSound /\ WritesOwn /\ WritesAreAnnounced

LEMMA IInvInit == Init => IInv
<1> SUFFICES ASSUME Init PROVE IInv
    OBVIOUS
<1>1. <<>> \in Seq(Triads) /\ Len(<<>>) = 0 /\ <<>> \in Seq(Paths)
    BY EmptySeq
<1>2. TypeOK
    BY <1>1, CallsAssumption DEF Init, TypeOK, Idle
<1>3. CallsSound
    BY <1>1 DEF Init, CallsSound, CallRecords, SoundIn, Idle, Over
<1>4. WritesOwn /\ WritesAreAnnounced
    BY DEF Init, WritesOwn, WritesAreAnnounced
<1>5. QED  BY <1>2, <1>3, <1>4 DEF IInv

-----------------------------------------------------------------------------
(* The registry *)

\* Room is the registry or all of it but the first, and has room for one more.
LEMMA RoomKept ==
    ASSUME TypeOK
    PROVE  /\ Room \in Seq(Triads) /\ Len(Room) \in Nat /\ Len(Room) < MaxWorkspaces
           /\ \A j, k \in 1..Len(Room) : home[Room[j]] = home[Room[k]] => j = k
           /\ \A j \in 1..Len(Room) : \E k \in 1..Len(cached) : Room[j] = cached[k]
<1> USE CallsAssumption
<1>1. /\ cached \in Seq(Triads) /\ Len(cached) \in Nat /\ Len(cached) <= MaxWorkspaces
      /\ \A j, k \in 1..Len(cached) : home[cached[j]] = home[cached[k]] => j = k
    BY LenProperties DEF TypeOK
<1>2. CASE Len(cached) < MaxWorkspaces
    BY <1>1, <1>2 DEF Room
<1>3. CASE ~(Len(cached) < MaxWorkspaces)
  <2>1. cached # <<>>
      BY <1>1, <1>3, EmptySeq
  <2>2. /\ Room \in Seq(Triads) /\ Len(Room) = Len(cached) - 1
        /\ \A i \in 1..Len(Room) : Room[i] = cached[i + 1]
      BY <1>1, <1>3, <2>1, HeadTailProperties DEF Room
  <2>3. \A i \in 1..Len(Room) : i + 1 \in 1..Len(cached)
      BY <1>1, <2>2
  <2>4. ASSUME NEW j \in 1..Len(Room), NEW k \in 1..Len(Room),
               home[Room[j]] = home[Room[k]]
        PROVE  j = k
    <3>1. j + 1 = k + 1
        BY <1>1, <2>2, <2>3, <2>4
    <3>2. QED  BY <3>1
  <2>5. QED  BY <1>1, <2>2, <2>3, <2>4
<1>4. QED  BY <1>2, <1>3

\* There are triads enough: one is neither registered nor held.
LEMMA FreeTriad ==
    ASSUME TypeOK
    PROVE  \E i \in Triads : i \notin ToSet(Room) \cup {call[d].triad : d \in Calls}
<1> DEFINE kept == ToSet(Room)
           held == {call[d].triad : d \in Calls}
           holds == [d \in Calls |-> call[d].triad]
<1>1. /\ Len(Room) \in Nat /\ Len(Room) < MaxWorkspaces
      /\ DOMAIN Room = 1..Len(Room) /\ Room \in [1..Len(Room) -> Triads]
    BY RoomKept, LenProperties
<1>2. IsFiniteSet(1..Len(Room)) /\ Cardinality(1..Len(Room)) = Len(Room)
    BY <1>1, FS_Interval
<1>3. Room \in Surjection(1..Len(Room), kept)
    BY <1>1 DEF Surjection, ToSet
<1>4. IsFiniteSet(kept) /\ Cardinality(kept) <= Len(Room)
    BY <1>2, <1>3, FS_Surjection
<1>5. holds \in Surjection(Calls, held)
    BY DEF Surjection
<1>6. IsFiniteSet(held) /\ Cardinality(held) <= Cardinality(Calls)
    BY <1>5, CallsAssumption, FS_Surjection
<1>7. /\ Cardinality(Calls) \in Nat /\ Cardinality(kept) \in Nat
      /\ Cardinality(held) \in Nat /\ MaxWorkspaces \in Nat
    BY <1>4, <1>6, CallsAssumption, FS_CardinalityType
<1>8. IsFiniteSet(kept \cap held) /\ Cardinality(kept \cap held) \in Nat
    BY <1>4, FS_Intersection, FS_CardinalityType
<1>9. /\ IsFiniteSet(kept \cup held)
      /\ Cardinality(kept \cup held)
            = Cardinality(kept) + Cardinality(held) - Cardinality(kept \cap held)
    BY <1>4, <1>6, FS_Union
<1>10. Cardinality(Triads) = MaxWorkspaces + Cardinality(Calls)
  <2> DEFINE n == MaxWorkspaces + Cardinality(Calls)
  <2>1. n \in Nat /\ 1 \in Int /\ (1 > n => n = 0) /\ n - 1 + 1 = n
      BY <1>7
  <2>2. Cardinality(1..n) = IF 1 > n THEN 0 ELSE n - 1 + 1
      BY <2>1, FS_Interval
  <2>3. QED  BY <2>1, <2>2 DEF Triads
<1>11. CASE Triads \subseteq kept \cup held
  <2>1. Cardinality(Triads) <= Cardinality(kept \cup held)
      BY <1>9, <1>11, FS_Subset
  <2>2. QED
    <3> HIDE DEF kept, held
    <3>1. QED  BY <1>1, <1>4, <1>6, <1>7, <1>8, <1>9, <1>10, <2>1
<1>12. QED  BY <1>11

\* What resolving a workspace leaves alone: the registry stays one of triads
\* of different roots, within its limit, and no triad that a call holds is
\* given to another root.
Kept ==
    /\ home' \in [Triads -> Roots \cup {None}]
    /\ cached' \in Seq(Triads) /\ Len(cached') <= MaxWorkspaces
    /\ OnePerRoot'
    /\ open' \subseteq open
    /\ \A d \in Calls : call[d].triad # None =>
          home'[call[d].triad] = home[call[d].triad]

Binds(c, i) == call' = [call EXCEPT ![c].pc = "bound", ![c].triad = i]

\* A registry with a triad of a new root at its end is one of triads of
\* different roots if the one before was.
LEMMA AppendedTriad ==
    ASSUME NEW s \in Seq(Triads), NEW i \in Triads, NEW n \in Nat, Len(s) < n,
           NEW h \in [Triads -> Roots \cup {None}],
           \A j, k \in 1..Len(s) : h[s[j]] = h[s[k]] => j = k,
           \A j \in 1..Len(s) : h[s[j]] # h[i]
    PROVE  /\ Append(s, i) \in Seq(Triads) /\ Len(Append(s, i)) <= n
           /\ \A j, k \in DOMAIN Append(s, i) :
                 h[Append(s, i)[j]] = h[Append(s, i)[k]] => j = k
<1> DEFINE t == Append(s, i)
<1>1. /\ t \in Seq(Triads) /\ Len(s) \in Nat /\ Len(t) = Len(s) + 1
      /\ \A j \in 1..Len(s) : t[j] = s[j]
      /\ t[Len(s) + 1] = i
      /\ DOMAIN t = 1..(Len(s) + 1)
    BY AppendProperties, LenProperties
<1> HIDE DEF t
<1>2. Len(t) <= n
    BY <1>1
<1>3. ASSUME NEW j \in 1..(Len(s) + 1), NEW k \in 1..(Len(s) + 1), h[t[j]] = h[t[k]]
      PROVE  j = k
  <2>1. j = Len(s) + 1 \/ j \in 1..Len(s)
      BY <1>1
  <2>2. k = Len(s) + 1 \/ k \in 1..Len(s)
      BY <1>1
  <2>3. QED  BY <1>1, <1>3, <2>1, <2>2
<1>4. QED  BY <1>1, <1>2, <1>3 DEF t

LEMMA ServeHit ==
    ASSUME TypeOK, NEW c \in Calls, NEW r \in Roots, Serve(c, r), TriadOf(r) # 0
    PROVE  Kept /\ \E i \in Triads : Binds(c, i)
<1> USE CallsAssumption
<1> DEFINE k == TriadOf(r)
           rest == RemoveAt(cached, k)
<1>1. /\ cached \in Seq(Triads) /\ Len(cached) \in Nat /\ Len(cached) <= MaxWorkspaces
      /\ \A j, l \in 1..Len(cached) : home[cached[j]] = home[cached[l]] => j = l
      /\ home \in [Triads -> Roots \cup {None}]
    BY LenProperties DEF TypeOK
<1>2. k \in 1..Len(cached)
    BY <1>1, FoundTriad
<1>3. /\ cached' = Append(rest, cached[k])
      /\ Binds(c, cached[k])
      /\ home' = home /\ open' = open
    BY DEF Serve, Binds
<1>4. cached[k] \in Triads
    BY <1>1, <1>2, ElementOfSeq
<1> HIDE DEF k
<1>5. /\ rest \in Seq(Triads) /\ Len(rest) = Len(cached) - 1
      /\ \A i \in 1..(Len(cached) - 1) : rest[i] = cached[IF i < k THEN i ELSE i + 1]
    BY <1>1, <1>2, Removed
<1> HIDE DEF rest
<1>6. \A i \in 1..Len(rest) :
         /\ (IF i < k THEN i ELSE i + 1) \in 1..Len(cached)
         /\ (IF i < k THEN i ELSE i + 1) # k
         /\ rest[i] = cached[IF i < k THEN i ELSE i + 1]
    BY <1>1, <1>2, <1>5
<1>7. \A i, j \in 1..Len(rest) :
         (IF i < k THEN i ELSE i + 1) = (IF j < k THEN j ELSE j + 1) => i = j
    BY <1>1, <1>2, <1>5
<1>8. \A i, j \in 1..Len(rest) : home[rest[i]] = home[rest[j]] => i = j
    BY <1>1, <1>6, <1>7
<1>9. \A i \in 1..Len(rest) : home[rest[i]] # home[cached[k]]
    BY <1>1, <1>2, <1>6
<1>10. Len(rest) < MaxWorkspaces /\ MaxWorkspaces \in Nat
    BY <1>1, <1>5
<1>11. /\ cached' \in Seq(Triads) /\ Len(cached') <= MaxWorkspaces
       /\ OnePerRoot'
  <2> DEFINE i == cached[k]
             t == Append(rest, i)
  <2>1. i \in Triads /\ \A j \in 1..Len(rest) : home[rest[j]] # home[i]
      BY <1>4, <1>9
  <2> HIDE DEF i
  <2>2. /\ t \in Seq(Triads) /\ Len(t) <= MaxWorkspaces
        /\ \A j, l \in DOMAIN t : home[t[j]] = home[t[l]] => j = l
      BY <1>1, <1>5, <1>8, <1>10, <2>1, AppendedTriad
  <2>3. cached' = t
      BY <1>3 DEF i
  <2> HIDE DEF t
  <2>4. QED  BY <1>3, <2>2, <2>3 DEF OnePerRoot
<1>12. QED  BY <1>1, <1>3, <1>4, <1>11 DEF Kept

LEMMA ServeMiss ==
    ASSUME TypeOK, NEW c \in Calls, NEW r \in Roots, Serve(c, r), TriadOf(r) = 0
    PROVE  Kept /\ ((\E i \in Triads : Binds(c, i)) \/ Ends(c, "failed"))
<1> USE CallsAssumption
<1> DEFINE held == ToSet(Room) \cup {call[d].triad : d \in Calls}
           i == CHOOSE t \in Triads \ held : TRUE
<1>1. /\ home \in [Triads -> Roots \cup {None}]
      /\ Room \in Seq(Triads) /\ Len(Room) \in Nat /\ Len(Room) < MaxWorkspaces
      /\ \A j, k \in 1..Len(Room) : home[Room[j]] = home[Room[k]] => j = k
      /\ DOMAIN Room = 1..Len(Room)
      /\ \A j \in 1..Len(Room) : Room[j] \in Triads
    BY RoomKept, LenProperties, ElementOfSeq DEF TypeOK
<1>2. \A j \in 1..Len(Room) : home[Room[j]] # r
  <2>1. cached \in Seq(Triads)
      BY DEF TypeOK
  <2>2. \A k \in 1..Len(cached) : home[cached[k]] # r
      BY <2>1, FoundTriad
  <2>3. QED  BY <2>2, RoomKept
<1>3. i \in Triads /\ i \notin held
    BY FreeTriad
<1>4. \/ /\ home' = [home EXCEPT ![i] = r] /\ cached' = Append(Room, i)
         /\ open' = open \ {i} /\ Binds(c, i)
      \/ cached' = Room /\ Ends(c, "failed") /\ home' = home /\ open' = open
    BY DEF Serve, Binds
<1> HIDE DEF i
<1>5. \A j \in 1..Len(Room) : Room[j] # i
    BY <1>1, <1>3 DEF ToSet
<1>6. \A d \in Calls : call[d].triad # i
    BY <1>3
<1> HIDE DEF held
<1>7. CASE /\ home' = [home EXCEPT ![i] = r] /\ cached' = Append(Room, i)
           /\ open' = open \ {i} /\ Binds(c, i)
  <2>1. home' \in [Triads -> Roots \cup {None}] /\ home'[i] = r
      BY <1>1, <1>3, <1>7
  <2>2. \A t \in Triads : t # i => home'[t] = home[t]
      BY <1>1, <1>7
  <2>3. \A j \in 1..Len(Room) : home'[Room[j]] = home[Room[j]]
      BY <1>1, <1>5, <2>2
  <2>4. \A j, k \in 1..Len(Room) : home'[Room[j]] = home'[Room[k]] => j = k
      BY <1>1, <2>3
  <2>5. \A j \in 1..Len(Room) : home'[Room[j]] # home'[i]
      BY <1>2, <2>1, <2>3
  <2>6. MaxWorkspaces \in Nat
      OBVIOUS
  <2>7. /\ Append(Room, i) \in Seq(Triads) /\ Len(Append(Room, i)) <= MaxWorkspaces
        /\ \A j, k \in DOMAIN Append(Room, i) :
              home'[Append(Room, i)[j]] = home'[Append(Room, i)[k]] => j = k
      BY <1>1, <1>3, <2>1, <2>4, <2>5, <2>6, AppendedTriad
  <2>8. \A d \in Calls : call[d].triad # None =>
            home'[call[d].triad] = home[call[d].triad]
      BY <1>6, <2>2 DEF TypeOK
  <2>9. QED  BY <1>3, <1>7, <2>1, <2>7, <2>8 DEF Kept, OnePerRoot
<1>8. CASE cached' = Room /\ Ends(c, "failed") /\ home' = home /\ open' = open
  <2>1. OnePerRoot'
      BY <1>1, <1>8 DEF OnePerRoot
  <2>2. Len(cached') <= MaxWorkspaces
      BY <1>1, <1>8
  <2>3. QED  BY <1>1, <1>8, <2>1, <2>2 DEF Kept
<1>9. QED  BY <1>4, <1>7, <1>8

-----------------------------------------------------------------------------
(* The actions.  Each changes the record of one call, leaves the homes of  *)
(* the triads that calls hold, and writes nothing unless the call runs.    *)

LEMMA CallMoves ==
    ASSUME CallsSound, NEW c \in Calls, NEW k \in CallRecords,
           call' = [call EXCEPT ![c] = k], SoundIn(k, profile, home'),
           profile' = profile,
           \A d \in Calls : call[d].triad # None =>
              home'[call[d].triad] = home[call[d].triad]
    PROVE  CallsSound'
<1>1. call' \in [Calls -> CallRecords]
    BY DEF CallsSound
<1>2. ASSUME NEW d \in Calls PROVE SoundIn(call'[d], profile', home')
  <2>1. CASE d = c
      BY <2>1 DEF CallsSound
  <2>2. CASE d # c
    <3>1. call'[d] = call[d] /\ SoundIn(call[d], profile, home)
        BY <2>2 DEF CallsSound
    <3>2. QED  BY <3>1 DEF SoundIn
  <2>3. QED  BY <2>1, <2>2
<1>3. QED  BY <1>1, <1>2 DEF CallsSound

LEMMA CallEnds ==
    ASSUME CallsSound, NEW c \in Calls, NEW outcome \in Over, Ends(c, outcome),
           profile' = profile,
           \A d \in Calls : call[d].triad # None =>
              home'[call[d].triad] = home[call[d].triad]
    PROVE  CallsSound'
<1> DEFINE k == [Idle EXCEPT !.pc = outcome]
<1>1. k \in CallRecords /\ SoundIn(k, profile, home')
  <2>1. <<>> \in Seq(Paths)
      BY EmptySeq
  <2>2. QED  BY <2>1 DEF CallRecords, SoundIn, Idle, Over
<1>2. call' = [call EXCEPT ![c] = k]
    BY DEF Ends
<1> HIDE DEF k
<1>3. QED  BY <1>1, <1>2, CallMoves

LEMMA TypeKept ==
    ASSUME TypeOK, CallsSound', profile' = profile, cli' = cli, Kept
    PROVE  TypeOK'
<1>1. \A c \in Calls : call'[c].triad \in Triads \cup {None}
    BY DEF CallsSound, CallRecords
<1>2. QED  BY <1>1 DEF TypeOK, Kept, OnePerRoot

LEMMA NothingServed ==
    ASSUME TypeOK, home' = home, cached' = cached, open' \subseteq open
    PROVE  Kept
BY DEF TypeOK, Kept, OnePerRoot

LEMMA NothingWritten ==
    ASSUME WritesAreAnnounced, wrote' = None, profile' = profile,
           open' \subseteq open
    PROVE  WritesOwn' /\ WritesAreAnnounced'
BY DEF WritesOwn, WritesAreAnnounced

\* What the advertisement of a tool says of its effect.
LEMMA AdvertisedEffect ==
    ASSUME NEW p \in Profiles, NEW t \in Advertised[p]
    PROVE  /\ t \in ToolNames
           /\ Catalogue[t].effect \in Effects
           /\ p = "analysis" => Catalogue[t].effect = "reads"
           /\ Catalogue[t].effect # "reads" => ~ReadOnly(t)
           /\ Catalogue[t].paths \subseteq Nat
<1>1. t \in ToolNames /\ ProfileIncludes(p, t)
    BY DEF Advertised
<1>2. p = "analysis" => ReadOnly(t)
    BY <1>1 DEF ProfileIncludes
<1>3. QED  BY <1>1, <1>2, CatalogueHonest

\* What a call that runs writes is announced, and in its own workspace.
LEMMA WriteSound ==
    ASSUME IInv, NEW c \in Calls, call[c].pc = "running", EffectOf(c) # "reads",
           EffectOf(c) \in {"edits", "pushes", "spreads"} => call[c].apply,
           MayWrite(c), profile' = profile, open' \subseteq open
    PROVE  WritesOwn' /\ WritesAreAnnounced'
<1>1. CASE wrote' = None
    BY <1>1, NothingWritten DEF IInv
<1>2. CASE Writes(c)
  <2> DEFINE k == call[c]
             s == Spreads(k.tool)
  <2>1. PICK r \in {HomeOf(c)} \cup {q.root : q \in PathsOf(c)}
                  \cup (IF s THEN Roots ELSE {}) :
                wrote' = [by |-> k, root |-> r, own |-> HomeOf(c)]
      BY <1>2 DEF Writes
  <2>2. /\ profile \in Profiles /\ k.tool \in Advertised[profile]
        /\ \A q \in PathsOf(c) : q.root = HomeOf(c)
      BY DEF IInv, TypeOK, CallsSound, SoundIn, PathsOf, HomeOf
  <2>3. ~s => r = HomeOf(c)
      BY <2>2
  <2>4. wrote'.by = k /\ wrote'.root = r /\ wrote'.own = HomeOf(c)
      BY <2>1
  <2>5. WritesOwn'
      BY <2>3, <2>4 DEF WritesOwn
  <2>6. ~ReadOnly(k.tool) /\ profile # "analysis"
      BY <2>2, AdvertisedEffect DEF EffectOf
  <2>7. WritesAreAnnounced'
      BY <2>4, <2>6 DEF WritesAreAnnounced, EffectOf
  <2>8. QED  BY <2>5, <2>7
<1>3. QED  BY <1>1, <1>2 DEF MayWrite

LEMMA BeginStep ==
    ASSUME IInv, NEW c \in Calls, NEW t \in Asked, Begin(c, t)
    PROVE  IInv'
<1> USE DEF IInv
<1>1. PICK n \in Catalogue[t].paths, valid \in BOOLEAN, apply \in BOOLEAN :
      \E paths \in [1..n -> Paths] :
         call' = [call EXCEPT ![c] =
             [Idle EXCEPT !.pc = "asked", !.tool = t, !.paths = paths,
                          !.valid = valid, !.apply = apply]]
    BY DEF Begin
<1>2. PICK paths \in [1..n -> Paths] :
         call' = [call EXCEPT ![c] =
             [Idle EXCEPT !.pc = "asked", !.tool = t, !.paths = paths,
                          !.valid = valid, !.apply = apply]]
    BY <1>1
<1>3. /\ t \in Advertised[profile] /\ wrote' = None
      /\ profile' = profile /\ cli' = cli
      /\ home' = home /\ cached' = cached /\ open' = open
    BY DEF Begin
<1>4. t \in ToolNames /\ n \in Nat
    BY <1>1, <1>3, AdvertisedEffect DEF TypeOK
<1>5. paths \in Seq(Paths)
    BY <1>2, <1>4, SeqDef
<1> DEFINE k == [Idle EXCEPT !.pc = "asked", !.tool = t, !.paths = paths,
                             !.valid = valid, !.apply = apply]
<1>6. k \in CallRecords /\ SoundIn(k, profile, home')
    BY <1>1, <1>3, <1>4, <1>5 DEF CallRecords, SoundIn, Idle, Over
<1> HIDE DEF k
<1>7. call' = [call EXCEPT ![c] = k]
    BY <1>2 DEF k
<1>8. CallsSound'
    BY <1>3, <1>6, <1>7, CallMoves
<1>9. TypeOK'
    BY <1>3, <1>8, TypeKept, NothingServed
<1>10. QED  BY <1>3, <1>8, <1>9, NothingWritten

LEMMA ResolveStep ==
    ASSUME IInv, NEW c \in Calls, Resolve(c)
    PROVE  IInv'
<1> USE CallsAssumption DEF IInv
<1>1. /\ wrote' = None /\ profile' = profile /\ cli' = cli
      /\ call[c].pc = "asked" /\ Absolute(c)
    BY DEF Resolve, Accepted
<1>2. /\ call[c] \in CallRecords /\ call[c].triad = None
      /\ call[c].tool \in Advertised[profile]
      /\ \A q \in ToSet(call[c].paths) : q.absolute
      /\ call \in [Calls -> CallRecords]
    BY <1>1 DEF CallsSound, SoundIn, Absolute, PathsOf
<1>3. ASSUME NEW i \in Triads, Binds(c, i), Kept
      PROVE  CallsSound'
  <2> DEFINE k == [call[c] EXCEPT !.pc = "bound", !.triad = i]
  <2>1. k \in CallRecords /\ SoundIn(k, profile, home')
      BY <1>2 DEF CallRecords, SoundIn, Over
  <2>2. call' = [call EXCEPT ![c] = k]
      BY <1>2, <1>3 DEF Binds
  <2> HIDE DEF k
  <2>3. QED  BY <1>1, <1>3, <2>1, <2>2, CallMoves DEF Kept
<1>4. ASSUME NEW r \in Roots, Serve(c, r)
      PROVE  Kept /\ ((\E i \in Triads : Binds(c, i)) \/ Ends(c, "failed"))
    BY <1>4, ServeHit, ServeMiss
<1>5. \/ Kept /\ (\E i \in Triads : Binds(c, i))
      \/ Kept /\ Ends(c, "failed")
      \/ Kept /\ Goes(c, "bound")
  <2>1. CASE call[c].paths # <<>>
    <3>1. call[c].paths \in Seq(Paths)
        BY <1>2 DEF CallRecords
    <3>2. Head(call[c].paths) \in Paths
        BY <2>1, <3>1, HeadTailProperties
    <3>3. Anchor(c) \in Roots \cup {None}
        BY <3>2 DEF Anchor, Paths
    <3>4. CASE Anchor(c) = None
        BY <2>1, <3>4, NothingServed DEF Resolve
    <3>5. CASE Anchor(c) # None
        BY <1>4, <2>1, <3>3, <3>5 DEF Resolve
    <3>6. QED  BY <3>4, <3>5
  <2>2. CASE call[c].paths = <<>>
    <3>1. CASE cached # <<>>
      <4>1. /\ home' = home /\ cached' = cached /\ open' = open
            /\ Binds(c, Last(cached))
          BY <2>2, <3>1 DEF Resolve, Binds
      <4>2. cached \in Seq(Triads) /\ Len(cached) \in 1..Len(cached)
          BY <3>1, EmptySeq DEF TypeOK
      <4>3. Last(cached) \in Triads
          BY <4>2, ElementOfSeq DEF Last
      <4>4. QED  BY <4>1, <4>3, NothingServed
    <3>2. CASE cached = <<>> /\ cli # None
      <4>1. cli \in Roots /\ Serve(c, cli)
          BY <2>2, <3>2 DEF Resolve, TypeOK
      <4>2. QED  BY <1>4, <4>1
    <3>3. CASE cached = <<>> /\ cli = None
        BY <2>2, <3>3, NothingServed DEF Resolve
    <3>4. QED  BY <3>1, <3>2, <3>3
  <2>3. QED  BY <2>1, <2>2
<1>6. CallsSound'
  <2>1. CASE Kept /\ (\E i \in Triads : Binds(c, i))
      BY <1>3, <2>1
  <2>2. CASE Kept /\ Ends(c, "failed")
      BY <1>1, <2>2, CallEnds DEF Kept, Over
  <2>3. CASE Kept /\ Goes(c, "bound")
    <3> DEFINE k == [call[c] EXCEPT !.pc = "bound"]
    <3>1. k \in CallRecords /\ SoundIn(k, profile, home')
        BY <1>2 DEF CallRecords, SoundIn, Over
    <3>2. call' = [call EXCEPT ![c] = k]
        BY <1>2, <2>3 DEF Goes
    <3> HIDE DEF k
    <3>3. QED  BY <1>1, <2>3, <3>1, <3>2, CallMoves DEF Kept
  <2>4. QED  BY <1>5, <2>1, <2>2, <2>3
<1>7. Kept
    BY <1>5
<1>8. TypeOK'
    BY <1>1, <1>6, <1>7, TypeKept
<1>9. QED  BY <1>1, <1>6, <1>7, <1>8, NothingWritten DEF Kept

LEMMA EnterStep ==
    ASSUME IInv, NEW c \in Calls, Enter(c)
    PROVE  IInv'
<1> USE DEF IInv
<1>1. /\ wrote' = None /\ profile' = profile /\ cli' = cli
      /\ home' = home /\ cached' = cached /\ open' = open
      /\ call[c].pc = "bound"
    BY DEF Enter
<1>2. CallsSound'
  <2>1. CASE \E outcome \in Over : Ends(c, outcome)
      BY <1>1, <2>1, CallEnds
  <2>2. CASE Goes(c, "running") /\ Valid(c) /\ call[c].triad # None
    <3> DEFINE k == [call[c] EXCEPT !.pc = "running"]
    <3>1. /\ call \in [Calls -> CallRecords] /\ call[c] \in CallRecords
          /\ SoundIn(call[c], profile, home)
        BY DEF CallsSound
    <3>2. \A q \in ToSet(call[c].paths) : q.root = home[call[c].triad]
        BY <2>2 DEF Valid, PathsOf, HomeOf
    <3>3. k \in CallRecords /\ SoundIn(k, profile, home')
        BY <1>1, <2>2, <3>1, <3>2 DEF CallRecords, SoundIn, Over
    <3>4. call' = [call EXCEPT ![c] = k]
        BY <2>2, <3>1 DEF Goes
    <3> HIDE DEF k
    <3>5. QED  BY <1>1, <3>3, <3>4, CallMoves
  <2>3. QED  BY <2>1, <2>2 DEF Enter, Over
<1>3. TypeOK'
    BY <1>1, <1>2, TypeKept, NothingServed
<1>4. QED  BY <1>1, <1>2, <1>3, NothingWritten

\* A step that ends a call and serves nothing.
LEMMA EndedStep ==
    ASSUME IInv, NEW c \in Calls, NEW outcome \in Over, Ends(c, outcome),
           profile' = profile, cli' = cli, home' = home, cached' = cached,
           open' \subseteq open
    PROVE  TypeOK' /\ CallsSound'
<1>1. CallsSound'
    BY CallEnds DEF IInv
<1>2. QED  BY <1>1, TypeKept, NothingServed DEF IInv

LEMMA WorkStep ==
    ASSUME IInv, NEW c \in Calls, Work(c)
    PROVE  IInv'
<1>1. /\ profile' = profile /\ cli' = cli /\ home' = home /\ cached' = cached
      /\ open' = open /\ call[c].pc = "running" /\ Ends(c, "done")
    BY DEF Work
<1>2. TypeOK' /\ CallsSound'
    BY <1>1, EndedStep DEF Over
<1>3. \/ wrote' = None
      \/ /\ EffectOf(c) # "reads" /\ MayWrite(c)
         /\ EffectOf(c) \in {"edits", "pushes", "spreads"} => call[c].apply
    BY DEF Work, MayWrite
<1>4. WritesOwn' /\ WritesAreAnnounced'
    BY <1>1, <1>3, NothingWritten, WriteSound DEF IInv
<1>5. QED  BY <1>2, <1>4 DEF IInv

LEMMA StartStep ==
    ASSUME IInv, NEW c \in Calls, Start(c)
    PROVE  IInv'
<1> USE DEF IInv
<1>1. /\ profile' = profile /\ cli' = cli /\ home' = home /\ cached' = cached
      /\ wrote' = None /\ call[c].pc = "running" /\ EffectOf(c) = "begin"
      /\ \E outcome \in Over : Ends(c, outcome)
    BY DEF Start, Over
<1>2. CallsSound'
    BY <1>1, CallEnds
<1>3. open' = open \/ open' = open \cup {call[c].triad}
    BY DEF Start
<1>4. /\ call[c].triad \in Triads /\ profile \in Profiles
      /\ call[c].tool \in Advertised[profile]
    BY <1>1 DEF CallsSound, SoundIn, CallRecords, TypeOK
<1>5. TypeOK'
  <2>1. open' \subseteq Triads
      BY <1>3, <1>4 DEF TypeOK
  <2>2. \A d \in Calls : call'[d].triad \in Triads \cup {None}
      BY <1>2 DEF CallsSound, CallRecords
  <2>3. QED  BY <1>1, <2>1, <2>2 DEF TypeOK
<1>6. profile # "analysis"
    BY <1>1, <1>4, AdvertisedEffect DEF EffectOf
<1>7. WritesOwn' /\ WritesAreAnnounced'
    BY <1>1, <1>6 DEF WritesOwn, WritesAreAnnounced
<1>8. QED  BY <1>2, <1>5, <1>7

LEMMA FinishStep ==
    ASSUME IInv, NEW c \in Calls, Finish(c)
    PROVE  IInv'
<1>1. /\ profile' = profile /\ cli' = cli /\ home' = home /\ cached' = cached
      /\ open' \subseteq open /\ call[c].pc = "running" /\ MayWrite(c)
      /\ EffectOf(c) \in {"commit", "rollback"}
    BY DEF Finish, MayWrite
<1>2. PICK outcome \in Over : Ends(c, outcome)
    BY DEF Finish, Over
<1>3. TypeOK' /\ CallsSound'
    BY <1>1, <1>2, EndedStep
<1>4. WritesOwn' /\ WritesAreAnnounced'
    BY <1>1, WriteSound
<1>5. QED  BY <1>3, <1>4 DEF IInv

LEMMA EndStep ==
    ASSUME IInv, NEW c \in Calls, End(c)
    PROVE  IInv'
<1> USE DEF IInv
<1> DEFINE k == [call[c] EXCEPT !.pc = "idle"]
<1>1. /\ profile' = profile /\ cli' = cli /\ home' = home /\ cached' = cached
      /\ open' = open /\ wrote' = None /\ call[c].pc \in Over /\ Goes(c, "idle")
    BY DEF End
<1>2. /\ call \in [Calls -> CallRecords] /\ call[c] \in CallRecords
      /\ SoundIn(call[c], profile, home)
    BY DEF CallsSound
<1>3. k \in CallRecords /\ SoundIn(k, profile, home')
    BY <1>1, <1>2 DEF CallRecords, SoundIn, Over
<1>4. call' = [call EXCEPT ![c] = k]
    BY <1>1, <1>2 DEF Goes
<1> HIDE DEF k
<1>5. CallsSound'
    BY <1>1, <1>3, <1>4, CallMoves
<1>6. TypeOK'
    BY <1>1, <1>5, TypeKept, NothingServed
<1>7. QED  BY <1>1, <1>5, <1>6, NothingWritten

LEMMA IInvStep == IInv /\ [Next]_vars => IInv'
<1> SUFFICES ASSUME IInv, [Next]_vars PROVE IInv'
    OBVIOUS
<1>1. ASSUME NEW c \in Calls, RejectRelative(c) \/ Fails(c)
      PROVE  IInv'
  <2>1. /\ profile' = profile /\ cli' = cli /\ home' = home /\ cached' = cached
        /\ open' = open /\ wrote' = None
        /\ \E outcome \in Over : Ends(c, outcome)
      BY <1>1 DEF RejectRelative, Fails, Over
  <2>2. TypeOK' /\ CallsSound'
      BY <2>1, EndedStep
  <2>3. QED  BY <2>1, <2>2, NothingWritten DEF IInv
<1>2. CASE UNCHANGED vars
  <2>1. TypeOK'
      BY <1>2 DEF IInv, TypeOK, vars
  <2>2. CallsSound'
      BY <1>2 DEF IInv, CallsSound, vars
  <2>3. WritesOwn' /\ WritesAreAnnounced'
      BY <1>2 DEF IInv, WritesOwn, WritesAreAnnounced, vars
  <2>4. QED  BY <2>1, <2>2, <2>3 DEF IInv
<1>3. QED
    BY <1>1, <1>2, BeginStep, ResolveStep, EnterStep, WorkStep, StartStep,
       FinishStep, EndStep DEF Next

LEMMA Invariance == Spec => []IInv
<1>1. QED  BY IInvInit, IInvStep, PTL DEF Spec

-----------------------------------------------------------------------------
(* The properties *)

\* Every variable holds a value of its type; the registry has one triad of a
\* root and keeps to its limit.
THEOREM TypeCorrect == Spec => []TypeOK
<1>1. IInv => TypeOK
    BY DEF IInv
<1>2. QED  BY <1>1, Invariance, PTL

\* A call works in the workspace its first path chose and nowhere else,
\* whatever the other calls resolve or evict meanwhile.
THEOREM OwnWorkspaceAlways == Spec => []OwnWorkspace
<1>1. IInv => OwnWorkspace
  <2> SUFFICES ASSUME IInv PROVE OwnWorkspace
      OBVIOUS
  <2>1. ASSUME NEW c \in Calls, call[c].triad # None PROVE Absolute(c)
    <3>1. call[c].pc \in {"bound", "running"}
        BY <2>1 DEF IInv, CallsSound, CallRecords, SoundIn
    <3>2. QED  BY <3>1 DEF IInv, CallsSound, SoundIn, Absolute, PathsOf
  <2>2. QED  BY <2>1 DEF IInv, WritesOwn, OwnWorkspace
<1>2. QED  BY <1>1, Invariance, PTL

\* A tool that is advertised as read-only writes nothing, a preview writes
\* nothing, and a server of the analysis profile never writes nor opens a
\* change stack.
THEOREM WritesAreAnnouncedAlways == Spec => []WritesAreAnnounced
<1>1. IInv => WritesAreAnnounced
    BY DEF IInv
<1>2. QED  BY <1>1, Invariance, PTL

\* Each profile can be built, and stays below the budget; what it leaves out is
\* in the other; and only the analysis profile leaves out tools that do
\* something.
THEOREM ProfilesCompleteAlways == Spec => []ProfilesComplete
<1>1. IInv => ProfilesComplete
  <2> SUFFICES ASSUME IInv PROVE ProfilesComplete
      OBVIOUS
  <2>1. profile \in Profiles
      BY DEF IInv, TypeOK
  <2>2. Buildable(profile)
      BY <2>1, ProfilesBuildable
  <2>3. ASSUME NEW t \in ToolNames, t \notin Advertised[profile]
        PROVE  \E p \in Profiles \ {profile} : t \in Advertised[p]
    <3>1. CASE profile = "analysis"
      <4>1. "refactoring" \in Profiles \ {profile} /\ t \in Advertised["refactoring"]
          BY <2>3, <3>1 DEF Profiles, Advertised, ProfileIncludes
      <4>2. QED  BY <4>1
    <3>2. CASE profile = "refactoring"
      <4>1. "analysis" \in Profiles \ {profile} /\ t \in Advertised["analysis"]
          BY <2>3, <3>2 DEF Profiles, Advertised, ProfileIncludes
      <4>2. QED  BY <4>1
    <3>3. QED  BY <2>1, <3>1, <3>2 DEF Profiles
  <2>4. ASSUME NEW t \in ToolNames, Catalogue[t].effect # "reads", profile # "analysis"
        PROVE  t \in Advertised[profile]
    <3>1. profile = "refactoring" /\ ~ReadOnly(t)
        BY <2>1, <2>4, CatalogueHonest DEF Profiles
    <3>2. QED  BY <3>1 DEF Profiles, Advertised, ProfileIncludes
  <2>5. QED  BY <2>2, <2>3, <2>4 DEF ProfilesComplete
<1>2. QED  BY <1>1, Invariance, PTL

-----------------------------------------------------------------------------
(* Finding and paging *)

\* What is found, sorted and each once.
LEMMA SortedFound ==
    ASSUME NEW found \in Seq(Nat)
    PROVE  /\ Sorted(found) \in Seq(Nat)
           /\ ToSet(Sorted(found)) = ToSet(found)
           /\ Len(Sorted(found)) = Cardinality(ToSet(found))
           /\ Len(Sorted(found)) \in Nat
<1>1. ToSet(found) \in SUBSET Nat /\ IsFiniteSet(ToSet(found))
    BY ListCounts
<1>2. QED  BY <1>1, AscendingList DEF Sorted

\* The first page of a list.
LEMMA PageOf ==
    ASSUME NEW S, NEW list \in Seq(S), NEW limit \in Nat
    PROVE  LET page == Page(list, limit) IN
           /\ page \in Seq(S)
           /\ Len(page) = (IF limit = 0 \/ Len(list) <= limit THEN Len(list) ELSE limit)
           /\ Len(page) \in Nat
           /\ Len(list) \in Nat
           /\ \A k \in 1..Len(page) : page[k] = list[k]
           /\ IsPrefix(page, list)
           /\ ToSet(page) \subseteq ToSet(list)
           /\ page = list <=> Len(page) = Len(list)
<1> DEFINE page == Page(list, limit)
           n == Len(list)
<1>1. n \in Nat /\ \A k \in 1..n : list[k] \in S
    BY LenProperties, ElementOfSeq
<1>2. /\ page \in Seq(S)
      /\ Len(page) = (IF limit = 0 \/ n <= limit THEN n ELSE limit)
      /\ \A k \in 1..Len(page) : page[k] = list[k]
  <2>1. CASE limit = 0 \/ n <= limit
      BY <2>1, <1>1 DEF Page
  <2>2. CASE ~(limit = 0 \/ n <= limit)
    <3>1. limit < n /\ limit # 0 /\ page = SubSeq(list, 1, limit)
        BY <1>1, <2>2 DEF Page
    <3> HIDE DEF page
    <3>2. \A k \in 1..limit : list[k] \in S
        BY <1>1, <3>1
    <3>3. page \in Seq(S) /\ Len(page) = limit /\ \A k \in 1..limit : page[k] = list[k]
        BY <3>1, <3>2, SubSeqProperties
    <3>4. QED  BY <2>2, <3>3
  <2>3. QED  BY <2>1, <2>2
<1> HIDE DEF page
<1>3. Len(page) <= n /\ Len(page) \in Nat
    BY <1>1, <1>2
<1>4. /\ IsPrefix(page, list)
      /\ ToSet(page) \subseteq ToSet(list)
      /\ page = list <=> Len(page) = n
    BY <1>2, <1>3, Prefixed DEF n
<1>5. QED  BY <1>1, <1>2, <1>3, <1>4 DEF page, n

\* Two pages that follow each other.
LEMMA PagesFollow ==
    ASSUME NEW S, NEW list \in Seq(S), NEW offset \in Nat, NEW limit \in Nat
    PROVE  LET rest == SubSeq(list, offset + 1, Len(list))
               page == Page(rest, limit)
               next == Page(SubSeq(list, offset + limit + 1, Len(list)), limit)
           IN /\ IsPrefix(page, rest)
              /\ Len(page) < Len(rest) <=> page # rest
              /\ limit > 0 => Len(page) < Len(rest) <=> next # <<>>
              /\ limit > 0 => IsPrefix(page \o next, rest)
              /\ Page(SubSeq(list, 1, Len(list)), 0) = list
<1> DEFINE n == Len(list)
           rest == SubSeq(list, offset + 1, n)
           page == Page(rest, limit)
           after == SubSeq(list, (offset + limit) + 1, n)
           next == Page(after, limit)
<1>1. n \in Nat /\ DOMAIN list = 1..n
    BY LenProperties
<1>2. /\ rest \in Seq(S)
      /\ Len(rest) = IF offset < n THEN n - offset ELSE 0
      /\ \A k \in 1..Len(rest) : rest[k] = list[offset + k]
    BY RestOf
<1>3. /\ after \in Seq(S)
      /\ Len(after) = IF offset + limit < n THEN n - (offset + limit) ELSE 0
      /\ \A k \in 1..Len(after) : after[k] = list[(offset + limit) + k]
  <2>1. offset + limit \in Nat
      OBVIOUS
  <2>2. QED  BY <2>1, RestOf
<1> HIDE DEF rest, after, n
<1>4. /\ page \in Seq(S) /\ Len(page) \in Nat /\ Len(rest) \in Nat
      /\ Len(page) = (IF limit = 0 \/ Len(rest) <= limit THEN Len(rest) ELSE limit)
      /\ \A k \in 1..Len(page) : page[k] = rest[k]
      /\ IsPrefix(page, rest)
      /\ page = rest <=> Len(page) = Len(rest)
    BY <1>2, PageOf
<1>5. /\ next \in Seq(S) /\ Len(next) \in Nat /\ Len(after) \in Nat
      /\ Len(next) = (IF limit = 0 \/ Len(after) <= limit THEN Len(after) ELSE limit)
      /\ \A k \in 1..Len(next) : next[k] = after[k]
    BY <1>3, PageOf
<1> HIDE DEF page, next
<1>6. Len(page) < Len(rest) <=> page # rest
    BY <1>4
<1>7. ASSUME limit > 0 PROVE Len(page) < Len(rest) <=> next # <<>>
  <2>1. next # <<>> <=> Len(next) # 0
      BY <1>5, EmptySeq
  <2>2. QED  BY <1>1, <1>2, <1>3, <1>4, <1>5, <1>7, <2>1
<1>8. ASSUME limit > 0 PROVE IsPrefix(page \o next, rest)
  <2> DEFINE both == page \o next
  <2>1. /\ both \in Seq(S)
        /\ Len(both) = Len(page) + Len(next)
        /\ \A k \in 1..(Len(page) + Len(next)) :
              both[k] = IF k <= Len(page) THEN page[k] ELSE next[k - Len(page)]
    <3>1. page \in Seq(S) /\ next \in Seq(S)
        BY <1>4, <1>5
    <3>2. QED  BY <3>1, ConcatProperties
  <2> HIDE DEF both
  <2>2. Len(both) \in Nat /\ Len(both) <= Len(rest)
      BY <1>1, <1>2, <1>3, <1>4, <1>5, <1>8, <2>1
  <2>3. ASSUME NEW k \in 1..Len(both) PROVE both[k] = rest[k]
    <3>0. k \in Nat /\ k \in 1..Len(rest)
        BY <1>4, <2>2
    <3>1. CASE k <= Len(page)
      <4>1. k \in 1..Len(page)
          BY <1>4, <3>0, <3>1
      <4>2. QED  BY <1>4, <2>1, <2>3, <3>1, <4>1
    <3>2. CASE k > Len(page)
      <4> DEFINE j == k - Len(page)
      <4>0. k \in 1..(Len(page) + Len(next)) /\ ~(k <= Len(page))
          BY <1>4, <2>1, <3>0, <3>2
      <4>1. j \in 1..Len(next) /\ both[k] = next[j]
        <5>1. both[k] = next[j]
            BY <2>1, <4>0
        <5>2. j \in 1..Len(next)
          <6>1. k \in Nat /\ Len(page) \in Nat /\ Len(next) \in Nat
              BY <1>4, <1>5, <3>0
          <6>2. QED  BY <4>0, <6>1
        <5>3. QED  BY <5>1, <5>2
      <4>2. j \in 1..Len(after)
          BY <1>5, <4>1
      <4>3. Len(page) = limit
          BY <1>1, <1>2, <1>3, <1>4, <1>5, <1>8, <4>1
      <4>4. both[k] = list[(offset + limit) + j]
          BY <1>3, <1>5, <4>1, <4>2
      <4>5. (offset + limit) + j = offset + k
          BY <3>0, <4>3
      <4>6. QED  BY <1>2, <3>0, <4>4, <4>5
    <3>3. QED  BY <1>4, <3>0, <3>1, <3>2
  <2>4. IsPrefix(both, rest)
      BY <1>2, <2>1, <2>2, <2>3, Prefixed
  <2>5. QED  BY <2>4 DEF both
<1>9. Page(SubSeq(list, 1, n), 0) = list
  <2>1. SubSeq(list, 1, n) = list
      BY SubSeqFull DEF n
  <2>2. QED  BY <2>1 DEF Page
<1>10. next = Page(SubSeq(list, offset + limit + 1, n), limit)
    BY DEF next, after
<1>11. QED  BY <1>4, <1>6, <1>7, <1>8, <1>9 DEF page, rest, next, after, n

-----------------------------------------------------------------------------
(* The Jedi backend *)

\* The keys of the names a method keeps.
KeysOf(method, names) == {n.key : n \in {x \in ToSet(names) : Keeps(method, x)}}

LEMMA KeysKept ==
    ASSUME NEW method, NEW names \in Seq(FoundNames)
    PROVE  Keys(method, names) \in Seq(Nat) /\ ToSet(Keys(method, names)) = KeysOf(method, names)
<1> DEFINE places == {k \in DOMAIN names : Keeps(method, names[k])}
           kept == Only(names, places)
           n == Cardinality(places)
<1>1. DOMAIN names = 1..Len(names)
    BY LenProperties
<1>2. places \in SUBSET (1..Len(names))
    BY <1>1
<1>3. ToSet(names) = {names[k] : k \in DOMAIN names}
    BY DEF ToSet
<1>4. {names[k] : k \in places} = {x \in ToSet(names) : Keeps(method, x)}
    BY <1>3
<1>5. Keys(method, names) = [k \in DOMAIN kept |-> kept[k].key]
    BY DEF Keys
<1> HIDE DEF places, kept
<1>6. /\ kept \in Seq(FoundNames) /\ n \in Nat /\ DOMAIN kept = 1..n /\ Len(kept) = n
      /\ ToSet(kept) = {names[k] : k \in places}
    BY <1>2, OnlyItems DEF kept
<1> HIDE DEF n
<1>7. \A k \in 1..n : kept[k] \in FoundNames
    BY <1>6, ElementOfSeq
<1> DEFINE keys == Keys(method, names)
<1>8. keys \in [1..n -> Nat] /\ \A k \in 1..n : keys[k] = kept[k].key
    BY <1>5, <1>6, <1>7 DEF FoundNames
<1> HIDE DEF keys
<1>9. keys \in Seq(Nat) /\ DOMAIN keys = 1..n
    BY <1>6, <1>8, FunctionIsSeq
<1>10. ToSet(keys) = {x.key : x \in ToSet(kept)}
  <2>1. ToSet(keys) = {keys[k] : k \in 1..n}
      BY <1>9 DEF ToSet
  <2>2. ToSet(kept) = {kept[k] : k \in 1..n}
      BY <1>6 DEF ToSet
  <2>3. QED  BY <1>8, <2>1, <2>2
<1>11. QED  BY <1>4, <1>6, <1>9, <1>10 DEF KeysOf, keys

\* What a method takes is a list of names.
LEMMA TakenNames ==
    ASSUME NEW method, NEW lib \in Libraries
    PROVE  Taken(method, lib) \in Seq(FoundNames)
<1>1. /\ lib.names \in Seq(FoundNames) /\ lib.inner \in Seq(FoundNames)
      /\ lib.wider \in Seq(FoundNames) /\ lib.around \in Seq(FoundNames)
    BY DEF Libraries
<1>2. <<>> \in Seq(FoundNames)
    BY EmptySeq
<1>3. \A s \in Seq(FoundNames) : s # <<>> => <<Head(s)>> \in Seq(FoundNames)
  <2>1. SUFFICES ASSUME NEW s \in Seq(FoundNames), s # <<>>
                 PROVE  <<Head(s)>> \in Seq(FoundNames)
      OBVIOUS
  <2>2. Head(s) \in FoundNames
      BY <2>1, HeadTailProperties
  <2>3. QED  BY <2>2
<1>4. QED  BY <1>1, <1>2, <1>3 DEF Taken

\* What the Jedi backend answers.
LEMMA JediAnswers ==
    ASSUME NEW method, NEW lib \in Libraries
    PROVE  LET r == Jedi(method, lib) IN
           /\ r \in Results(Nat)
           /\ r.ok <=> lib.ok
           /\ r.ok => ToSet(r.found) = KeysOf(method, Taken(method, lib))
           /\ ~r.ok => r.found = <<>>
           /\ "repeated" \in method.drops => Cardinality(ToSet(r.found)) = Len(r.found)
<1> DEFINE keys == Keys(method, Taken(method, lib))
           r == Jedi(method, lib)
<1>1. keys \in Seq(Nat) /\ ToSet(keys) = KeysOf(method, Taken(method, lib))
    BY TakenNames, KeysKept
<1>2. lib.ok \in BOOLEAN
    BY DEF Libraries
<1>3. r = IF ~lib.ok THEN Failure
          ELSE Answer(IF "repeated" \in method.drops THEN Once(keys) ELSE keys)
    BY DEF Jedi
<1> HIDE DEF keys, r
<1>4. CASE ~lib.ok
  <2>1. r = Failure
      BY <1>3, <1>4
  <2>2. <<>> \in Seq(Nat) /\ Len(<<>>) = 0 /\ ToSet(<<>>) = {}
      BY EmptySeq DEF ToSet
  <2>3. Cardinality({}) = 0
      BY FS_EmptySet
  <2>4. r.ok = FALSE /\ r.found = <<>> /\ r \in Results(Nat)
      BY <2>1, <2>2 DEF Failure, Results
  <2>5. Cardinality(ToSet(r.found)) = Len(r.found)
      BY <2>2, <2>3, <2>4
  <2>6. QED  BY <1>4, <2>4, <2>5 DEF r
<1>5. CASE lib.ok
  <2> DEFINE found == IF "repeated" \in method.drops THEN Once(keys) ELSE keys
  <2>1. r = [ok |-> TRUE, found |-> found]
      BY <1>3, <1>5 DEF Answer
  <2>2. /\ Once(keys) \in Seq(Nat) /\ ToSet(Once(keys)) = ToSet(keys)
        /\ Cardinality(ToSet(Once(keys))) = Len(Once(keys))
      BY <1>1, OnceCounts
  <2>3. found \in Seq(Nat) /\ ToSet(found) = ToSet(keys)
      BY <1>1, <2>2
  <2>4. "repeated" \in method.drops => Cardinality(ToSet(found)) = Len(found)
      BY <2>2
  <2> HIDE DEF found
  <2>5. r.ok = TRUE /\ r.found = found /\ r \in Results(Nat)
      BY <2>1, <2>3 DEF Results
  <2>6. QED  BY <1>1, <1>5, <2>3, <2>4, <2>5 DEF r
<1>6. QED  BY <1>2, <1>4, <1>5

\* A failing library fails the method, and no name it can report is left out.
LEMMA JediIsHonest ==
    ASSUME NEW q \in Lookups
    PROVE  JediHonest(q, Jedi(q.method, q.lib))
<1> DEFINE r == Jedi(q.method, q.lib)
           taken == Taken(q.method, q.lib)
<1>1. q.lib \in Libraries
    BY LookupsAssumption
<1>2. /\ r.ok <=> q.lib.ok
      /\ r.ok => ToSet(r.found) = KeysOf(q.method, taken)
      /\ "repeated" \in q.method.drops => Cardinality(ToSet(r.found)) = Len(r.found)
    BY <1>1, JediAnswers
<1>3. q.method = ProjectSearch /\ q.lib.names # <<>> => taken = q.lib.names
  <2>1. q.method = ProjectSearch => q.method.takes = "exact first"
    <3>1. ProjectSearch.takes = "exact first"
        BY DEF ProjectSearch, Lookup
    <3>2. QED  BY <3>1
  <2>2. QED  BY <2>1 DEF Taken
<1> HIDE DEF r, taken
<1>4. {n.key : n \in {x \in ToSet(taken) : x.named /\ x.located /\ x.exact}} \subseteq KeysOf(q.method, taken)
    BY DEF KeysOf, Keeps
<1>5. KeysOf(q.method, taken) \subseteq {n.key : n \in ToSet(taken)}
    BY DEF KeysOf
<1>6. QED  BY <1>2, <1>3, <1>4, <1>5 DEF JediHonest, r, taken

-----------------------------------------------------------------------------
(* The references of a position *)

\* A question about the uses of a symbol.
UseQuestions == [at : Results(Nat), snaps : BOOLEAN, snapped : Results(Nat), lib : Libraries,
                 limit : Nat, kinds : SUBSET STRING, marks : Seq(SUBSET STRING),
                 unknown : SUBSET Nat]

LEMMA UsesTyped ==
    ASSUME NEW q \in UseQuestions
    PROVE  /\ q.at \in Results(Nat) /\ q.snapped \in Results(Nat) /\ q.snaps \in BOOLEAN
           /\ q.lib \in Libraries /\ q.limit \in Nat
           /\ PyrightReferences(q) \in Results(Nat)
<1>1. /\ q.at \in Results(Nat) /\ q.snapped \in Results(Nat) /\ q.snaps \in BOOLEAN
      /\ q.lib \in Libraries /\ q.limit \in Nat
    BY DEF UseQuestions
<1>2. QED  BY <1>1 DEF PyrightReferences

\* The same question without a limit.
Unlimited(q) == [q EXCEPT !.limit = 0]

LEMMA UnlimitedSame ==
    ASSUME NEW q \in UseQuestions
    PROVE  /\ Unlimited(q) \in UseQuestions
           /\ Unlimited(q).at = q.at /\ Unlimited(q).snaps = q.snaps
           /\ Unlimited(q).snapped = q.snapped /\ Unlimited(q).lib = q.lib
           /\ Unlimited(q).limit = 0
           /\ PyrightReferences(Unlimited(q)) = PyrightReferences(q)
<1>1. /\ Unlimited(q) \in UseQuestions
      /\ Unlimited(q).at = q.at /\ Unlimited(q).snaps = q.snaps
      /\ Unlimited(q).snapped = q.snapped /\ Unlimited(q).lib = q.lib
      /\ Unlimited(q).limit = 0
    BY DEF UseQuestions, Unlimited
<1>2. QED  BY <1>1 DEF PyrightReferences

\* An answer, and the one without a limit, report what was found.
Reported(r, all, found, source, failed) ==
    /\ r.error = FALSE /\ r.source = source /\ r.failed = failed
    /\ r.found \in Seq(Nat) /\ Len(r.found) \in Nat
    /\ r.total = Cardinality(ToSet(found)) /\ r.total \in Nat
    /\ r.truncated <=> r.total > Len(r.found)
    /\ ToSet(r.found) \subseteq ToSet(found)
    /\ all.found = Sorted(found)
    /\ all.error = FALSE /\ all.total = r.total
    /\ ToSet(all.found) = ToSet(found)
    /\ IsPrefix(r.found, all.found)

\* References are those found, each once, up to the limit.
LEMMA ReferencesOf ==
    ASSUME NEW found \in Seq(Nat), NEW limit \in Nat, NEW source, NEW failed
    PROVE  Reported(References(found, source, failed, limit),
                    References(found, source, failed, 0), found, source, failed)
<1> DEFINE sorted == Sorted(found)
           page == Page(sorted, limit)
<1>1. /\ sorted \in Seq(Nat) /\ ToSet(sorted) = ToSet(found)
      /\ Len(sorted) = Cardinality(ToSet(found)) /\ Len(sorted) \in Nat
    BY SortedFound
<1>2. /\ page \in Seq(Nat) /\ Len(page) \in Nat /\ IsPrefix(page, sorted)
      /\ ToSet(page) \subseteq ToSet(sorted)
      /\ Len(page) < Len(sorted) <=> Len(sorted) > Len(page)
    BY <1>1, PageOf
<1>3. Page(sorted, 0) = sorted
    BY DEF Page
<1> DEFINE r == References(found, source, failed, limit)
           all == References(found, source, failed, 0)
<1>4. r = [error |-> FALSE, found |-> page, total |-> Len(sorted), source |-> source,
           truncated |-> Len(page) < Len(sorted), failed |-> failed]
    BY DEF References
<1>5. all = [error |-> FALSE, found |-> Page(sorted, 0), total |-> Len(sorted), source |-> source,
             truncated |-> Len(Page(sorted, 0)) < Len(sorted), failed |-> failed]
    BY DEF References
<1> HIDE DEF r, all, page, sorted
<1>6. all.error = FALSE /\ all.found = sorted /\ all.total = Len(sorted)
    BY <1>3, <1>5
<1>7. /\ r.error = FALSE /\ r.found = page /\ r.total = Len(sorted) /\ r.source = source
      /\ r.truncated = (Len(page) < Len(sorted)) /\ r.failed = failed
    BY <1>4
<1>8. QED  BY <1>1, <1>2, <1>6, <1>7 DEF Reported, r, all, sorted

\* What Jedi's references are of.
LEMMA JediReferences ==
    ASSUME NEW lib \in Libraries
    PROVE  LET jedi == Jedi(GetReferences, lib) IN
           /\ jedi \in Results(Nat) /\ jedi.found \in Seq(Nat)
           /\ jedi.ok <=> lib.ok
           /\ ToSet(jedi.found) \subseteq {n.key : n \in ToSet(lib.names)}
           /\ ~lib.ok => jedi.found = <<>>
<1> DEFINE jedi == Jedi(GetReferences, lib)
           taken == Taken(GetReferences, lib)
<1>1. /\ jedi \in Results(Nat)
      /\ jedi.ok <=> lib.ok
      /\ jedi.ok => ToSet(jedi.found) = KeysOf(GetReferences, taken)
      /\ ~jedi.ok => jedi.found = <<>>
    BY JediAnswers
<1>2. taken = lib.names
  <2>1. GetReferences.takes = "all"
      BY DEF GetReferences, Lookup
  <2>2. QED  BY <2>1 DEF Taken
<1> HIDE DEF jedi, taken
<1>3. KeysOf(GetReferences, taken) \subseteq {n.key : n \in ToSet(lib.names)}
    BY <1>2 DEF KeysOf
<1>4. ToSet(<<>>) = {}
    BY DEF ToSet
<1>5. jedi.found \in Seq(Nat) /\ lib.ok \in BOOLEAN
    BY <1>1 DEF Results, Libraries
<1>6. QED  BY <1>1, <1>3, <1>4, <1>5 DEF jedi

\* The references of a position are these, of that source.
FoundAs(q, found, source, failed) ==
    /\ found \in Seq(Nat)
    /\ FindReferences(q) = References(found, source, failed, q.limit)
    /\ FindReferences(Unlimited(q)) = References(found, source, failed, 0)
    /\ ~q.lib.ok <=> failed = {"jedi"}
    /\ ToSet(PyrightReferences(q).found) \subseteq ToSet(found)
    /\ ToSet(found) \subseteq (CASE source = "pyright" -> ToSet(PyrightReferences(q).found)
                                  [] source = "jedi" -> {n.key : n \in ToSet(q.lib.names)}
                                  [] OTHER -> ToSet(PyrightReferences(q).found)
                                              \cup {n.key : n \in ToSet(q.lib.names)})
    /\ source = "combined" => ~(ToSet(found) \subseteq ToSet(PyrightReferences(q).found))

LEMMA FoundBy ==
    ASSUME NEW q \in UseQuestions, PyrightReferences(q).ok
    PROVE  \E found, source, failed : FoundAs(q, found, source, failed)
<1> DEFINE pyright == PyrightReferences(q)
           jedi == Jedi(GetReferences, q.lib)
           names == {n.key : n \in ToSet(q.lib.names)}
           failed == IF jedi.ok THEN {} ELSE {"jedi"}
           more == ToSet(jedi.found) \ ToSet(pyright.found)
           w == Unlimited(q)
<1>1. /\ pyright \in Results(Nat) /\ pyright.found \in Seq(Nat) /\ pyright.ok
      /\ q.lib \in Libraries
    BY UsesTyped DEF Results
<1>2. /\ jedi.found \in Seq(Nat)
      /\ jedi.ok <=> q.lib.ok
      /\ ToSet(jedi.found) \subseteq names
      /\ ~q.lib.ok => jedi.found = <<>>
    BY <1>1, JediReferences
<1>3. /\ PyrightReferences(w) = pyright /\ Jedi(GetReferences, w.lib) = jedi /\ w.limit = 0
    BY UnlimitedSame
<1>4. failed \in {{}, {"jedi"}} /\ (~q.lib.ok <=> failed = {"jedi"})
  <2>1. {} # {"jedi"}
      OBVIOUS
  <2>2. QED  BY <1>2, <2>1
<1>5. CASE pyright.found = <<>>
  <2> DEFINE source == IF jedi.ok THEN "jedi" ELSE "pyright"
  <2>1. FindReferences(q) = References(jedi.found, source, failed, q.limit)
      BY <1>1, <1>5 DEF FindReferences
  <2>2. FindReferences(w) = References(jedi.found, source, failed, 0)
      BY <1>1, <1>3, <1>5 DEF FindReferences
  <2>3. ToSet(pyright.found) = {} /\ (~jedi.ok => ToSet(jedi.found) = {})
      BY <1>2, <1>5 DEF ToSet
  <2> HIDE DEF pyright, jedi, w, failed
  <2>4. CASE jedi.ok
    <3>1. source = "jedi" /\ source # "pyright" /\ source # "combined"
        BY <2>4
    <3> HIDE DEF source
    <3>2. FoundAs(q, jedi.found, source, failed)
        BY <1>2, <1>4, <2>1, <2>2, <2>3, <3>1 DEF FoundAs, w, pyright
    <3>3. QED  BY <3>2
  <2>5. CASE ~jedi.ok
    <3>1. source = "pyright" /\ source # "combined"
        BY <2>5
    <3> HIDE DEF source
    <3>2. FoundAs(q, jedi.found, source, failed)
        BY <1>2, <1>4, <2>1, <2>2, <2>3, <2>5, <3>1 DEF FoundAs, w, pyright
    <3>3. QED  BY <3>2
  <2>6. QED  BY <2>4, <2>5
<1>6. CASE pyright.found # <<>>
  <2> DEFINE source == IF more # {} THEN "combined" ELSE "pyright"
             both == pyright.found \o jedi.found
  <2>1. FindReferences(q) = References(both, source, failed, q.limit)
      BY <1>1, <1>6 DEF FindReferences
  <2>2. FindReferences(w) = References(both, source, failed, 0)
      BY <1>1, <1>3, <1>6 DEF FindReferences
  <2>3. both \in Seq(Nat) /\ ToSet(both) = ToSet(pyright.found) \cup ToSet(jedi.found)
      BY <1>1, <1>2, BothFound
  <2> HIDE DEF pyright, jedi, w, failed, both
  <2>4. CASE more # {}
    <3>1. source = "combined" /\ source # "pyright" /\ source # "jedi"
        BY <2>4
    <3>2. ~(ToSet(both) \subseteq ToSet(pyright.found))
        BY <2>3, <2>4
    <3> HIDE DEF source
    <3>3. FoundAs(q, both, source, failed)
        BY <1>2, <1>4, <2>1, <2>2, <2>3, <3>1, <3>2 DEF FoundAs, w, pyright
    <3>4. QED  BY <3>3
  <2>5. CASE more = {}
    <3>1. source = "pyright" /\ source # "combined"
        BY <2>5
    <3>2. ToSet(both) = ToSet(pyright.found)
        BY <2>3, <2>5
    <3> HIDE DEF source
    <3>3. FoundAs(q, both, source, failed)
        BY <1>2, <1>4, <2>1, <2>2, <2>3, <3>1, <3>2 DEF FoundAs, w, pyright
    <3>4. QED  BY <3>3
  <2>6. QED  BY <2>4, <2>5
<1>7. QED  BY <1>5, <1>6

LEMMA ReferencesAreHonest ==
    ASSUME NEW q \in UseQuestions
    PROVE  ReferencesHonest(q, FindReferences(q))
<1> DEFINE pyright == PyrightReferences(q)
           names == {n.key : n \in ToSet(q.lib.names)}
           r == FindReferences(q)
           all == FindReferences(Unlimited(q))
<1>1. CASE ~pyright.ok
  <2>1. r = Raised
      BY <1>1 DEF FindReferences
  <2>2. r.error
      BY <2>1 DEF Raised
  <2>3. QED  BY <1>1, <2>2 DEF ReferencesHonest
<1>2. CASE pyright.ok
  <2>1. PICK found, source, failed : FoundAs(q, found, source, failed)
      BY <1>2, FoundBy
  <2>2. q.limit \in Nat
      BY UsesTyped
  <2>3. /\ r = References(found, source, failed, q.limit)
        /\ all = References(found, source, failed, 0)
        /\ found \in Seq(Nat)
      BY <2>1 DEF FoundAs
  <2> HIDE DEF r, all
  <2>4. /\ r.error = FALSE /\ r.source = source /\ r.failed = failed
        /\ r.total = Cardinality(ToSet(found))
        /\ r.truncated <=> r.total > Len(r.found)
        /\ ToSet(r.found) \subseteq ToSet(found)
        /\ ToSet(all.found) = ToSet(found)
        /\ IsPrefix(r.found, all.found)
    <3>1. Reported(r, all, found, source, failed)
        BY <2>2, <2>3, ReferencesOf
    <3>2. QED  BY <3>1 DEF Reported
  <2>5. /\ ~r.error
        /\ ToSet(r.found) \subseteq (CASE r.source = "pyright" -> ToSet(pyright.found)
                                       [] r.source = "jedi" -> names
                                       [] OTHER -> ToSet(pyright.found) \cup names)
        /\ r.source = "combined" => ~(ToSet(all.found) \subseteq ToSet(pyright.found))
        /\ ToSet(pyright.found) \subseteq ToSet(all.found)
        /\ ~q.lib.ok <=> r.failed = {"jedi"}
        /\ r.total = Cardinality(ToSet(all.found))
        /\ r.truncated <=> r.total > Len(r.found)
        /\ IsPrefix(r.found, all.found)
      BY <2>1, <2>4 DEF FoundAs
  <2>6. QED  BY <2>5 DEF ReferencesHonest, r, all, Unlimited
<1>3. QED  BY <1>1, <1>2

-----------------------------------------------------------------------------
(* The users of a type *)

LEMMA FourParts ==
    ASSUME NEW A, NEW B, NEW C, NEW D,
           IsFiniteSet(A), IsFiniteSet(B), IsFiniteSet(C), IsFiniteSet(D),
           A \cap B = {}, (A \cup B) \cap C = {}, ((A \cup B) \cup C) \cap D = {}
    PROVE  Cardinality(((A \cup B) \cup C) \cup D)
             = Cardinality(A) + Cardinality(B) + Cardinality(C) + Cardinality(D)
<1>0. /\ Cardinality(A \cap B) = 0 /\ Cardinality((A \cup B) \cap C) = 0
      /\ Cardinality(((A \cup B) \cup C) \cap D) = 0
  <2>1. Cardinality({}) = 0
      BY FS_EmptySet
  <2>2. QED  BY <2>1, Zenon
<1>1. IsFiniteSet(A \cup B) /\ Cardinality(A \cup B) = Cardinality(A) + Cardinality(B) - Cardinality(A \cap B)
    BY FS_Union
<1>2. /\ IsFiniteSet((A \cup B) \cup C)
      /\ Cardinality((A \cup B) \cup C)
           = Cardinality(A \cup B) + Cardinality(C) - Cardinality((A \cup B) \cap C)
    BY <1>1, FS_Union
<1>3. Cardinality(((A \cup B) \cup C) \cup D)
        = Cardinality((A \cup B) \cup C) + Cardinality(D) - Cardinality(((A \cup B) \cup C) \cap D)
    BY <1>2, FS_Union
<1>4. /\ Cardinality(A) \in Nat /\ Cardinality(B) \in Nat
      /\ Cardinality(C) \in Nat /\ Cardinality(D) \in Nat
    BY FS_CardinalityType
<1>5. /\ Cardinality(A \cup B) \in Nat /\ Cardinality((A \cup B) \cup C) \in Nat
    BY <1>1, <1>2, FS_CardinalityType
<1>6. Cardinality(A \cup B) = Cardinality(A) + Cardinality(B)
    BY <1>0, <1>1, <1>4, <1>5
<1>7. Cardinality((A \cup B) \cup C) = Cardinality(A \cup B) + Cardinality(C)
    BY <1>0, <1>2, <1>4, <1>5
<1>8. Cardinality(((A \cup B) \cup C) \cup D) = Cardinality((A \cup B) \cup C) + Cardinality(D)
    BY <1>0, <1>3, <1>4, <1>5
<1>9. QED  BY <1>6, <1>7, <1>8

\* Every place has one kind.
LEMMA OneKind ==
    ASSUME NEW marks
    PROVE  SiteKind(marks) \in SiteKinds
BY DEF SiteKind, SiteKinds

\* The places of a kind, of some kinds, and how many the kinds add up to.
SitesAs(places, marks, k) == {l \in places : SiteKind(marks[l]) = k}
SitesOf(places, marks, kinds) == {l \in places : SiteKind(marks[l]) \in kinds}
ShareOf(places, marks, k, kinds) == IF k \in kinds THEN Cardinality(SitesAs(places, marks, k)) ELSE 0

TotalOf(places, marks, kinds) ==
    ShareOf(places, marks, "annotation", kinds) + ShareOf(places, marks, "instantiation", kinds)
    + ShareOf(places, marks, "other", kinds) + ShareOf(places, marks, "subclass", kinds)

\* The places of these kinds are as many as those of each kind together.
LEMMA KindsAddUp ==
    ASSUME NEW places, IsFiniteSet(places), NEW marks, NEW kinds \in SUBSET SiteKinds
    PROVE  Cardinality(SitesOf(places, marks, kinds)) = TotalOf(places, marks, kinds)
<1> DEFINE Of(l) == SiteKind(marks[l])
           Share(k) == ShareOf(places, marks, k, kinds)
           Part(k) == {l \in places : k \in kinds /\ Of(l) = k}
<1>1. \A k : IsFiniteSet(Part(k))
    BY FS_Subset
<1>2. \A k : Cardinality(Part(k)) = Share(k)
  <2>1. TAKE k
  <2>2. CASE k \in kinds
    <3>1. Part(k) = {l \in places : Of(l) = k}
        BY <2>2
    <3>2. QED  BY <2>2, <3>1 DEF ShareOf, SitesAs
  <2>3. CASE k \notin kinds
    <3>1. Part(k) = {} /\ Cardinality({}) = 0
        BY <2>3, FS_EmptySet
    <3>2. Share(k) = 0
        BY <2>3 DEF ShareOf
    <3>3. QED  BY <3>1, <3>2
  <2>4. QED  BY <2>2, <2>3
<1> DEFINE A == Part("annotation")
           B == Part("instantiation")
           C == Part("other")
           D == Part("subclass")
<1>3. A \cap B = {} /\ (A \cup B) \cap C = {} /\ ((A \cup B) \cup C) \cap D = {}
    OBVIOUS
<1>4. {l \in places : Of(l) \in kinds} = ((A \cup B) \cup C) \cup D
  <2>1. \A l : Of(l) \in SiteKinds
      BY OneKind
  <2>2. QED  BY <2>1 DEF SiteKinds
<1>5. IsFiniteSet(A) /\ IsFiniteSet(B) /\ IsFiniteSet(C) /\ IsFiniteSet(D)
    BY <1>1
<1>6. /\ Cardinality(A) = Share("annotation") /\ Cardinality(B) = Share("instantiation")
      /\ Cardinality(C) = Share("other") /\ Cardinality(D) = Share("subclass")
    BY <1>2
<1> HIDE DEF A, B, C, D, Share, Of, Part
<1>7. Cardinality(((A \cup B) \cup C) \cup D)
        = Cardinality(A) + Cardinality(B) + Cardinality(C) + Cardinality(D)
    BY <1>3, <1>5, FourParts
<1>8. Cardinality(SitesOf(places, marks, kinds))
        = Share("annotation") + Share("instantiation") + Share("other") + Share("subclass")
  <2>1. SitesOf(places, marks, kinds) = ((A \cup B) \cup C) \cup D
      BY <1>4 DEF SitesOf, Of
  <2>2. QED  BY <1>6, <1>7, <2>1
<1>9. QED  BY <1>8 DEF TotalOf, Share

\* The places of the references and their buckets.
LEMMA TypeUsersHonest ==
    ASSUME NEW q \in UseQuestions
    PROVE  BucketsAddUp(q, TypeUsers(q))
<1> DEFINE w == Unlimited(q)
           refs == FindReferences(w)
           r == TypeUsers(q)
           Of(l) == SiteKind(q.marks[l])
           Count(k) == Cardinality(SitesAs(ToSet(refs.found), q.marks, k))
           sites == Only(refs.found, {k \in DOMAIN refs.found : Of(refs.found[k]) \in q.kinds})
<1>1. w = [q EXCEPT !.limit = 0]
    BY DEF Unlimited
<1>2. CASE refs.error \/ ~(q.kinds \subseteq SiteKinds)
  <2>1. r = Raised
      BY <1>1, <1>2 DEF TypeUsers
  <2>2. r.error
      BY <2>1 DEF Raised
  <2>3. QED  BY <2>2 DEF BucketsAddUp
<1>3. CASE ~(refs.error \/ ~(q.kinds \subseteq SiteKinds))
  <2>1. r = [error |-> FALSE, sites |-> Page(sites, q.limit), total |-> Len(sites),
             counts |-> [k \in SiteKinds |-> Count(k)],
             truncated |-> Len(Page(sites, q.limit)) < Len(sites)]
      BY <1>1, <1>3 DEF TypeUsers, SitesAs
  <2>2. PyrightReferences(q).ok
    <3>1. SUFFICES ASSUME ~PyrightReferences(q).ok PROVE refs.error
        BY <1>3
    <3>2. ~PyrightReferences(w).ok
        BY <3>1, UnlimitedSame
    <3>3. refs = Raised
        BY <3>2 DEF FindReferences
    <3>4. QED  BY <3>3 DEF Raised
  <2>3. PICK found, source, failed : FoundAs(q, found, source, failed)
      BY <2>2, FoundBy
  <2>4. found \in Seq(Nat) /\ refs = References(found, source, failed, 0)
      BY <2>3 DEF FoundAs
  <2> DEFINE all == refs.found
             n == Len(all)
  <2>5. /\ all = Sorted(found) /\ refs.total = Cardinality(ToSet(found))
        /\ ToSet(all) = ToSet(found)
    <3>1. Reported(refs, refs, found, source, failed)
        BY <2>4, ReferencesOf
    <3>2. QED  BY <3>1 DEF Reported
  <2>6. /\ all \in Seq(Nat) /\ n \in Nat /\ DOMAIN all = 1..n
        /\ IsFiniteSet(ToSet(all))
        /\ refs.total = Cardinality(ToSet(all)) /\ refs.total = n
        /\ \A j, k \in 1..n : j < k => all[j] < all[k]
        /\ \A k \in 1..n : all[k] \in Nat
    <3>1. all \in Seq(Nat) /\ n = Cardinality(ToSet(found)) /\ n \in Nat
        BY <2>4, <2>5, SortedFound
    <3>2. DOMAIN all = 1..n /\ \A k \in 1..n : all[k] \in Nat
        BY <3>1, LenProperties, ElementOfSeq
    <3>3. IsFiniteSet(ToSet(found)) /\ ToSet(found) \in SUBSET Nat
        BY <2>4, ListCounts
    <3>4. \A j, k \in 1..n : j < k => all[j] < all[k]
      <4>1. \A j, k \in 1..Cardinality(ToSet(found)) :
               j < k => Ascending(ToSet(found))[j] < Ascending(ToSet(found))[k]
          BY <3>3, AscendingLists
      <4>2. QED  BY <2>5, <3>1, <4>1 DEF Sorted
    <3>5. QED  BY <2>5, <3>1, <3>2, <3>3, <3>4
  <2> DEFINE places == {k \in DOMAIN all : Of(all[k]) \in q.kinds}
  <2>7. places \in SUBSET (1..n)
      BY <2>6
  <2>8. sites = Only(all, places)
      OBVIOUS
  <2> HIDE DEF all, n, refs, sites
  <2>9. /\ sites \in Seq(Nat) /\ Cardinality(ToSet(sites)) = Len(sites)
        /\ ToSet(sites) = {all[k] : k \in places}
    <3> HIDE DEF places
    <3>1. \A j, k \in places : j < k => all[j] # all[k]
      <4>1. SUFFICES ASSUME NEW j \in places, NEW k \in places, j < k PROVE all[j] # all[k]
          OBVIOUS
      <4>2. all[j] < all[k] /\ all[j] \in Nat /\ all[k] \in Nat
          BY <2>6, <2>7, <4>1
      <4>3. QED  BY <4>2
    <3>2. places \in SUBSET (1..Len(all))
        BY <2>7 DEF n
    <3>3. Only(all, places) \in Seq(Nat) /\ ToSet(Only(all, places)) = {all[k] : k \in places}
        BY <2>6, <3>2, OnlyItems
    <3>4. Cardinality(ToSet(Only(all, places))) = Len(Only(all, places))
        BY <2>6, <3>1, <3>2, OnlyCounts
    <3>5. QED  BY <2>8, <3>3, <3>4
  <2>10. {all[k] : k \in places} = {l \in ToSet(all) : Of(l) \in q.kinds}
      BY DEF ToSet
  <2> DEFINE Total(kinds) == TotalOf(ToSet(all), q.marks, kinds)
             Some(kinds) == SitesOf(ToSet(all), q.marks, kinds)
  <2>11. ASSUME NEW kinds \in SUBSET SiteKinds
         PROVE  Cardinality(Some(kinds)) = Total(kinds)
      BY <2>6, KindsAddUp
  <2>12. Total(SiteKinds) = refs.total
    <3>1. Some(SiteKinds) = ToSet(all)
        BY OneKind DEF SitesOf
    <3>2. Cardinality(Some(SiteKinds)) = Total(SiteKinds)
        BY <2>11
    <3> HIDE DEF Total, Some
    <3>3. QED  BY <2>6, <3>1, <3>2
  <2>13. Total(q.kinds) = Len(sites)
    <3>1. q.kinds \in SUBSET SiteKinds
        BY <1>3
    <3>2. Cardinality(Some(q.kinds)) = Total(q.kinds)
        BY <2>11, <3>1
    <3>3. Some(q.kinds) = ToSet(sites)
        BY <2>9, <2>10 DEF SitesOf
    <3> HIDE DEF Total, Some
    <3>4. QED  BY <2>9, <3>2, <3>3
  <2>14. /\ r.counts = [k \in SiteKinds |-> Count(k)] /\ r.total = Len(sites)
         /\ r.sites = Page(sites, q.limit)
         /\ r.truncated = (Len(Page(sites, q.limit)) < Len(sites))
      BY <2>1
  <2>15. \A k \in SiteKinds : r.counts[k] = Count(k)
      BY <2>14
  <2>16. /\ "annotation" \in SiteKinds /\ "instantiation" \in SiteKinds
         /\ "other" \in SiteKinds /\ "subclass" \in SiteKinds
      BY DEF SiteKinds
  <2> DEFINE Share(k, kinds) == IF k \in kinds THEN r.counts[k] ELSE 0
             Sum(kinds) == Share("annotation", kinds) + Share("instantiation", kinds)
                           + Share("other", kinds) + Share("subclass", kinds)
  <2>17. \A kinds : \A k \in SiteKinds : Share(k, kinds) = ShareOf(ToSet(all), q.marks, k, kinds)
      BY <2>15 DEF ShareOf, all
  <2>18. \A kinds : Sum(kinds) = Total(kinds)
    <3> HIDE DEF Share
    <3>1. QED  BY <2>16, <2>17 DEF TotalOf
  <2>19. r.total = Len(sites) /\ (r.truncated <=> Len(r.sites) < r.total)
      BY <2>14
  <2> HIDE DEF r, Total
  <2>20. /\ Sum(SiteKinds) = refs.total
         /\ Sum(q.kinds) = r.total
         /\ r.truncated <=> Len(r.sites) < r.total
      BY <2>12, <2>13, <2>18, <2>19
  <2>21. QED  BY <1>1, <2>20 DEF BucketsAddUp, refs, r
<1>4. QED  BY <1>2, <1>3 DEF r

-----------------------------------------------------------------------------
(* What falls back to Jedi *)

\* What is asked first is never replaced.
LEMMA FirstOfHonest ==
    ASSUME NEW pyright \in Results(Nat), NEW jedi \in Results(Nat)
    PROVE  LET r == FirstOf(pyright, jedi) IN
           /\ r.error <=> ~pyright.ok
           /\ ~r.error /\ pyright.found # <<>> => ToSet(r.found) = ToSet(pyright.found)
<1> DEFINE r == FirstOf(pyright, jedi)
<1>1. pyright.found \in Seq(Nat) /\ pyright.ok \in BOOLEAN
    BY DEF Results
<1>2. ToSet(Sorted(pyright.found)) = ToSet(pyright.found)
    BY <1>1, SortedFound
<1>3. CASE ~pyright.ok
  <2>1. r = Raised
      BY <1>3 DEF FirstOf
  <2>2. QED  BY <1>3, <2>1 DEF Raised
<1>4. CASE pyright.ok
  <2> DEFINE found == Sorted(IF pyright.found # <<>> THEN pyright.found ELSE jedi.found)
  <2>1. r = [error |-> FALSE, found |-> found]
      BY <1>4 DEF FirstOf
  <2>2. pyright.found # <<>> => ToSet(found) = ToSet(pyright.found)
      BY <1>2
  <2> HIDE DEF r, found
  <2>3. r.error = FALSE /\ r.found = found
      BY <2>1
  <2>4. QED  BY <1>4, <2>2, <2>3 DEF r
<1>5. QED  BY <1>1, <1>3, <1>4

LEMMA FallbacksAreHonest ==
    ASSUME NEW q \in UseQuestions
    PROVE  FallbackHonest(q)
<1>1. /\ q.at \in Results(Nat) /\ q.at.found \in Seq(Nat) /\ q.at.ok \in BOOLEAN
      /\ q.lib \in Libraries /\ q.lib.ok \in BOOLEAN
    BY UsesTyped DEF Results, Libraries
<1>2. ASSUME NEW method
      PROVE  LET jedi == Jedi(method, q.lib) IN
             /\ jedi \in Results(Nat) /\ jedi.found \in Seq(Nat)
             /\ jedi.ok <=> q.lib.ok
  <2> DEFINE jedi == Jedi(method, q.lib)
  <2>1. jedi \in Results(Nat) /\ (jedi.ok <=> q.lib.ok)
      BY <1>1, JediAnswers
  <2>2. QED  BY <2>1 DEF Results
<1>3. \A r \in {Definition(q), SignatureHelp(q)} :
          /\ r.error <=> ~q.at.ok
          /\ ~r.error /\ q.at.found # <<>> => ToSet(r.found) = ToSet(q.at.found)
  <2>1. /\ Definition(q).error <=> ~q.at.ok
        /\ ~Definition(q).error /\ q.at.found # <<>> => ToSet(Definition(q).found) = ToSet(q.at.found)
      BY <1>1, <1>2, FirstOfHonest DEF Definition
  <2>2. /\ SignatureHelp(q).error <=> ~q.at.ok
        /\ ~SignatureHelp(q).error /\ q.at.found # <<>>
              => ToSet(SignatureHelp(q).found) = ToSet(q.at.found)
      BY <1>1, <1>2, FirstOfHonest DEF SignatureHelp
  <2>3. QED  BY <2>1, <2>2
<1>4. TypeInfo(q).error \/ q.at.found = <<>> \/ TypeInfo(q).found # <<>>
  <2> DEFINE jedi == Jedi(InferType, q.lib)
             known == {k \in DOMAIN q.at.found : q.at.found[k] \notin q.unknown}
             found == IF known # {} THEN <<Head(Only(q.at.found, known))>>
                      ELSE IF jedi.found # <<>> THEN jedi.found ELSE q.at.found
  <2>1. CASE ~q.at.ok
    <3>1. TypeInfo(q) = Raised
        BY <2>1 DEF TypeInfo
    <3>2. QED  BY <3>1 DEF Raised
  <2>2. CASE q.at.ok
    <3>1. TypeInfo(q) = [error |-> FALSE, found |-> found]
        BY <2>2 DEF TypeInfo
    <3>2. q.at.found = <<>> \/ found # <<>>
      <4>1. \A x : <<x>> # <<>>
          OBVIOUS
      <4>2. QED  BY <4>1
    <3> HIDE DEF found
    <3>3. QED  BY <3>1, <3>2
  <2>3. QED  BY <2>1, <2>2
<1>5. LET r == SearchSymbols(Unlimited(q))
      IN /\ ToSet(q.at.found) \subseteq ToSet(r.found)
         /\ r.failed = (IF q.at.ok THEN {} ELSE {"pyright"}) \cup (IF q.lib.ok THEN {} ELSE {"jedi"})
  <2> DEFINE w == Unlimited(q)
             r == SearchSymbols(w)
             jedi == Jedi(SearchSymbolsIn, q.lib)
             all == Sorted(q.at.found \o jedi.found)
             failed == (IF q.at.ok THEN {} ELSE {"pyright"}) \cup (IF q.lib.ok THEN {} ELSE {"jedi"})
  <2>1. w.at = q.at /\ w.lib = q.lib /\ w.limit = 0
      BY UnlimitedSame
  <2>2. Page(all, 0) = all
      BY DEF Page
  <2>3. jedi.found \in Seq(Nat) /\ (jedi.ok <=> q.lib.ok)
      BY <1>2
  <2>4. r.found = all /\ r.failed = failed
    <3>1. (IF jedi.ok THEN {} ELSE {"jedi"}) = IF q.lib.ok THEN {} ELSE {"jedi"}
        BY <2>3
    <3>2. r = [error |-> FALSE, found |-> Page(all, 0), total |-> Len(all),
               truncated |-> Len(Page(all, 0)) < Len(all),
               failed |-> (IF q.at.ok THEN {} ELSE {"pyright"}) \cup (IF jedi.ok THEN {} ELSE {"jedi"})]
        BY <2>1 DEF SearchSymbols
    <3> HIDE DEF all, r
    <3>3. QED  BY <2>2, <3>1, <3>2
  <2>5. ToSet(all) = ToSet(q.at.found) \cup ToSet(jedi.found)
    <3>1. /\ q.at.found \o jedi.found \in Seq(Nat)
          /\ ToSet(q.at.found \o jedi.found) = ToSet(q.at.found) \cup ToSet(jedi.found)
        BY <1>1, <2>3, BothFound
    <3>2. QED  BY <3>1, SortedFound
  <2> HIDE DEF all, jedi, failed
  <2>6. ToSet(q.at.found) \subseteq ToSet(r.found) /\ r.failed = failed
      BY <2>4, <2>5
  <2>7. QED  BY <2>6 DEF failed
<1>6. LET r == SuggestImports(q)
      IN r.error \/ ToSet(q.at.found) \cup ToSet(Jedi(SearchNames, q.lib).found) = ToSet(r.found)
  <2> DEFINE r == SuggestImports(q)
             jedi == Jedi(SearchNames, q.lib)
             both == q.at.found \o jedi.found
  <2>1. CASE ~q.at.ok \/ ~jedi.ok
    <3>1. r = Raised
        BY <2>1 DEF SuggestImports
    <3>2. QED  BY <3>1 DEF Raised
  <2>2. CASE ~(~q.at.ok \/ ~jedi.ok)
    <3>1. r = [error |-> FALSE, found |-> Sorted(Once(both))]
        BY <2>2 DEF SuggestImports
    <3>2. jedi.found \in Seq(Nat)
        BY <1>2
    <3>3. both \in Seq(Nat) /\ ToSet(both) = ToSet(q.at.found) \cup ToSet(jedi.found)
        BY <1>1, <3>2, BothFound
    <3>4. Once(both) \in Seq(Nat) /\ ToSet(Once(both)) = ToSet(both)
        BY <3>3, OnceCounts
    <3>5. ToSet(Sorted(Once(both))) = ToSet(both)
        BY <3>4, SortedFound
    <3> HIDE DEF both, r
    <3>6. r.found = Sorted(Once(both))
        BY <3>1
    <3>7. QED  BY <3>3, <3>5, <3>6 DEF r
  <2>3. QED  BY <2>1, <2>2
<1>7. QED  BY <1>3, <1>4, <1>5, <1>6 DEF FallbackHonest, Unlimited

-----------------------------------------------------------------------------
(* The scans *)

\* A question about a scan of files and their symbols.
ScanQuestion(q) ==
    /\ q \in [files : Seq(SourceFiles), symbols : Seq(Symbols), skipTests : BOOLEAN,
              rootMissing : BOOLEAN, offset : Nat, limit : Nat]
    /\ \A k \in DOMAIN q.symbols : q.symbols[k].file \in DOMAIN q.files

\* The same scan, at another offset or with another limit.
SameScan(q, w) ==
    /\ w.files = q.files /\ w.symbols = q.symbols
    /\ w.skipTests = q.skipTests /\ w.rootMissing = q.rootMissing
    /\ w.offset \in Nat /\ w.limit \in Nat
WholeScan(q) == [q EXCEPT !.limit = 0, !.offset = 0]
NextScan(q) == [q EXCEPT !.offset = @ + q.limit]

LEMMA SameScans ==
    ASSUME NEW q, ScanQuestion(q)
    PROVE  /\ SameScan(q, q) /\ SameScan(q, WholeScan(q)) /\ SameScan(q, NextScan(q))
           /\ q.offset \in Nat /\ q.limit \in Nat
           /\ WholeScan(q).offset = 0 /\ WholeScan(q).limit = 0
           /\ NextScan(q).offset = q.offset + q.limit /\ NextScan(q).limit = q.limit
BY DEF ScanQuestion, SameScan, WholeScan, NextScan

\* What the scans find and what fails.
FlaggedBy(q) == UNION {ToSet(q.files[f].diagnosed.found) :
                          f \in {g \in Targets(q).files : q.files[g].diagnosed.ok}}
DeadKeys(q) == FlaggedBy(q) \cup {k \in Declared(q, Targets(q).files) : Unreferenced(q.symbols[k])}

DeadFailed(q) ==
    Targets(q).failed \cup Unparsed(q, Targets(q).files)
        \cup Unanswered(q, Declared(q, Targets(q).files))
        \cup {<<"diagnostics", f>> : f \in Targets(q).files \ {g \in Targets(q).files : q.files[g].diagnosed.ok}}
Opened(q) == {f \in Targets(q).files : q.files[f].opens}
UnusedKeys(q) == {k \in Surface(q, Opened(q)) : UnreferencedElsewhere(q.symbols[k])}

UnusedFailed(q) ==
    Targets(q).failed \cup Unparsed(q, Opened(q)) \cup Unanswered(q, Surface(q, Opened(q)))
        \cup {<<"open", f>> : f \in Targets(q).files \ Opened(q)}
DiagnosedKeys(q) == {f \in DOMAIN q.files : q.files[f].diagnosed.ok /\ q.files[f].diagnosed.found # <<>>}
DiagnosedFailed(q) == {<<"diagnostics", f>> : f \in {g \in DOMAIN q.files : ~q.files[g].diagnosed.ok}}

\* The scans page what they find.
LEMMA ScansPaged ==
    ASSUME NEW q, NEW w, SameScan(q, w)
    PROVE  /\ DeadCode(w) = Paged(DeadKeys(q), DeadFailed(q), w)
           /\ UnusedSymbols(w) = Paged(UnusedKeys(q), UnusedFailed(q), w)
           /\ WorkspaceDiagnostics(w) = Paged(DiagnosedKeys(q), DiagnosedFailed(q), w)
<1>1. /\ w.files = q.files /\ w.symbols = q.symbols
      /\ w.skipTests = q.skipTests /\ w.rootMissing = q.rootMissing
    BY DEF SameScan
<1>2. Targets(w) = Targets(q)
    BY <1>1 DEF Targets
<1>3. \A files : /\ Declared(w, files) = Declared(q, files)
                 /\ Surface(w, files) = Surface(q, files)
                 /\ Unparsed(w, files) = Unparsed(q, files)
                 /\ Unanswered(w, files) = Unanswered(q, files)
    BY <1>1 DEF Declared, Surface, Unparsed, Unanswered
<1>4. DeadCode(w) = Paged(DeadKeys(w), DeadFailed(w), w)
    BY Zenon DEF DeadCode, DeadKeys, DeadFailed, FlaggedBy
<1>5. DeadKeys(w) = DeadKeys(q) /\ DeadFailed(w) = DeadFailed(q)
    BY <1>1, <1>2, <1>3, Zenon DEF DeadKeys, DeadFailed, FlaggedBy
<1>6. UnusedSymbols(w) = Paged(UnusedKeys(w), UnusedFailed(w), w)
    BY Zenon DEF UnusedSymbols, UnusedKeys, UnusedFailed, Opened
<1>7. UnusedKeys(w) = UnusedKeys(q) /\ UnusedFailed(w) = UnusedFailed(q)
    BY <1>1, <1>2, <1>3, Zenon DEF UnusedKeys, UnusedFailed, Opened
<1>8. WorkspaceDiagnostics(w) = Paged(DiagnosedKeys(q), DiagnosedFailed(q), w)
    BY <1>1, Zenon DEF WorkspaceDiagnostics, DiagnosedKeys, DiagnosedFailed
<1>9. QED  BY <1>4, <1>5, <1>6, <1>7, <1>8

\* A page, the next one and the whole fit together.
PagesFit(page, next, all, q) ==
    LET rest == SubSeq(all.items, q.offset + 1, Len(all.items))
    IN /\ IsPrefix(page.items, rest)
       /\ page.truncated <=> page.items # rest
       /\ q.limit > 0 => page.truncated <=> next.items # <<>>
       /\ q.limit > 0 => IsPrefix(page.items \o next.items, rest)

LEMMA PagedFits ==
    ASSUME NEW q, ScanQuestion(q), NEW keys \in SUBSET Nat, IsFiniteSet(keys), NEW failed
    PROVE  LET all == Paged(keys, failed, WholeScan(q)) IN
           /\ ToSet(all.items) = keys /\ all.failed = failed
           /\ PagesFit(Paged(keys, failed, q), Paged(keys, failed, NextScan(q)), all, q)
<1> DEFINE sorted == Ascending(keys)
           n == Len(sorted)
           Rest(w) == SubSeq(sorted, w.offset + 1, n)
           page == Paged(keys, failed, q)
           next == Paged(keys, failed, NextScan(q))
           all == Paged(keys, failed, WholeScan(q))
           rest == SubSeq(sorted, q.offset + 1, n)
           follows == Page(SubSeq(sorted, q.offset + q.limit + 1, n), q.limit)
<1>1. /\ sorted \in Seq(Nat) /\ ToSet(sorted) = keys
    BY AscendingList
<1>2. /\ q.offset \in Nat /\ q.limit \in Nat
      /\ WholeScan(q).offset = 0 /\ WholeScan(q).limit = 0
      /\ NextScan(q).offset = q.offset + q.limit /\ NextScan(q).limit = q.limit
    BY SameScans
<1>3. /\ IsPrefix(Page(rest, q.limit), rest)
      /\ Len(Page(rest, q.limit)) < Len(rest) <=> Page(rest, q.limit) # rest
      /\ q.limit > 0 => Len(Page(rest, q.limit)) < Len(rest) <=> follows # <<>>
      /\ q.limit > 0 => IsPrefix(Page(rest, q.limit) \o follows, rest)
      /\ Page(SubSeq(sorted, 1, n), 0) = sorted
    BY <1>1, <1>2, PagesFollow
<1>4. \A w : LET p == Paged(keys, failed, w) IN
             /\ p.items = Page(Rest(w), w.limit) /\ p.failed = failed
             /\ p.truncated = (Len(Page(Rest(w), w.limit)) < Len(Rest(w)))
    BY DEF Paged
<1> HIDE DEF sorted, n
<1>5. all.items = sorted /\ all.failed = failed
  <2>1. all.items = Page(Rest(WholeScan(q)), 0) /\ all.failed = failed
      BY <1>2, <1>4
  <2>2. Rest(WholeScan(q)) = SubSeq(sorted, 1, n)
    <3>1. 0 + 1 = 1
        OBVIOUS
    <3>2. QED  BY <1>2, <3>1
  <2>3. QED  BY <1>3, <2>1, <2>2
<1>6. next.items = follows
    BY <1>2, <1>4
<1>7. page.items = Page(rest, q.limit) /\ page.truncated = (Len(Page(rest, q.limit)) < Len(rest))
    BY <1>4
<1> HIDE DEF page, next, all, rest, follows
<1>8. rest = SubSeq(all.items, q.offset + 1, Len(all.items))
    BY <1>5 DEF rest, n
<1>9. PagesFit(page, next, all, q)
    BY <1>3, <1>6, <1>7, <1>8 DEF PagesFit
<1>10. QED  BY <1>1, <1>5, <1>9 DEF page, next, all

\* What a scan finds is a finite set of symbols or files.
LEMMA KeysFinite ==
    ASSUME NEW q, ScanQuestion(q)
    PROVE  /\ DeadKeys(q) \in SUBSET Nat /\ IsFiniteSet(DeadKeys(q))
           /\ UnusedKeys(q) \in SUBSET Nat /\ IsFiniteSet(UnusedKeys(q))
           /\ DiagnosedKeys(q) \in SUBSET Nat /\ IsFiniteSet(DiagnosedKeys(q))
<1>1. q.files \in Seq(SourceFiles) /\ q.symbols \in Seq(Symbols)
    BY DEF ScanQuestion
<1>2. /\ Len(q.files) \in Nat /\ DOMAIN q.files = 1..Len(q.files)
      /\ Len(q.symbols) \in Nat /\ DOMAIN q.symbols = 1..Len(q.symbols)
    BY <1>1, LenProperties
<1>3. /\ IsFiniteSet(DOMAIN q.files) /\ DOMAIN q.files \in SUBSET Nat
      /\ IsFiniteSet(DOMAIN q.symbols) /\ DOMAIN q.symbols \in SUBSET Nat
  <2>1. \A n \in Nat : 1..n \in SUBSET Nat
      OBVIOUS
  <2>2. QED  BY <1>2, <2>1, Places
<1>4. Targets(q).files \subseteq DOMAIN q.files
    BY DEF Targets
<1>5. \A files : /\ Declared(q, files) \subseteq DOMAIN q.symbols
                 /\ Surface(q, files) \subseteq DOMAIN q.symbols
    BY DEF Declared, Surface
<1>6. /\ UnusedKeys(q) \in SUBSET (DOMAIN q.symbols)
      /\ DiagnosedKeys(q) \in SUBSET (DOMAIN q.files)
    BY <1>5 DEF UnusedKeys, DiagnosedKeys
<1>7. IsFiniteSet(UnusedKeys(q)) /\ IsFiniteSet(DiagnosedKeys(q))
    BY <1>3, <1>6, FS_Subset
<1> DEFINE asked == {k \in Declared(q, Targets(q).files) : Unreferenced(q.symbols[k])}
           diagnosed == {g \in Targets(q).files : q.files[g].diagnosed.ok}
           Found(f) == ToSet(q.files[f].diagnosed.found)
           flags == {Found(f) : f \in diagnosed}
<1>8. asked \in SUBSET (DOMAIN q.symbols) /\ diagnosed \in SUBSET (DOMAIN q.files)
    BY <1>4, <1>5
<1>9. IsFiniteSet(asked) /\ IsFiniteSet(diagnosed)
    BY <1>3, <1>8, FS_Subset
<1>10. \A f \in DOMAIN q.files : Found(f) \in SUBSET Nat /\ IsFiniteSet(Found(f))
  <2>1. TAKE f \in DOMAIN q.files
  <2>2. q.files[f] \in SourceFiles
      BY <1>1, <1>2, ElementOfSeq
  <2>3. q.files[f].diagnosed.found \in Seq(Nat)
      BY <2>2 DEF SourceFiles, Results
  <2>4. QED  BY <2>3, ListCounts
<1>11. FlaggedBy(q) = UNION flags
    BY DEF FlaggedBy
<1> DEFINE g == [f \in diagnosed |-> Found(f)]
<1>12. g \in Surjection(diagnosed, flags)
  <2>1. g \in [diagnosed -> flags] /\ \A f \in diagnosed : g[f] = Found(f)
      OBVIOUS
  <2> HIDE DEF g, diagnosed
  <2>2. QED  BY <2>1 DEF Surjection
<1>13. UNION flags \in SUBSET Nat /\ \A T \in flags : IsFiniteSet(T)
    BY <1>8, <1>10
<1>14. DeadKeys(q) = (UNION flags) \cup asked
    BY <1>11 DEF DeadKeys
<1> HIDE DEF g, flags, diagnosed, asked
<1>15. IsFiniteSet(flags)
    BY <1>9, <1>12, FS_Surjection
<1>16. IsFiniteSet(UNION flags)
    BY <1>13, <1>15, FS_UNION
<1>17. IsFiniteSet((UNION flags) \cup asked)
    BY <1>9, <1>16, FS_Union
<1>18. QED  BY <1>3, <1>6, <1>7, <1>8, <1>13, <1>14, <1>17

\* What is called unused was asked about and has no use.
LEMMA FoundUnused ==
    ASSUME NEW q, ScanQuestion(q)
    PROVE  LET flagged == UNION {ToSet(q.files[f].diagnosed.found) : f \in DOMAIN q.files} IN
           /\ \A k \in DeadKeys(q) \ flagged :
                 q.symbols[k].refs.ok /\ ToSet(q.symbols[k].refs.found) \cap {"own", "other"} = {}
           /\ \A k \in UnusedKeys(q) :
                 q.symbols[k].refs.ok /\ "other" \notin ToSet(q.symbols[k].refs.found)
<1> DEFINE flagged == UNION {ToSet(q.files[f].diagnosed.found) : f \in DOMAIN q.files}
<1>1. Targets(q).files \subseteq DOMAIN q.files
    BY DEF Targets
<1>2. FlaggedBy(q) \subseteq flagged
    BY <1>1 DEF FlaggedBy
<1> HIDE DEF flagged
<1>3. ASSUME NEW k \in DeadKeys(q) \ flagged
      PROVE  q.symbols[k].refs.ok /\ ToSet(q.symbols[k].refs.found) \cap {"own", "other"} = {}
  <2>1. Unreferenced(q.symbols[k])
      BY <1>2 DEF DeadKeys
  <2>2. QED  BY <2>1 DEF Unreferenced
<1>4. \A k \in UnusedKeys(q) :
         q.symbols[k].refs.ok /\ "other" \notin ToSet(q.symbols[k].refs.found)
    BY DEF UnusedKeys, UnreferencedElsewhere
<1>5. QED  BY <1>3, <1>4 DEF flagged

\* A file of the scope is a target or a failure, unless the root is missing.
Scope(q) == {f \in DOMAIN q.files : ~(q.skipTests /\ q.files[f].test)}
FileTold(failed, f) == \E phase \in {"resolve", "open", "symbol_scan"} : <<phase, f>> \in failed

LEMMA ScopeTargeted ==
    ASSUME NEW q, ~q.rootMissing, NEW f \in Scope(q)
    PROVE  f \in Targets(q).files \/ <<"resolve", f>> \in Targets(q).failed
BY DEF Scope, Targets

\* A declaration of the scope is dead, told or used.
LEMMA DeclaredTold ==
    ASSUME NEW q, ScanQuestion(q), NEW k \in DOMAIN q.symbols,
           q.symbols[k].file \in Scope(q), ~q.symbols[k].excluded
    PROVE  LET s == q.symbols[k] IN
           \/ s.decorated \/ k \in DeadKeys(q) \/ q.rootMissing
           \/ FileTold(DeadFailed(q), s.file) \/ <<"references", k>> \in DeadFailed(q)
           \/ ToSet(s.refs.found) \cap {"own", "other"} # {}
<1> DEFINE s == q.symbols[k]
           declared == Declared(q, Targets(q).files)
<1>1. SUFFICES ASSUME ~s.decorated, ~q.rootMissing, ~FileTold(DeadFailed(q), s.file),
                      <<"references", k>> \notin DeadFailed(q),
                      ToSet(s.refs.found) \cap {"own", "other"} = {}
               PROVE  k \in DeadKeys(q)
    OBVIOUS
<1>2. s.file \in Targets(q).files
  <2>1. s.file \in Targets(q).files \/ <<"resolve", s.file>> \in DeadFailed(q)
      BY <1>1, ScopeTargeted DEF DeadFailed
  <2>2. QED  BY <1>1, <2>1 DEF FileTold
<1>3. q.files[s.file].parses
  <2>1. SUFFICES ASSUME ~q.files[s.file].parses PROVE <<"symbol_scan", s.file>> \in DeadFailed(q)
      BY <1>1 DEF FileTold
  <2>2. <<"symbol_scan", s.file>> \in Unparsed(q, Targets(q).files)
      BY <1>2, <2>1 DEF Unparsed
  <2>3. QED  BY <2>2 DEF DeadFailed
<1>4. k \in declared
    BY <1>1, <1>2, <1>3 DEF Declared
<1>5. s.refs.ok
  <2>1. SUFFICES ASSUME ~s.refs.ok PROVE <<"references", k>> \in DeadFailed(q)
      BY <1>1
  <2>2. <<"references", k>> \in Unanswered(q, declared)
      BY <1>4, <2>1 DEF Unanswered
  <2>3. QED  BY <2>2 DEF DeadFailed
<1>6. ToSet(s.refs.found) \subseteq {"here"}
  <2>1. s \in Symbols
    <3>1. q.symbols \in Seq(Symbols)
        BY DEF ScanQuestion
    <3>2. k \in 1..Len(q.symbols)
        BY <3>1, LenProperties
    <3>3. QED  BY <3>1, <3>2, ElementOfSeq
  <2>2. s.refs.found \in Seq({"here", "own", "other"})
      BY <2>1 DEF Symbols, Results
  <2>3. ToSet(s.refs.found) \subseteq {"here", "own", "other"}
      BY <2>2, ListCounts
  <2>4. QED  BY <1>1, <2>3
<1>7. Unreferenced(s)
    BY <1>5, <1>6 DEF Unreferenced
<1>8. QED  BY <1>4, <1>7 DEF DeadKeys

\* What is dead by its references and exported is in the sweep too.
LEMMA DeadAreSwept ==
    ASSUME NEW q, ScanQuestion(q), NEW k \in DOMAIN q.symbols,
           q.symbols[k].file \in Scope(q), ~q.symbols[k].excluded,
           q.symbols[k].refs.ok,
           ToSet(q.symbols[k].refs.found) \cap {"own", "other"} = {},
           k \in Surface(q, Scope(q))
    PROVE  k \in UnusedKeys(q) \/ q.rootMissing \/ FileTold(UnusedFailed(q), q.symbols[k].file)
<1> DEFINE f == q.symbols[k].file
<1>1. SUFFICES ASSUME ~q.rootMissing, ~FileTold(UnusedFailed(q), f)
               PROVE  k \in UnusedKeys(q)
    OBVIOUS
<1>2. f \in Targets(q).files
  <2>1. f \in Targets(q).files \/ <<"resolve", f>> \in UnusedFailed(q)
      BY <1>1, ScopeTargeted DEF UnusedFailed
  <2>2. QED  BY <1>1, <2>1 DEF FileTold
<1>3. f \in Opened(q)
  <2>1. f \in Opened(q) \/ <<"open", f>> \in UnusedFailed(q)
      BY <1>2 DEF UnusedFailed
  <2>2. QED  BY <1>1, <2>1 DEF FileTold
<1>4. k \in Surface(q, Opened(q))
    BY <1>3 DEF Surface
<1>5. UnreferencedElsewhere(q.symbols[k])
    BY DEF UnreferencedElsewhere
<1>6. QED  BY <1>4, <1>5 DEF UnusedKeys

\* The diagnostics of a file of the scope are in the scan or told.
LEMMA DiagnosticsTold ==
    ASSUME NEW q, ScanQuestion(q), NEW f \in Scope(q), <<"diagnostics", f>> \notin DeadFailed(q)
    PROVE  \/ q.rootMissing \/ FileTold(DeadFailed(q), f)
           \/ q.files[f].diagnosed.ok /\ ToSet(q.files[f].diagnosed.found) \subseteq DeadKeys(q)
<1>1. SUFFICES ASSUME ~q.rootMissing, ~FileTold(DeadFailed(q), f)
               PROVE  q.files[f].diagnosed.ok /\ ToSet(q.files[f].diagnosed.found) \subseteq DeadKeys(q)
    OBVIOUS
<1>2. f \in Targets(q).files
  <2>1. f \in Targets(q).files \/ <<"resolve", f>> \in DeadFailed(q)
      BY <1>1, ScopeTargeted DEF DeadFailed
  <2>2. QED  BY <1>1, <2>1 DEF FileTold
<1>3. q.files[f].diagnosed.ok
    BY <1>2 DEF DeadFailed
<1>4. ToSet(q.files[f].diagnosed.found) \subseteq FlaggedBy(q)
    BY <1>2, <1>3 DEF FlaggedBy
<1>5. QED  BY <1>3, <1>4 DEF DeadKeys

\* Nothing is found under a root that is missing.
LEMMA NothingUnderNoRoot ==
    ASSUME NEW q, q.rootMissing
    PROVE  DeadKeys(q) = {}
<1>1. Targets(q).files = {}
    BY DEF Targets
<1>2. QED  BY <1>1 DEF DeadKeys, FlaggedBy, Declared

\* A scan calls unused what has no use, tells what it could not see, and its
\* pages fit together.
LEMMA ScansAreHonest ==
    ASSUME NEW q, ScanQuestion(q)
    PROVE  ScansHonest(q)
<1> DEFINE all == WholeScan(q)
           next == NextScan(q)
           dead == DeadCode(all)
           unused == UnusedSymbols(all)
           flagged == UNION {ToSet(q.files[f].diagnosed.found) : f \in DOMAIN q.files}
<1>1. /\ SameScan(q, q) /\ SameScan(q, all) /\ SameScan(q, next)
    BY SameScans
<1>2. /\ DeadCode(q) = Paged(DeadKeys(q), DeadFailed(q), q)
      /\ DeadCode(next) = Paged(DeadKeys(q), DeadFailed(q), next)
      /\ dead = Paged(DeadKeys(q), DeadFailed(q), all)
      /\ UnusedSymbols(q) = Paged(UnusedKeys(q), UnusedFailed(q), q)
      /\ UnusedSymbols(next) = Paged(UnusedKeys(q), UnusedFailed(q), next)
      /\ unused = Paged(UnusedKeys(q), UnusedFailed(q), all)
      /\ WorkspaceDiagnostics(q) = Paged(DiagnosedKeys(q), DiagnosedFailed(q), q)
      /\ WorkspaceDiagnostics(next) = Paged(DiagnosedKeys(q), DiagnosedFailed(q), next)
      /\ WorkspaceDiagnostics(all) = Paged(DiagnosedKeys(q), DiagnosedFailed(q), all)
    BY <1>1, ScansPaged
<1>3. /\ DeadKeys(q) \in SUBSET Nat /\ IsFiniteSet(DeadKeys(q))
      /\ UnusedKeys(q) \in SUBSET Nat /\ IsFiniteSet(UnusedKeys(q))
      /\ DiagnosedKeys(q) \in SUBSET Nat /\ IsFiniteSet(DiagnosedKeys(q))
    BY KeysFinite
<1>4. /\ ToSet(dead.items) = DeadKeys(q) /\ dead.failed = DeadFailed(q)
      /\ PagesFit(DeadCode(q), DeadCode(next), dead, q)
    BY <1>2, <1>3, PagedFits
<1>5. /\ ToSet(unused.items) = UnusedKeys(q) /\ unused.failed = UnusedFailed(q)
      /\ PagesFit(UnusedSymbols(q), UnusedSymbols(next), unused, q)
    BY <1>2, <1>3, PagedFits
<1>6. PagesFit(WorkspaceDiagnostics(q), WorkspaceDiagnostics(next), WorkspaceDiagnostics(all), q)
    BY <1>2, <1>3, PagedFits
<1> HIDE DEF flagged, all, next, dead, unused
<1> DEFINE Told(scan, k) == \/ FileTold(scan.failed, q.symbols[k].file)
                            \/ <<"references", k>> \in scan.failed
<1>7. /\ \A k \in ToSet(dead.items) \ flagged :
            q.symbols[k].refs.ok /\ ToSet(q.symbols[k].refs.found) \cap {"own", "other"} = {}
      /\ \A k \in ToSet(unused.items) :
            q.symbols[k].refs.ok /\ "other" \notin ToSet(q.symbols[k].refs.found)
    BY <1>4, <1>5, FoundUnused DEF flagged
<1>8. ASSUME NEW k \in DOMAIN q.symbols, q.symbols[k].file \in Scope(q), ~q.symbols[k].excluded
      PROVE  LET s == q.symbols[k] IN
             /\ \/ s.decorated \/ k \in ToSet(dead.items) \/ q.rootMissing
                \/ Told(dead, k)
                \/ ToSet(s.refs.found) \cap {"own", "other"} # {}
             /\ k \in ToSet(dead.items) \ flagged /\ k \in Surface(q, Scope(q)) =>
                   k \in ToSet(unused.items) \/ FileTold(unused.failed, s.file)
  <2>1. LET s == q.symbols[k] IN
        \/ s.decorated \/ k \in ToSet(dead.items) \/ q.rootMissing
        \/ Told(dead, k)
        \/ ToSet(s.refs.found) \cap {"own", "other"} # {}
      BY <1>4, <1>8, DeclaredTold
  <2>2. ASSUME k \in ToSet(dead.items) \ flagged, k \in Surface(q, Scope(q))
        PROVE  k \in ToSet(unused.items) \/ FileTold(unused.failed, q.symbols[k].file)
    <3>1. q.symbols[k].refs.ok /\ ToSet(q.symbols[k].refs.found) \cap {"own", "other"} = {}
        BY <1>7, <2>2
    <3>2. ~q.rootMissing
        BY <1>4, <2>2, NothingUnderNoRoot
    <3>3. k \in UnusedKeys(q) \/ FileTold(UnusedFailed(q), q.symbols[k].file)
        BY <1>8, <2>2, <3>1, <3>2, DeadAreSwept
    <3>4. QED  BY <1>5, <3>3
  <2>3. QED  BY <2>1, <2>2
<1>9. ASSUME NEW f \in Scope(q), <<"diagnostics", f>> \notin dead.failed
      PROVE  \/ q.rootMissing \/ FileTold(dead.failed, f)
             \/ q.files[f].diagnosed.ok
                /\ ToSet(q.files[f].diagnosed.found) \subseteq ToSet(dead.items)
    BY <1>4, <1>9, DiagnosticsTold
<1>10. all = [q EXCEPT !.limit = 0, !.offset = 0] /\ next = [q EXCEPT !.offset = @ + q.limit]
    BY DEF all, next, WholeScan, NextScan
<1>11. \A page \in {<<DeadCode(q), DeadCode(next), dead>>,
                    <<UnusedSymbols(q), UnusedSymbols(next), unused>>,
                    <<WorkspaceDiagnostics(q), WorkspaceDiagnostics(next),
                      WorkspaceDiagnostics(all)>>} : PagesFit(page[1], page[2], page[3], q)
    BY <1>4, <1>5, <1>6
<1>12. QED
    BY <1>7, <1>8, <1>9, <1>10, <1>11
    DEF ScansHonest, PagesFit, Scope, FileTold, dead, unused, flagged

-----------------------------------------------------------------------------
(* A function becomes a method, or back: what every call gives is kept *)

\* Where _pop_receiver_argument finds the receiver.
LEMMA ReceiverFound ==
    ASSUME NEW q, NEW args, Callable(args), ReceiverAt(q, args) # NoReceiver
    PROVE  LET i == ReceiverAt(q, args) IN
           /\ i \in 1..Len(args)
           /\ \/ args[i].kind = "positional" /\ i = 1
              \/ /\ ~q.positionalOnly
                 /\ args[i].kind = "keyword" /\ args[i].name = q.params[1]
<1>1. /\ args \in Seq(CallArguments) /\ Len(args) \in Nat /\ DOMAIN args = 1..Len(args)
    BY LenProperties DEF Callable
<1>2. CASE args # <<>> /\ Head(args).kind = "positional"
  <2>1. Head(args) = args[1] /\ 1 \in 1..Len(args)
      BY <1>1, <1>2, HeadTailProperties, EmptySeq
  <2>2. ReceiverAt(q, args) = 1
      BY <1>2 DEF ReceiverAt
  <2>3. QED  BY <1>2, <2>1, <2>2
<1>3. CASE ~(args # <<>> /\ Head(args).kind = "positional")
  <2> DEFINE named == {k \in 1..Len(args) : args[k].kind = "keyword" /\ args[k].name = q.params[1]}
  <2>1. ~q.positionalOnly /\ ReceiverAt(q, args) = IF named # {} THEN Min(named) ELSE 0
      BY <1>3 DEF ReceiverAt, SelectInSeq, NoReceiver
  <2>2. named # {} /\ ReceiverAt(q, args) = Min(named)
      BY <2>1 DEF NoReceiver
  <2>3. named \subseteq Nat
      BY <1>1
  <2>4. Min(named) \in named
    <3> HIDE DEF named
    <3>1. QED  BY <2>2, <2>3, Least
  <2>5. QED  BY <2>1, <2>2, <2>4
<1>4. QED  BY <1>2, <1>3

\* What an argument given by position looks like.
LEMMA PositionalValue ==
    ASSUME NEW v
    PROVE  /\ Positional(v).kind = "positional"
           /\ Positional(v).values = <<v>> /\ Positional(v).values[1] = v
           /\ DOMAIN Positional(v).values = {1}
<1>1. Positional(v).kind = "positional" /\ Positional(v).values = <<v>>
    BY DEF Positional
<1>2. <<v>>[1] = v /\ DOMAIN <<v>> = {1}
    OBVIOUS
<1>3. QED  BY <1>1, <1>2

\* The receiver before the other arguments.
LEMMA ReceiverFirst ==
    ASSUME NEW args, Callable(args), NEW i \in 1..Len(args), args[i].kind # "star"
    PROVE  LET moved == <<Positional(args[i].values[1])>> \o RemoveAt(args, i) IN
           /\ moved \in Seq(CallArguments) /\ Len(moved) = Len(args)
           /\ DOMAIN moved = 1..Len(args) /\ DOMAIN args = 1..Len(args) /\ Len(args) \in Nat
           /\ moved[1] = Positional(args[i].values[1])
           /\ Positional(args[i].values[1]) \in CallArguments
           /\ \A k \in 2..Len(args) : moved[k] = args[IF k <= i THEN k - 1 ELSE k]
<1> DEFINE first == Positional(args[i].values[1])
           rest == RemoveAt(args, i)
           moved == <<first>> \o rest
<1>1. /\ args \in Seq(CallArguments) /\ Len(args) \in Nat /\ DOMAIN args = 1..Len(args)
      /\ \A k \in 1..Len(args) : args[k] \in CallArguments
    BY LenProperties, ElementOfSeq DEF Callable
<1>2. Len(args[i].values) = 1 /\ args[i].values \in Seq(Nat)
    BY <1>1 DEF Callable, CallArguments
<1>3. args[i].values[1] \in Nat
    BY <1>2, ElementOfSeq
<1>4. first \in CallArguments
  <2>1. ASSUME NEW v \in Nat PROVE Positional(v) \in CallArguments
    <3>1. <<v>> \in Seq(Nat)
        OBVIOUS
    <3>2. "" \in STRING \cup {""} /\ "positional" \in {"positional", "keyword", "star"}
        OBVIOUS
    <3>3. QED  BY <3>1, <3>2 DEF Positional, CallArguments
  <2>2. QED  BY <1>3, <2>1
<1>5. /\ rest \in Seq(CallArguments) /\ Len(rest) = Len(args) - 1
      /\ \A k \in 1..(Len(args) - 1) : rest[k] = args[IF k < i THEN k ELSE k + 1]
    BY <1>1, Removed
<1> HIDE DEF first, rest
<1> DEFINE one == <<first>>
<1>6. one \in Seq(CallArguments) /\ Len(one) = 1 /\ one[1] = first
    BY <1>4
<1> HIDE DEF one
<1>7. /\ one \o rest \in Seq(CallArguments) /\ Len(one \o rest) = Len(args)
      /\ \A k \in 1..Len(args) : (one \o rest)[k] = IF k <= 1 THEN first ELSE rest[k - 1]
  <2>1. /\ one \o rest \in Seq(CallArguments) /\ Len(one \o rest) = Len(one) + Len(rest)
        /\ \A k \in 1..(Len(one) + Len(rest)) :
              (one \o rest)[k] = IF k <= Len(one) THEN one[k] ELSE rest[k - Len(one)]
      BY <1>5, <1>6, ConcatProperties
  <2>2. 1 + (Len(args) - 1) = Len(args)
      BY <1>1
  <2>3. \A k \in 1..Len(args) : k <= 1 => one[k] = first
      BY <1>1, <1>6
  <2>4. \A k \in 1..Len(args) : (one \o rest)[k] = IF k <= 1 THEN one[k] ELSE rest[k - 1]
      BY <1>5, <1>6, <2>1, <2>2
  <2>5. QED  BY <1>5, <1>6, <2>1, <2>2, <2>3, <2>4
<1>8. /\ moved \in Seq(CallArguments) /\ Len(moved) = Len(args)
      /\ DOMAIN moved = 1..Len(args)
      /\ \A k \in 1..Len(args) : moved[k] = IF k <= 1 THEN first ELSE rest[k - 1]
    BY <1>7, LenProperties DEF one
<1> HIDE DEF moved
<1>9. moved[1] = first
    BY <1>1, <1>8
<1>10. ASSUME NEW k \in 2..Len(args)
       PROVE  moved[k] = args[IF k <= i THEN k - 1 ELSE k]
  <2>1. k \in 1..Len(args) /\ ~(k <= 1) /\ k - 1 \in 1..(Len(args) - 1)
      BY <1>1
  <2>2. moved[k] = args[IF k - 1 < i THEN k - 1 ELSE (k - 1) + 1]
      BY <1>5, <1>8, <2>1
  <2>3. (k - 1 < i <=> k <= i) /\ (k - 1) + 1 = k
      BY <1>1
  <2>4. QED  BY <2>2, <2>3
<1>11. QED  BY <1>1, <1>4, <1>8, <1>9, <1>10 DEF first, rest, moved

\* A list of one item.
LEMMA OnlyItem ==
    ASSUME NEW S, NEW s \in Seq(S), Len(s) = 1
    PROVE  s = <<s[1]>>
<1>1. s[1] \in S
    BY ElementOfSeq
<1>2. <<s[1]>> \in Seq(S) /\ Len(<<s[1]>>) = 1 /\ <<s[1]>>[1] = s[1]
    BY <1>1
<1> DEFINE t == <<s[1]>>
<1>3. t \in Seq(S) /\ Len(t) = 1 /\ t[1] = s[1]
    BY <1>2
<1> HIDE DEF t
<1>4. \A k \in 1..Len(s) : s[k] = t[k]
    BY <1>3
<1>5. s = t
    BY <1>3, <1>4, SeqEqual
<1>6. QED  BY <1>5 DEF t

\* A call whose first argument is its receiver is the same call.
LEMMA SameCall ==
    ASSUME NEW args, Callable(args), NEW i \in 1..Len(args), i = 1, args[i].kind = "positional"
    PROVE  <<Positional(args[i].values[1])>> \o RemoveAt(args, i) = args
<1> DEFINE moved == <<Positional(args[i].values[1])>> \o RemoveAt(args, i)
<1>1. /\ moved \in Seq(CallArguments) /\ Len(moved) = Len(args)
      /\ DOMAIN args = 1..Len(args) /\ Len(args) \in Nat
      /\ moved[1] = Positional(args[i].values[1])
      /\ \A k \in 2..Len(args) : moved[k] = args[IF k <= i THEN k - 1 ELSE k]
    BY ReceiverFirst
<1>2. args \in Seq(CallArguments) /\ args[1] \in CallArguments
    BY ElementOfSeq DEF Callable
<1>3. Positional(args[1].values[1]) = args[1]
  <2>1. args[1].values \in Seq(Nat) /\ Len(args[1].values) = 1 /\ args[1].name = ""
      BY <1>1, <1>2 DEF Callable, CallArguments
  <2>2. args[1].values = <<args[1].values[1]>>
      BY <2>1, OnlyItem
  <2>3. args[1] = [kind |-> args[1].kind, name |-> args[1].name, values |-> args[1].values]
      BY <1>2 DEF CallArguments
  <2>4. QED  BY <2>1, <2>2, <2>3 DEF Positional
<1> HIDE DEF moved
<1>4. \A k \in 1..Len(args) : moved[k] = args[k]
  <2>1. TAKE k \in 1..Len(args)
  <2>2. CASE k = 1
      BY <1>1, <1>3, <2>2
  <2>3. CASE k # 1
    <3>1. k \in 2..Len(args) /\ ~(k <= i)
        BY <1>1, <2>3
    <3>2. QED  BY <1>1, <3>1
  <2>4. QED  BY <2>2, <2>3
<1>5. moved = args
    BY <1>1, <1>2, <1>4, SeqEqual
<1>6. QED  BY <1>5 DEF moved

\* What a call gives by keyword.
ByKeyword(args) == {<<a.name, a.values[1]>> : a \in {b \in ToSet(args) : b.kind = "keyword"}}

\* What Binding makes of what is given by position and by keyword.
Bound(q, args, positions) ==
    LET taken == {b[1] : b \in positions} \cup (IF q.positionalOnly THEN {q.params[1]} ELSE {})
        all == positions \cup ByKeyword(args)
    IN IF /\ Cardinality(ByPosition(args)) <= Len(q.params)
          /\ \A b \in ByKeyword(args) : b[1] \in ToSet(q.params) \ taken
          /\ \E b \in all : b[1] = q.params[1]
       THEN all ELSE {}

Placed(q, args) ==
    {<<q.params[Position(args, s)], args[s[1]].values[s[2]]>> :
     s \in {r \in ByPosition(args) : Position(args, r) <= Len(q.params)}}

LEMMA BindingSplit ==
    ASSUME NEW q, NEW args
    PROVE  Binding(q, args) = Bound(q, args, Placed(q, args))
BY DEF Binding, Bound, Placed, ByKeyword

\* Some value given by position is the first one.
LEMMA FirstByPosition ==
    ASSUME NEW args, Callable(args), ByPosition(args) # {}
    PROVE  \E s \in ByPosition(args) : Position(args, s) = 1
<1>1. DOMAIN args = 1..Len(args) /\ Len(args) \in Nat /\ \A k \in 1..Len(args) : args[k] \in CallArguments
    BY LenProperties, ElementOfSeq DEF Callable
<1> DEFINE I == {k \in 1..Len(args) : args[k].kind # "keyword" /\ DOMAIN args[k].values # {}}
<1>2. I \subseteq Nat /\ I # {}
  <2>1. I \subseteq Nat
      BY <1>1
  <2>2. PICK k \in DOMAIN args : args[k].kind # "keyword" /\ \E i \in DOMAIN args[k].values : TRUE
      BY DEF ByPosition
  <2>3. k \in I
      BY <1>1, <2>2
  <2>4. QED  BY <2>1, <2>3
<1> HIDE DEF I
<1>3. PICK k \in I : \A j \in I : k <= j
    BY <1>2, LeastNumber
<1> USE DEF I
<1>4. DOMAIN args[k].values = 1..Len(args[k].values) /\ Len(args[k].values) \in Nat
  <2>1. args[k].values \in Seq(Nat)
      BY <1>1 DEF CallArguments
  <2>2. QED  BY <2>1, LenProperties
<1>5. 1 \in DOMAIN args[k].values
    BY <1>4
<1> DEFINE s == <<k, 1>>
<1>6. s \in ByPosition(args)
    BY <1>1, <1>5 DEF ByPosition
<1>7. ASSUME NEW r \in ByPosition(args), r[1] < s[1] \/ (r[1] = s[1] /\ r[2] <= s[2])
      PROVE  r = s
  <2>1. PICK j \in DOMAIN args :
            args[j].kind # "keyword" /\ \E i \in DOMAIN args[j].values : r = <<j, i>>
      BY DEF ByPosition
  <2>2. PICK i \in DOMAIN args[j].values : r = <<j, i>>
      BY <2>1
  <2>3. j \in I
      BY <1>1, <2>1
  <2>4. j \in Nat /\ k \in Nat /\ k <= j
      BY <1>2, <1>3, <2>3
  <2>5. j = k /\ i <= 1
      BY <1>7, <2>2, <2>4
  <2>6. i = 1
      BY <1>4, <2>2, <2>5
  <2>7. QED  BY <2>2, <2>5, <2>6
<1>8. {r \in ByPosition(args) : r[1] < s[1] \/ (r[1] = s[1] /\ r[2] <= s[2])} = {s}
  <2>1. s[1] = k /\ s[2] = 1 /\ k \in Nat
      BY <1>2
  <2>2. s[2] <= s[2]
      BY <2>1
  <2>3. QED  BY <1>6, <1>7, <2>2
<1>9. Position(args, s) = 1
    BY <1>8, FS_Singleton DEF Position
<1>10. QED  BY <1>6, <1>9

\* A call that gives its first parameter by keyword gives nothing by position.
LEMMA NothingByPosition ==
    ASSUME NEW q, q.params \in Seq(STRING), q.params # <<>>,
           NEW args, Callable(args), Binding(q, args) # {},
           NEW i \in DOMAIN args, args[i].kind = "keyword", args[i].name = q.params[1]
    PROVE  /\ ByPosition(args) = {}
           /\ Binding(q, args) = ByKeyword(args)
           /\ \A b \in ByKeyword(args) : b[1] \in ToSet(q.params)
<1>1. Len(q.params) \in Nat /\ 1 <= Len(q.params)
    BY EmptySeq, LenProperties
<1>2. <<q.params[1], args[i].values[1]>> \in ByKeyword(args)
    BY DEF ByKeyword, ToSet
<1> DEFINE positions == Placed(q, args)
           taken == {b[1] : b \in positions} \cup (IF q.positionalOnly THEN {q.params[1]} ELSE {})
<1>3. /\ Binding(q, args) = positions \cup ByKeyword(args)
      /\ \A b \in ByKeyword(args) : b[1] \in ToSet(q.params) \ taken
    BY BindingSplit DEF Bound
<1>4. q.params[1] \notin taken
    BY <1>2, <1>3
<1>5. ByPosition(args) = {}
  <2>1. SUFFICES ASSUME ByPosition(args) # {} PROVE FALSE
      OBVIOUS
  <2>2. PICK s \in ByPosition(args) : Position(args, s) = 1
      BY <2>1, FirstByPosition
  <2>3. <<q.params[1], args[s[1]].values[s[2]]>> \in positions
      BY <1>1, <2>2 DEF Placed
  <2>4. QED  BY <1>4, <2>3
<1>6. positions = {}
    BY <1>5 DEF Placed
<1>7. QED  BY <1>3, <1>5, <1>6

\* Such a call may give its receiver first instead.
LEMMA KeywordCall ==
    ASSUME NEW q, q.params \in Seq(STRING), q.params # <<>>, ~q.positionalOnly,
           NEW args, Callable(args), Binding(q, args) # {},
           NEW i \in 1..Len(args), args[i].kind = "keyword", args[i].name = q.params[1]
    PROVE  Binding(q, <<Positional(args[i].values[1])>> \o RemoveAt(args, i)) = Binding(q, args)
<1> DEFINE v == args[i].values[1]
           moved == <<Positional(v)>> \o RemoveAt(args, i)
<1>1. /\ moved \in Seq(CallArguments) /\ Len(moved) = Len(args)
      /\ DOMAIN moved = 1..Len(args) /\ DOMAIN args = 1..Len(args) /\ Len(args) \in Nat
      /\ moved[1] = Positional(v)
      /\ \A k \in 2..Len(args) : moved[k] = args[IF k <= i THEN k - 1 ELSE k]
    BY ReceiverFirst
<1>2. /\ ByPosition(args) = {}
      /\ Binding(q, args) = ByKeyword(args)
      /\ \A b \in ByKeyword(args) : b[1] \in ToSet(q.params)
    BY <1>1, NothingByPosition
<1>3. Len(q.params) \in Nat /\ 1 <= Len(q.params)
    BY EmptySeq, LenProperties
<1> HIDE DEF moved
<1>4. ASSUME NEW k \in 2..Len(args)
      PROVE  \E j \in 1..Len(args) : j # i /\ moved[k] = args[j]
  <2>1. (IF k <= i THEN k - 1 ELSE k) \in 1..Len(args) /\ (IF k <= i THEN k - 1 ELSE k) # i
      BY <1>1
  <2>2. QED  BY <1>1, <2>1
<1>5. ASSUME NEW j \in 1..Len(args), j # i
      PROVE  \E k \in 2..Len(args) : moved[k] = args[j]
  <2>1. CASE j < i
    <3>1. j + 1 \in 2..Len(args) /\ j + 1 <= i /\ (j + 1) - 1 = j
        BY <1>1, <2>1
    <3>2. QED  BY <1>1, <3>1
  <2>2. CASE ~(j < i)
    <3>1. j \in 2..Len(args) /\ ~(j <= i)
        BY <1>1, <1>5, <2>2
    <3>2. QED  BY <1>1, <3>1
  <2>3. QED  BY <2>1, <2>2
<1>6. ByPosition(moved) = {<<1, 1>>}
  <2>1. moved[1].kind = "positional"
      BY <1>1, PositionalValue
  <2>2. DOMAIN moved[1].values = {1}
      BY <1>1, PositionalValue
  <2>3. 1 \in DOMAIN moved
      BY <1>1
  <2>4. <<1, 1>> \in ByPosition(moved)
    <3>1. 1 \in {j \in DOMAIN moved : moved[j].kind # "keyword"}
        BY <2>1, <2>3
    <3>2. <<1, 1>> \in {<<1, n>> : n \in DOMAIN moved[1].values}
        BY <2>2
    <3>3. QED  BY <3>1, <3>2 DEF ByPosition
  <2>5. ASSUME NEW s \in ByPosition(moved) PROVE s = <<1, 1>>
    <3>1. PICK k \in DOMAIN moved : moved[k].kind # "keyword" /\ \E n \in DOMAIN moved[k].values : s = <<k, n>>
        BY DEF ByPosition
    <3>2. CASE k = 1
        BY <2>2, <3>1, <3>2
    <3>3. CASE k # 1
      <4>1. k \in 2..Len(args)
          BY <1>1, <3>3
      <4>2. PICK j \in 1..Len(args) : moved[k] = args[j]
          BY <1>4, <4>1
      <4>3. PICK n \in DOMAIN args[j].values : TRUE
          BY <3>1, <4>2
      <4>4. <<j, n>> \in ByPosition(args)
          BY <1>1, <3>1, <4>2 DEF ByPosition
      <4>5. QED  BY <1>2, <4>4
    <3>4. QED  BY <3>2, <3>3
  <2>6. QED  BY <2>4, <2>5
<1>7. Cardinality(ByPosition(moved)) = 1 /\ Position(moved, <<1, 1>>) = 1
  <2>1. Cardinality({<<1, 1>>}) = 1
      BY FS_Singleton
  <2> DEFINE one == <<1, 1>>
  <2>2. one[1] = 1 /\ one[2] = 1
      OBVIOUS
  <2>3. {r \in {one} : r[1] < one[1] \/ (r[1] = one[1] /\ r[2] <= one[2])} = {one}
      BY <2>2
  <2>4. QED  BY <1>6, <2>1, <2>3 DEF Position
<1>8. Placed(q, moved) = {<<q.params[1], v>>}
  <2>1. {r \in ByPosition(moved) : Position(moved, r) <= Len(q.params)} = {<<1, 1>>}
      BY <1>3, <1>6, <1>7
  <2>2. moved[1].values[1] = v
      BY <1>1, PositionalValue
  <2> DEFINE one == <<1, 1>>
  <2>3. one[1] = 1 /\ one[2] = 1
      OBVIOUS
  <2>4. Placed(q, moved) = {<<q.params[Position(moved, s)], moved[s[1]].values[s[2]]>> : s \in {one}}
      BY <2>1 DEF Placed
  <2>5. Placed(q, moved) = {<<q.params[Position(moved, one)], moved[one[1]].values[one[2]]>>}
      BY <2>4
  <2>6. QED  BY <1>7, <2>2, <2>3, <2>5
<1>9. ByKeyword(moved) = ByKeyword(args) \ {<<q.params[1], v>>}
  <2>1. ASSUME NEW b \in ByKeyword(moved)
        PROVE  b \in ByKeyword(args) /\ b[1] # q.params[1]
    <3>1. PICK k \in 1..Len(args) : moved[k].kind = "keyword" /\ b = <<moved[k].name, moved[k].values[1]>>
        BY <1>1 DEF ByKeyword, ToSet
    <3>2. k \in 2..Len(args)
      <4>1. moved[1].kind # "keyword"
          BY <1>1, PositionalValue
      <4>2. QED  BY <1>1, <3>1, <4>1
    <3>3. PICK j \in 1..Len(args) : j # i /\ moved[k] = args[j]
        BY <1>4, <3>2
    <3>4. args[j].name # q.params[1]
        BY <1>1, <3>1, <3>3 DEF Callable
    <3>5. args[j] \in ToSet(args)
        BY <1>1 DEF ToSet
    <3>6. b[1] = args[j].name
        BY <3>1, <3>3
    <3>7. QED  BY <3>1, <3>3, <3>4, <3>5, <3>6 DEF ByKeyword
  <2>2. ASSUME NEW b \in ByKeyword(args), b # <<q.params[1], v>>
        PROVE  b \in ByKeyword(moved)
    <3>1. PICK j \in 1..Len(args) : args[j].kind = "keyword" /\ b = <<args[j].name, args[j].values[1]>>
        BY <1>1 DEF ByKeyword, ToSet
    <3>2. j # i
        BY <2>2, <3>1
    <3>3. PICK k \in 2..Len(args) : moved[k] = args[j]
        BY <1>5, <3>2
    <3>4. k \in DOMAIN moved
        BY <1>1
    <3>5. args[j] \in ToSet(moved)
        BY <3>3, <3>4 DEF ToSet
    <3>6. QED  BY <3>1, <3>5 DEF ByKeyword
  <2>3. ASSUME NEW b \in ByKeyword(moved) PROVE b # <<q.params[1], v>>
      BY <2>1, <2>3
  <2>4. QED  BY <2>1, <2>2, <2>3
<1>10. <<q.params[1], v>> \in ByKeyword(args)
    BY <1>1 DEF ByKeyword, ToSet
<1>11. \A b \in ByKeyword(moved) : b[1] \in ToSet(q.params) \ {q.params[1]}
  <2>1. ASSUME NEW b \in ByKeyword(moved) PROVE b[1] # q.params[1]
    <3>1. PICK k \in 1..Len(args) : moved[k].kind = "keyword" /\ b = <<moved[k].name, moved[k].values[1]>>
        BY <1>1 DEF ByKeyword, ToSet
    <3>2. k \in 2..Len(args)
      <4>1. moved[1].kind # "keyword"
          BY <1>1, PositionalValue
      <4>2. QED  BY <1>1, <3>1, <4>1
    <3>3. PICK j \in 1..Len(args) : j # i /\ moved[k] = args[j]
        BY <1>4, <3>2
    <3>4. args[j].name # q.params[1]
        BY <1>1, <3>1, <3>3 DEF Callable
    <3>5. QED  BY <3>1, <3>3, <3>4
  <2>2. QED  BY <1>2, <1>9, <2>1
<1>12. Bound(q, moved, {<<q.params[1], v>>}) = ByKeyword(args)
  <2> DEFINE given == <<q.params[1], v>>
  <2>1. {b[1] : b \in {given}} \cup (IF q.positionalOnly THEN {q.params[1]} ELSE {}) = {q.params[1]}
      OBVIOUS
  <2>2. {given} \cup ByKeyword(moved) = ByKeyword(args)
      BY <1>9, <1>10
  <2>3. given[1] = q.params[1]
      OBVIOUS
  <2>4. \E b \in {given} \cup ByKeyword(moved) : b[1] = q.params[1]
      BY <2>3
  <2> HIDE DEF given
  <2>5. Bound(q, moved, {given}) = ByKeyword(args)
      BY <1>3, <1>7, <1>11, <2>1, <2>2, <2>4 DEF Bound
  <2>6. QED  BY <2>5 DEF given
<1>13. Binding(q, moved) = ByKeyword(args)
    BY <1>8, <1>12, BindingSplit
<1>14. QED  BY <1>2, <1>13 DEF moved

\* Every use that is rewritten gives what it gave.
LEMMA CallsAreKept ==
    ASSUME NEW q, q \in Converted, q.tool = "function"
    PROVE  CallsKept(q, ConvertFunction(q))
<1> DEFINE Replaced(use) == IF q.to = "method" THEN AsMethodCall(q, use) ELSE AsFunctionCall(q, use)
           calls == [k \in DOMAIN q.uses |-> Replaced(q.uses[k])]
<1>1. SUFFICES ASSUME ConvertFunction(q) = [error |-> FALSE, calls |-> calls],
                      Rewritable(q), \A k \in DOMAIN calls : ~calls[k].error
               PROVE  CallsKept(q, ConvertFunction(q))
  <2>1. \/ ConvertFunction(q) = Refusal
        \/ /\ ConvertFunction(q) = [error |-> FALSE, calls |-> calls]
           /\ Rewritable(q) /\ \A k \in DOMAIN calls : ~calls[k].error
      BY DEF ConvertFunction
  <2>2. CASE ConvertFunction(q) = Refusal
      BY <2>2 DEF CallsKept, Refusal
  <2>3. QED  BY <2>1, <2>2
<1>2. /\ q.params \in Seq(STRING) /\ q.params # <<>>
      /\ \A k \in DOMAIN q.uses : Callable(q.uses[k].args)
    BY ConvertedAssumption
<1>3. ASSUME NEW k \in DOMAIN q.uses
      PROVE  /\ q.uses[k].own /\ q.uses[k].shape # "other"
             /\ Passed(q, q.uses[k]) # {} => Passed(q, calls[k]) = Passed(q, q.uses[k])
  <2> DEFINE use == q.uses[k]
  <2>1. /\ use.own
        /\ use.shape \in (IF q.to = "method" THEN {"name"} ELSE {"bound", "unbound"})
      BY <1>1 DEF Rewritable
  <2>2. calls[k] = Replaced(use) /\ ~Replaced(use).error /\ Callable(use.args)
      BY <1>1, <1>2
  <2>3. ASSUME q.to = "method", Passed(q, use) # {}
        PROVE  Passed(q, Replaced(use)) = Passed(q, use)
    <3> DEFINE i == ReceiverAt(q, use.args)
    <3>1. Passed(q, use) = Binding(q, use.args)
        BY <2>1, <2>3 DEF Passed
    <3>2. AsMethodCall(q, use) = Replaced(use)
        BY <2>3
    <3>3. /\ i # NoReceiver
          /\ Replaced(use) = [error |-> FALSE, shape |-> "bound", on |-> use.args[i].values[1],
                               args |-> RemoveAt(use.args, i)]
        BY <2>2, <3>2 DEF AsMethodCall, Refusal
    <3>4. Passed(q, Replaced(use)) =
             Binding(q, <<Positional(use.args[i].values[1])>> \o RemoveAt(use.args, i))
        BY <3>3 DEF Passed
    <3>5. /\ i \in 1..Len(use.args)
          /\ \/ use.args[i].kind = "positional" /\ i = 1
             \/ /\ ~q.positionalOnly
                /\ use.args[i].kind = "keyword" /\ use.args[i].name = q.params[1]
        BY <2>2, <3>3, ReceiverFound
    <3> HIDE DEF i, use, calls
    <3>6. CASE use.args[i].kind = "positional" /\ i = 1
      <4>1. <<Positional(use.args[i].values[1])>> \o RemoveAt(use.args, i) = use.args
          BY <2>2, <3>5, <3>6, SameCall
      <4>2. QED  BY <3>1, <3>4, <4>1
    <3>7. CASE ~q.positionalOnly /\ use.args[i].kind = "keyword" /\ use.args[i].name = q.params[1]
      <4>1. Binding(q, use.args) # {}
          BY <2>3, <3>1
      <4>2. Binding(q, <<Positional(use.args[i].values[1])>> \o RemoveAt(use.args, i)) = Binding(q, use.args)
          BY <1>2, <2>2, <3>5, <3>7, <4>1, KeywordCall
      <4>3. QED  BY <3>1, <3>4, <4>2
    <3>8. QED  BY <3>5, <3>6, <3>7
  <2>4. ASSUME q.to # "method"
        PROVE  Passed(q, Replaced(use)) = Passed(q, use)
    <3>1. AsFunctionCall(q, use) = Replaced(use)
        BY <2>4
    <3>2. CASE use.shape = "bound"
      <4> DEFINE passed == <<Positional(use.on)>> \o use.args
      <4>1. AsFunctionCall(q, use) = [error |-> FALSE, shape |-> "name", on |-> use.on, args |-> passed]
          BY <3>2 DEF AsFunctionCall
      <4>2. Passed(q, use) = Binding(q, passed)
          BY <3>2 DEF Passed
      <4> HIDE DEF use, calls, passed
      <4>3. Replaced(use).shape = "name" /\ Replaced(use).args = passed
          BY <3>1, <4>1
      <4> HIDE DEF Replaced
      <4>4. Passed(q, Replaced(use)) = Binding(q, passed)
          BY <4>3 DEF Passed
      <4>5. QED  BY <4>2, <4>4
    <3>3. CASE use.shape = "unbound"
      <4>1. AsFunctionCall(q, use) = [error |-> FALSE, shape |-> "name", on |-> use.on, args |-> use.args]
        <5>1. AsFunctionCall(q, use) = IF use.args = <<>> THEN Refusal
                  ELSE [error |-> FALSE, shape |-> "name", on |-> use.on, args |-> use.args]
            BY <3>3 DEF AsFunctionCall
        <5>2. Refusal.error
            BY DEF Refusal
        <5>3. QED  BY <2>2, <3>1, <5>1, <5>2
      <4> HIDE DEF use, calls
      <4>2. Replaced(use).shape = "name" /\ Replaced(use).args = use.args
          BY <3>1, <4>1
      <4> HIDE DEF Replaced
      <4>3. Passed(q, Replaced(use)) = Binding(q, use.args)
          BY <4>2 DEF Passed
      <4>4. Passed(q, use) = Binding(q, use.args)
          BY <3>3 DEF Passed
      <4>5. QED  BY <4>3, <4>4
    <3>4. QED  BY <2>1, <2>4, <3>2, <3>3
  <2>5. use.shape # "other"
      BY <2>1
  <2>6. QED  BY <2>1, <2>2, <2>3, <2>4, <2>5
<1> HIDE DEF calls
<1>4. QED  BY <1>1, <1>3 DEF CallsKept

-----------------------------------------------------------------------------
(* Members of a class move to a collaborator *)

\* Every member goes to the collaborator, as a field or as a method.
LEMMA MembersMove ==
    ASSUME NEW q, Extractable(q)
    PROVE  LET r == ExtractClass(q) IN
           /\ r.fields \cup r.methods = q.members
           /\ r.fields \cap r.methods = {}
           /\ \A m \in r.methods : MovesMethod(q, m)
<1> DEFINE fields == {m \in q.members : SetIn(q, m) # {}}
           methods == {m \in q.members : MethodsOf(q, m) # {}}
<1>1. ExtractClass(q).fields = fields /\ ExtractClass(q).methods = methods
    BY DEF ExtractClass
<1>2. ASSUME NEW m \in q.members
      PROVE  \/ m \in fields /\ m \notin methods
             \/ m \in methods /\ m \notin fields /\ MovesMethod(q, m)
  <2>1. CASE MovesField(q, m)
    <3>1. SetIn(q, m) # {} /\ MethodsOf(q, m) = {}
        BY <2>1, FS_EmptySet DEF MovesField
    <3>2. QED  BY <3>1
  <2>2. CASE MovesMethod(q, m)
    <3>1. MethodsOf(q, m) # {} /\ SetIn(q, m) = {}
        BY <2>2, FS_EmptySet DEF MovesMethod
    <3>2. QED  BY <2>2, <3>1
  <2>3. QED  BY <2>1, <2>2 DEF Extractable
<1>3. fields \subseteq q.members /\ methods \subseteq q.members
    OBVIOUS
<1> HIDE DEF fields, methods
<1>4. QED  BY <1>1, <1>2, <1>3

\* The collaborator is created before the first statement that needs a member.
LEMMA CollaboratorFirst ==
    ASSUME NEW q, NEW S, q.init \in Seq(S), Creation(q) \in S, Extractable(q)
    PROVE  LET r == ExtractClass(q) IN
           \A k \in DOMAIN r.init :
               r.init[k].touches \cap q.members # {} => \E j \in 1..(k - 1) : r.init[j] = Creation(q)
<1> DEFINE needs == {k \in 1..Len(q.init) : q.init[k].touches \cap q.members # {}}
           p == IF FirstRelevant(q) = 0 THEN 1 ELSE FirstRelevant(q)
           made == Creation(q)
           init == InsertAt(q.init, p, made)
<1>1. ExtractClass(q).init = init
    BY DEF ExtractClass
<1>2. FirstRelevant(q) = IF needs # {} THEN Min(needs) ELSE 0
    BY DEF FirstRelevant, SelectInSeq
<1>3. Len(q.init) \in Nat
    BY LenProperties
<1>4. needs \subseteq Nat
    BY <1>3
<1>5. needs # {} => Min(needs) \in needs /\ \A j \in needs : Min(needs) <= j
  <2> HIDE DEF needs
  <2>1. QED  BY <1>4, Least
<1>6. p \in 1..(Len(q.init) + 1) /\ \A k \in needs : p <= k
  <2>1. CASE needs = {}
    <3>1. FirstRelevant(q) = 0
        BY <1>2, <2>1
    <3>2. p = 1
        BY <3>1
    <3> HIDE DEF needs, p
    <3>3. QED  BY <1>3, <2>1, <3>2
  <2>2. CASE needs # {}
    <3>1. FirstRelevant(q) \in needs /\ \A j \in needs : FirstRelevant(q) <= j
        BY <1>2, <1>5, <2>2
    <3>2. FirstRelevant(q) \in 1..Len(q.init) /\ FirstRelevant(q) # 0
        BY <1>3, <3>1
    <3>3. p = FirstRelevant(q)
        BY <3>2
    <3> HIDE DEF needs, p
    <3>4. QED  BY <1>3, <3>1, <3>2, <3>3
  <2>3. QED  BY <2>1, <2>2
<1>7. made.touches = {} /\ made \in S
    BY DEF Creation
<1> HIDE DEF p, made
<1>8. /\ init \in Seq(S) /\ Len(init) = Len(q.init) + 1
      /\ \A k \in 1..(Len(q.init) + 1) :
            init[k] = IF k = p THEN made ELSE q.init[IF k < p THEN k ELSE k - 1]
    BY <1>6, <1>7, Inserted
<1>9. DOMAIN init = 1..(Len(q.init) + 1)
    BY <1>8, LenProperties
<1> HIDE DEF init
<1>10. ASSUME NEW k \in DOMAIN init, init[k].touches \cap q.members # {}
       PROVE  \E j \in 1..(k - 1) : init[j] = made
  <2>1. k # p
      BY <1>7, <1>8, <1>9, <1>10
  <2>2. ~(k < p)
    <3>1. SUFFICES ASSUME k < p PROVE FALSE
        OBVIOUS
    <3>2. k \in 1..Len(q.init) /\ init[k] = q.init[k]
        BY <1>3, <1>6, <1>8, <1>9, <2>1, <3>1
    <3>3. k \in needs
        BY <1>10, <3>2
    <3>4. QED  BY <1>3, <1>6, <1>9, <3>1, <3>3
  <2>3. p \in 1..(k - 1) /\ p \in 1..(Len(q.init) + 1)
      BY <1>3, <1>6, <1>9, <2>1, <2>2
  <2>4. init[p] = made
      BY <1>8, <2>3
  <2>5. QED  BY <2>3, <2>4
<1>11. QED  BY <1>1, <1>10 DEF made

\* What moves to the collaborator finds there what it uses.
LEMMA MembersAreFound ==
    ASSUME NEW q, q \in Converted, q.tool = "extract"
    PROVE  MembersFound(q, ExtractClass(q))
<1> DEFINE r == ExtractClass(q)
           S == [sets : SUBSET STRING, touches : SUBSET STRING] \cup {Creation(q)}
<1>1. CASE ~Extractable(q)
    BY <1>1 DEF ExtractClass, MembersFound, Refusal
<1>2. CASE Extractable(q)
  <2>1. /\ r.fields \cup r.methods = q.members
        /\ r.fields \cap r.methods = {}
        /\ \A m \in r.methods : MovesMethod(q, m)
      BY <1>2, MembersMove
  <2>2. q.init \in Seq(S)
    <3>1. q.init \in Seq([sets : SUBSET STRING, touches : SUBSET STRING])
        BY ConvertedAssumption
    <3> DEFINE R == [sets : SUBSET STRING, touches : SUBSET STRING]
    <3>2. R \subseteq S
        OBVIOUS
    <3>3. q.init \in Seq(R)
        BY <3>1
    <3> HIDE DEF R, S
    <3>4. QED  BY <3>2, <3>3, Wider
  <2>3. \A k \in DOMAIN r.init :
            r.init[k].touches \cap q.members # {} => \E j \in 1..(k - 1) : r.init[j] = Creation(q)
    <3>1. Creation(q) \in S
        OBVIOUS
    <3> HIDE DEF S
    <3>2. QED  BY <1>2, <2>2, <3>1, CollaboratorFirst
  <2> HIDE DEF r
  <2>4. ASSUME NEW k \in DOMAIN q.methods, q.methods[k].name \in r.methods
        PROVE  q.methods[k].touches \subseteq r.fields \cup r.methods
    <3>1. k \in MethodsOf(q, q.methods[k].name) /\ MovesMethod(q, q.methods[k].name)
        BY <2>1, <2>4 DEF MethodsOf
    <3>2. q.methods[k].touches \subseteq q.members
        BY <3>1 DEF MovesMethod
    <3>3. QED  BY <2>1, <3>2
  <2>5. q.collaborator \notin TouchedIn(q) \cup q.attributes
      BY <1>2 DEF Extractable
  <2>6. MembersFound(q, r)
      BY <2>1, <2>3, <2>4, <2>5 DEF MembersFound
  <2>7. QED  BY <2>6 DEF r
<1>3. QED  BY <1>1, <1>2

-----------------------------------------------------------------------------
(* A constructor becomes the fields of a dataclass *)

\* The class body of a dataclass: what was before the constructor, a field for
\* each parameter in its place, what was after it.
LEMMA BodyOfDataclass ==
    ASSUME NEW q, q \in Converted, q.tool = "dataclass", Convertible(q)
    PROVE  LET body == ConvertToDataclass(q).body
               b == Len(q.before)
               n == Len(q.params)
               Members == [name : STRING, annotated : BOOLEAN, value : STRING]
           IN /\ body \in Seq(Members) /\ b \in Nat /\ n \in Nat
              /\ DOMAIN body = 1..Len(body) /\ Len(body) \in Nat
              /\ DOMAIN q.params = 1..n
              /\ (b + 1)..(b + n) \subseteq DOMAIN body
              /\ \A k \in 1..n : body[b + k] = Field(q.params[k])
              /\ \A k \in DOMAIN body : k \notin (b + 1)..(b + n) =>
                     body[k] \in ToSet(q.before \o q.after)
<1> DEFINE Members == [name : STRING, annotated : BOOLEAN, value : STRING]
           b == Len(q.before)
           n == Len(q.params)
           made == [k \in DOMAIN q.params |-> Field(q.params[k])]
           body == q.before \o made \o q.after
<1>1. /\ q.params \in Seq([name : STRING, default : STRING, typed : BOOLEAN, inferred : BOOLEAN])
      /\ q.before \in Seq(Members) /\ q.after \in Seq(Members)
    BY ConvertedAssumption
<1>2. ConvertToDataclass(q).body = body
    BY DEF ConvertToDataclass
<1>3. /\ n \in Nat /\ DOMAIN q.params = 1..n
      /\ \A k \in 1..n : q.params[k] \in [name : STRING, default : STRING, typed : BOOLEAN, inferred : BOOLEAN]
    BY <1>1, LenProperties, ElementOfSeq
<1>4. ASSUME NEW k \in 1..n PROVE Field(q.params[k]) \in Members
    BY <1>3 DEF Field
<1> HIDE DEF Members, n
<1>5. made \in Seq(Members) /\ Len(made) = n /\ \A k \in 1..n : made[k] = Field(q.params[k])
  <2>1. made \in [1..n -> Members]
      BY <1>3, <1>4
  <2>2. QED  BY <1>3, <2>1, FunctionIsSeq
<1> HIDE DEF made
<1> DEFINE a == Len(q.after)
<1>6. /\ body \in Seq(Members)
      /\ Len(body) = b + Len(made) + a
      /\ b \in Nat /\ a \in Nat
      /\ \A k \in 1..b : body[k] = q.before[k]
      /\ \A k \in 1..Len(made) : body[b + k] = made[k]
      /\ \A k \in 1..a : body[b + Len(made) + k] = q.after[k]
  <2> DEFINE first == q.before
             last == q.after
             all == first \o made \o last
  <2>1. first \in Seq(Members) /\ made \in Seq(Members) /\ last \in Seq(Members)
      BY <1>1, <1>5
  <2>2. body = all
      OBVIOUS
  <2>3. b = Len(first) /\ a = Len(last) /\ q.before = first /\ q.after = last
      OBVIOUS
  <2> HIDE DEF first, last, b, a, body
  <2>4. all \in Seq(Members) /\ Len(first) \in Nat /\ Len(last) \in Nat
      BY <2>1, ThreeParts
  <2>5. Len(all) = Len(first) + Len(made) + Len(last)
      BY <2>1, ThreeParts
  <2>6. \A k \in 1..Len(first) : all[k] = first[k]
      BY <2>1, ThreeParts
  <2>7. \A k \in 1..Len(made) : all[Len(first) + k] = made[k]
      BY <2>1, ThreeParts
  <2>8. \A k \in 1..Len(last) : all[Len(first) + Len(made) + k] = last[k]
      BY <2>1, ThreeParts
  <2> HIDE DEF all
  <2>9. QED  BY <2>2, <2>3, <2>4, <2>5, <2>6, <2>7, <2>8
<1> HIDE DEF body, b, a
<1>7. /\ body \in Seq(Members)
      /\ Len(body) = b + n + a
      /\ b \in Nat /\ a \in Nat
      /\ \A k \in 1..b : body[k] = q.before[k]
      /\ \A k \in 1..n : body[b + k] = made[k]
      /\ \A k \in 1..a : body[b + n + k] = q.after[k]
    BY <1>5, <1>6
<1>8. DOMAIN body = 1..Len(body) /\ Len(body) \in Nat
    BY <1>7, LenProperties
<1>9. (b + 1)..(b + n) \subseteq DOMAIN body
  <2>1. \A k \in (b + 1)..(b + n) : k \in 1..(b + n + a)
      BY <1>3, <1>7
  <2>2. QED  BY <1>7, <1>8, <2>1
<1>10. ToSet(q.before \o q.after) = ToSet(q.before) \cup ToSet(q.after)
    BY <1>1, BothFound
<1>11. /\ \A k \in 1..b : q.before[k] \in ToSet(q.before)
       /\ \A k \in 1..a : q.after[k] \in ToSet(q.after)
  <2>1. DOMAIN q.before = 1..b /\ DOMAIN q.after = 1..a
      BY <1>1, LenProperties DEF a, b
  <2>2. QED  BY <2>1 DEF ToSet
<1>12. ASSUME NEW k \in DOMAIN body, k \notin (b + 1)..(b + n)
       PROVE  body[k] \in ToSet(q.before \o q.after)
  <2>1. CASE k <= b
    <3>1. k \in 1..b
        BY <1>7, <1>8, <2>1
    <3>2. QED  BY <1>7, <1>10, <1>11, <3>1
  <2>2. CASE ~(k <= b)
    <3> DEFINE i == k - (b + n)
    <3>1. i \in 1..a /\ b + n + i = k
        BY <1>3, <1>7, <1>8, <1>12, <2>2
    <3> HIDE DEF i
    <3>2. body[k] = q.after[i]
        BY <1>7, <3>1
    <3>3. QED  BY <1>10, <1>11, <3>1, <3>2
  <2>3. QED  BY <2>1, <2>2
<1>13. QED  BY <1>2, <1>3, <1>5, <1>7, <1>8, <1>9, <1>12 DEF Members, n, b

\* A dataclass takes what the constructor it replaces took.
LEMMA ConstructorIsKept ==
    ASSUME NEW q, q \in Converted, q.tool = "dataclass"
    PROVE  ConstructorKept(q, ConvertToDataclass(q))
<1> DEFINE r == ConvertToDataclass(q)
           b == Len(q.before)
           n == Len(q.params)
           Members == [name : STRING, annotated : BOOLEAN, value : STRING]
           at == (b + 1)..(b + n)
<1>1. SUFFICES ASSUME ~r.error, \A m \in ToSet(q.before \o q.after) : ~m.annotated
               PROVE  /\ \A m \in ToSet(r.body) : m.annotated => m.value # "mutable"
                      /\ Generated(r.body) = [k \in DOMAIN q.params |->
                             [name |-> q.params[k].name, default |-> q.params[k].default]]
    BY DEF ConstructorKept
<1>2. Convertible(q)
    BY <1>1 DEF ConvertToDataclass, Refusal
<1> DEFINE body == r.body
<1>3. /\ body \in Seq(Members) /\ b \in Nat /\ n \in Nat
      /\ DOMAIN body = 1..Len(body) /\ Len(body) \in Nat
      /\ DOMAIN q.params = 1..n
      /\ at \subseteq DOMAIN body
      /\ \A k \in 1..n : body[b + k] = Field(q.params[k])
      /\ \A k \in DOMAIN body : k \notin at => body[k] \in ToSet(q.before \o q.after)
    BY <1>2, BodyOfDataclass
<1>4. b \in Nat /\ n \in Nat
    BY <1>3
<1>5. \A k \in at : k - b \in 1..n /\ b + (k - b) = k
  <2> HIDE DEF b, n
  <2>1. QED  BY <1>4
<1>6. \A k \in 1..n : b + k \in at
  <2> HIDE DEF b, n
  <2>1. QED  BY <1>4
<1>7. \A k \in 1..n : /\ Field(q.params[k]).annotated
                      /\ Field(q.params[k]).name = q.params[k].name
                      /\ Field(q.params[k]).value = q.params[k].default
    BY DEF Field
<1> HIDE DEF r, body, b, n, Members, at
<1>8. ASSUME NEW k \in DOMAIN body
      PROVE  body[k].annotated <=> k \in at
    BY <1>1, <1>3, <1>5, <1>7
<1>9. ASSUME NEW m \in ToSet(body), m.annotated
      PROVE  m.value # "mutable"
  <2>1. PICK k \in DOMAIN body : m = body[k]
      BY DEF ToSet
  <2>2. k - b \in 1..n /\ m = Field(q.params[k - b])
      BY <1>3, <1>5, <1>8, <1>9, <2>1
  <2>3. m.value = q.params[k - b].default
      BY <1>7, <2>2
  <2>4. QED  BY <1>2, <1>3, <2>2, <2>3 DEF Convertible
<1> DEFINE fields == Only(body, {k \in DOMAIN body : body[k].annotated})
           Value(s) == body[CHOOSE k \in DOMAIN body : /\ body[k].name = s
                                                      /\ \A j \in DOMAIN body : body[j].name = s => j <= k].value
           taken == [k \in 1..n |-> [name |-> q.params[k].name, default |-> q.params[k].default]]
<1>10. Generated(body) = Once([k \in DOMAIN fields |-> [name |-> fields[k].name, default |-> Value(fields[k].name)]])
    BY DEF Generated
<1>11. fields = [k \in 1..n |-> Field(q.params[k])]
  <2>1. {k \in DOMAIN body : body[k].annotated} = at
      BY <1>3, <1>8
  <2>2. Cardinality(at) = n /\ Ascending(at) = [k \in 1..n |-> b + k]
      BY <1>3, AscendingInterval DEF at
  <2>3. fields = [k \in 1..n |-> body[Ascending(at)[k]]]
      BY <2>1, <2>2 DEF Only
  <2> HIDE DEF fields
  <2>4. QED  BY <1>3, <2>2, <2>3
<1>12. ASSUME NEW i \in 1..n
       PROVE  Value(q.params[i].name) = q.params[i].default
  <2> DEFINE s == q.params[i].name
             P(k) == body[k].name = s /\ \A j \in DOMAIN body : body[j].name = s => j <= k
  <2>1. b + i \in DOMAIN body /\ body[b + i].name = s /\ body[b + i].value = q.params[i].default
      BY <1>3, <1>6, <1>7
  <2>2. ASSUME NEW k \in DOMAIN body, body[k].name = s
        PROVE  k = b + i
    <3>1. k \in at
      <4>1. SUFFICES ASSUME k \notin at PROVE FALSE
          OBVIOUS
      <4>2. body[k] \in ToSet(q.before \o q.after)
          BY <1>3, <4>1
      <4>3. s \notin ToSet(ParameterNames(q))
          BY <1>2, <2>2, <4>2 DEF Convertible
      <4>4. s \in ToSet(ParameterNames(q))
          BY <1>3 DEF ParameterNames, ToSet
      <4>5. QED  BY <4>3, <4>4
    <3>2. body[k] = Field(q.params[k - b]) /\ k - b \in 1..n
        BY <1>3, <1>5, <3>1
    <3>3. q.params[k - b].name = q.params[i].name
        BY <1>7, <2>2, <3>2
    <3>4. k - b = i
        BY <1>3, <3>2, <3>3, ConvertedAssumption
    <3>5. QED  BY <1>5, <3>1, <3>4
  <2> HIDE DEF s
  <2>3. b + i <= b + i
      BY <1>3
  <2>4. P(b + i) /\ \A k \in DOMAIN body : P(k) => k = b + i
      BY <2>1, <2>2, <2>3
  <2> HIDE DEF P
  <2>5. (CHOOSE k \in DOMAIN body : P(k)) = b + i
      BY <2>1, <2>4
  <2>6. Value(s) = body[b + i].value
      BY <2>5 DEF P
  <2>7. QED  BY <2>1, <2>6 DEF s
<1>13. [k \in DOMAIN fields |-> [name |-> fields[k].name, default |-> Value(fields[k].name)]] = taken
  <2>1. DOMAIN fields = 1..n /\ \A k \in 1..n : fields[k].name = q.params[k].name
      BY <1>7, <1>11
  <2> HIDE DEF fields, Value
  <2>2. QED  BY <1>12, <2>1
<1>14. Once(taken) = taken
  <2> DEFINE Signature == [name : STRING, default : STRING]
  <2>1. \A k \in 1..n : q.params[k] \in [name : STRING, default : STRING, typed : BOOLEAN, inferred : BOOLEAN]
      BY <1>3, ConvertedAssumption, ElementOfSeq DEF n
  <2>2. taken \in [1..n -> Signature]
      BY <2>1
  <2>3. taken \in Seq(Signature) /\ DOMAIN taken = 1..n
      BY <1>3, <2>2, FunctionIsSeq
  <2>4. ASSUME NEW j \in DOMAIN taken, NEW k \in DOMAIN taken, j < k
        PROVE  taken[j] # taken[k]
    <3>1. j \in 1..n /\ k \in 1..n /\ j # k
        BY <1>3, <2>3, <2>4
    <3>2. q.params[j].name # q.params[k].name
        BY <1>3, <3>1, ConvertedAssumption
    <3>3. taken[j].name = q.params[j].name /\ taken[k].name = q.params[k].name
        BY <3>1
    <3>4. QED  BY <3>2, <3>3
  <2> HIDE DEF taken, Signature
  <2>5. QED  BY <2>3, <2>4, OnceItself
<1>15. Generated(body) = taken
    BY <1>10, <1>13, <1>14
<1>16. QED  BY <1>3, <1>9, <1>15 DEF body

-----------------------------------------------------------------------------
(* The pre-check of a signature *)

SignatureOperations == [op : STRING, index : Nat \cup {NoIndex}, named : BOOLEAN]

\* A complete operation leaves a list of parameters, with one more for an
\* addition and at most one less for a removal.
LEMMA ChangedList ==
    ASSUME NEW list \in Seq(BOOLEAN), NEW o \in SignatureOperations, Complete(o)
    PROVE  /\ Changed(list, o) \in Seq(BOOLEAN)
           /\ Len(list) \in Nat /\ Len(Changed(list, o)) \in Nat
           /\ Len(Changed(list, o)) >= Len(list) + (IF o.op = "add" THEN 1 ELSE 0)
                                       - (IF o.op = "remove" THEN 1 ELSE 0)
<1> DEFINE i == o.index + 1
           removed == IF i \in DOMAIN list THEN RemoveAt(list, i) ELSE list
           Added(l) == InsertAt(l, IF i > Len(l) THEN Len(l) + 1 ELSE i, FALSE)
<1>1. Len(list) \in Nat /\ DOMAIN list = 1..Len(list)
    BY LenProperties
<1>2. /\ removed \in Seq(BOOLEAN) /\ Len(removed) \in Nat
      /\ Len(removed) >= Len(list) - 1
  <2> HIDE DEF i
  <2>1. CASE i \in DOMAIN list
    <3>1. removed = RemoveAt(list, i) /\ i \in 1..Len(list)
        BY <1>1, <2>1
    <3>2. RemoveAt(list, i) \in Seq(BOOLEAN) /\ Len(RemoveAt(list, i)) = Len(list) - 1
        BY <3>1, Removed
    <3> HIDE DEF removed
    <3>3. QED  BY <1>1, <3>1, <3>2
  <2>2. CASE i \notin DOMAIN list
    <3>1. removed = list
        BY <2>2
    <3> HIDE DEF removed
    <3>2. QED  BY <1>1, <3>1
  <2>3. QED  BY <2>1, <2>2
<1>3. o.op \in {"remove", "inline_default", "add", "rename"} => i \in Nat \ {0}
    BY DEF Complete, SignatureOperations, NoIndex
<1> HIDE DEF i, removed
<1>4. ASSUME NEW l \in Seq(BOOLEAN), i \in Nat \ {0}
      PROVE  Added(l) \in Seq(BOOLEAN) /\ Len(Added(l)) = Len(l) + 1
  <2> DEFINE p == IF i > Len(l) THEN Len(l) + 1 ELSE i
  <2>1. Len(l) \in Nat
      BY LenProperties
  <2>2. p \in 1..(Len(l) + 1)
      BY <1>4, <2>1
  <2>3. FALSE \in BOOLEAN
      OBVIOUS
  <2> HIDE DEF p
  <2>4. InsertAt(l, p, FALSE) \in Seq(BOOLEAN) /\ Len(InsertAt(l, p, FALSE)) = Len(l) + 1
      BY <2>2, <2>3, Inserted
  <2>5. QED  BY <2>4 DEF p
<1> DEFINE new == Changed(list, o)
<1>5. CASE o.op = "remove"
  <2>1. new = removed
      BY <1>5 DEF Changed, removed, i
  <2> HIDE DEF new
  <2>2. new \in Seq(BOOLEAN) /\ Len(new) \in Nat /\ Len(new) >= Len(list) - 1
      BY <1>1, <1>2, <2>1
  <2>3. QED  BY <1>1, <1>5, <2>2 DEF new
<1>6. CASE o.op = "inline_default"
  <2>1. new = [list EXCEPT ![i] = FALSE]
      BY <1>6 DEF Changed, i
  <2>2. new \in [1..Len(list) -> BOOLEAN]
    <3>1. list \in [1..Len(list) -> BOOLEAN]
        BY <1>1, ElementOfSeq
    <3> HIDE DEF new
    <3>2. QED  BY <2>1, <3>1
  <2> HIDE DEF new
  <2>3. new \in Seq(BOOLEAN) /\ Len(new) = Len(list)
      BY <1>1, <2>2, FunctionIsSeq
  <2>4. QED  BY <1>1, <1>6, <2>3 DEF new
<1>7. CASE o.op = "add"
  <2>1. new = Added(list)
      BY <1>7 DEF Changed, i
  <2>2. new \in Seq(BOOLEAN) /\ Len(new) = Len(list) + 1
      BY <1>3, <1>4, <1>7, <2>1
  <2> HIDE DEF new
  <2>3. QED  BY <1>1, <1>7, <2>2 DEF new
<1>8. CASE o.op = "rename"
  <2>1. new = Added(removed)
      BY <1>8 DEF Changed, i, removed
  <2>2. new \in Seq(BOOLEAN) /\ Len(new) = Len(removed) + 1
      BY <1>2, <1>3, <1>4, <1>8, <2>1
  <2> HIDE DEF new
  <2>3. new \in Seq(BOOLEAN) /\ Len(new) \in Nat /\ Len(new) >= Len(list)
      BY <1>1, <1>2, <2>2
  <2>4. QED  BY <1>1, <1>8, <2>3 DEF new
<1>9. CASE o.op \notin {"remove", "inline_default", "add", "rename"}
  <2>1. new = list
      BY <1>9 DEF Changed
  <2> HIDE DEF new
  <2>2. QED  BY <1>1, <1>9, <2>1 DEF new
<1>10. QED  BY <1>5, <1>6, <1>7, <1>8, <1>9

\* Rope's parameters after each operation.
LEMMA RebuiltStep ==
    ASSUME NEW defaults \in Seq(BOOLEAN), NEW operations \in Seq(SignatureOperations),
           \A o \in ToSet(operations) : Complete(o)
    PROVE  /\ Rebuilt(defaults, operations) \in [0..Len(operations) -> Seq(BOOLEAN)]
           /\ Rebuilt(defaults, operations)[0] = defaults
           /\ \A k \in 1..Len(operations) :
                 Rebuilt(defaults, operations)[k] = Changed(Rebuilt(defaults, operations)[k - 1], operations[k])
<1> DEFINE L == Len(operations)
           Builds(f, n) ==
               /\ f \in [0..n -> Seq(BOOLEAN)] /\ f[0] = defaults
               /\ \A k \in 1..n : f[k] = Changed(f[k - 1], operations[k])
           Body(f) == [k \in 0..L |-> IF k = 0 THEN defaults ELSE Changed(f[k - 1], operations[k])]
           I == {n \in 0..L : ~\E f : Builds(f, n)}
<1>1. /\ L \in Nat
      /\ \A k \in 1..L : operations[k] \in SignatureOperations /\ Complete(operations[k])
  <2>1. L \in Nat /\ DOMAIN operations = 1..L
      BY LenProperties
  <2>2. QED  BY <2>1, ElementOfSeq DEF ToSet
<1>2. \E f : Builds(f, 0)
  <2> DEFINE f == [k \in 0..0 |-> defaults]
  <2>1. Builds(f, 0)
      OBVIOUS
  <2>2. QED  BY <2>1
<1> HIDE DEF L
<1>3. ASSUME NEW n \in 1..L, \E f : Builds(f, n - 1)
      PROVE  \E f : Builds(f, n)
  <2>1. PICK f : Builds(f, n - 1)
      BY <1>3
  <2> DEFINE next == Changed(f[n - 1], operations[n])
             g == [k \in 0..n |-> IF k = n THEN next ELSE f[k]]
  <2>2. f[n - 1] \in Seq(BOOLEAN)
      BY <1>1, <2>1
  <2>3. next \in Seq(BOOLEAN)
      BY <1>1, <2>2, ChangedList
  <2> HIDE DEF next
  <2>4. g \in [0..n -> Seq(BOOLEAN)] /\ g[0] = defaults
      BY <1>1, <2>1, <2>3
  <2>5. ASSUME NEW k \in 1..n PROVE g[k] = Changed(g[k - 1], operations[k])
    <3>1. k - 1 \in 0..n /\ k - 1 # n /\ g[k - 1] = f[k - 1]
        BY <1>1
    <3>2. CASE k = n
        BY <1>1, <3>1, <3>2 DEF next
    <3>3. CASE k # n
      <4>1. k \in 1..(n - 1) /\ k \in 0..n
          BY <1>1, <3>3
      <4>2. g[k] = f[k]
          BY <3>3, <4>1
      <4> HIDE DEF g
      <4>3. QED  BY <2>1, <3>1, <4>1, <4>2
    <3>4. QED  BY <3>2, <3>3
  <2> HIDE DEF g
  <2>6. Builds(g, n)
      BY <2>4, <2>5
  <2>7. QED  BY <2>6
<1> HIDE DEF Builds
<1>4. I = {}
  <2>1. SUFFICES ASSUME I # {} PROVE FALSE
      OBVIOUS
  <2>2. I \subseteq Nat
      BY <1>1
  <2> HIDE DEF I
  <2>3. PICK n \in I : \A m \in I : n <= m
      BY <2>1, <2>2, LeastNumber
  <2> USE DEF I
  <2>4. n \in 1..L
      BY <1>1, <1>2, <2>3
  <2>5. n - 1 \notin I /\ n - 1 \in 0..L
    <3>1. n - 1 \in 0..L /\ ~(n <= n - 1)
        BY <1>1, <2>4
    <3>2. QED  BY <2>3, <3>1
  <2>6. QED  BY <1>3, <2>3, <2>4, <2>5
<1>5. PICK f : Builds(f, L)
    BY <1>1, <1>4
<1>6. f = Body(f)
  <2>1. f \in [0..L -> Seq(BOOLEAN)] /\ f[0] = defaults
        /\ \A k \in 1..L : f[k] = Changed(f[k - 1], operations[k])
      BY <1>5 DEF Builds
  <2>2. \A k \in 0..L : f[k] = IF k = 0 THEN defaults ELSE Changed(f[k - 1], operations[k])
      BY <1>1, <2>1
  <2>3. QED  BY <2>1, <2>2
<1>7. Rebuilt(defaults, operations) = CHOOSE g : g = Body(g)
    BY DEF Rebuilt, L
<1> DEFINE h == Rebuilt(defaults, operations)
<1>8. h = Body(h)
    BY <1>6, <1>7
<1>9. \A n \in 0..L : h[n] = IF n = 0 THEN defaults ELSE Changed(h[n - 1], operations[n])
    BY <1>8
<1>10. DOMAIN h = 0..L
    BY <1>8
<1> HIDE DEF h, Body
<1>11. /\ f \in [0..L -> Seq(BOOLEAN)] /\ f[0] = defaults
       /\ \A k \in 1..L : f[k] = Changed(f[k - 1], operations[k])
    BY <1>5 DEF Builds
<1>12. \A n \in 0..L : h[n] = f[n]
  <2> DEFINE J == {n \in 0..L : h[n] # f[n]}
  <2>1. SUFFICES ASSUME J # {} PROVE FALSE
      OBVIOUS
  <2>2. J \subseteq Nat
      BY <1>1
  <2> HIDE DEF J
  <2>3. PICK n \in J : \A m \in J : n <= m
      BY <2>1, <2>2, LeastNumber
  <2> USE DEF J
  <2>4. n \in 1..L
      BY <1>1, <1>9, <1>11, <2>3
  <2>5. n - 1 \in 0..L /\ ~(n <= n - 1)
      BY <1>1, <2>4
  <2>6. h[n - 1] = f[n - 1]
      BY <2>3, <2>5
  <2>7. h[n] = f[n]
    <3>1. n # 0 /\ n \in 0..L
        BY <1>1, <2>4
    <3>2. QED  BY <1>9, <1>11, <2>4, <2>6, <3>1
  <2>8. QED  BY <2>3, <2>7
<1>13. h = f
  <2>1. h = [n \in 0..L |-> h[n]]
      BY <1>8, <1>10 DEF Body
  <2>2. f = [n \in 0..L |-> f[n]]
      BY <1>11
  <2>3. QED  BY <1>12, <2>1, <2>2
<1>14. QED  BY <1>11, <1>13 DEF h, L

\* The operations of a kind before the next one.
LEMMA DoingOne ==
    ASSUME NEW op, NEW operations, NEW k \in Nat \ {0}
    PROVE  /\ Doing(op, operations, k) \in Nat
           /\ Doing(op, operations, 1) = 0
           /\ Doing(op, operations, k + 1)
                = Doing(op, operations, k) + (IF operations[k].op = op THEN 1 ELSE 0)
<1> DEFINE before == {j \in 1..(k - 1) : operations[j].op = op}
           upto == {j \in 1..k : operations[j].op = op}
<1>1. IsFiniteSet(before)
  <2>1. k - 1 \in Nat /\ before \subseteq 1..(k - 1)
      OBVIOUS
  <2>2. IsFiniteSet(1..(k - 1))
      BY <2>1, Places
  <2> HIDE DEF before
  <2>3. QED  BY <2>1, <2>2, FS_Subset
<1>2. Cardinality(before) \in Nat
    BY <1>1, FS_CardinalityType
<1>3. Doing(op, operations, k) = Cardinality(before)
    BY DEF Doing
<1>4. Doing(op, operations, k + 1) = Cardinality(upto)
  <2>1. (k + 1) - 1 = k
      OBVIOUS
  <2>2. QED  BY <2>1 DEF Doing
<1>5. upto = IF operations[k].op = op THEN before \cup {k} ELSE before
  <2>1. 1..k = (1..(k - 1)) \cup {k}
      OBVIOUS
  <2>2. QED  BY <2>1
<1>6. k \notin before
    OBVIOUS
<1> HIDE DEF before, upto
<1>7. Cardinality(before \cup {k}) = Cardinality(before) + 1
    BY <1>1, <1>6, FS_AddElement
<1>8. Doing(op, operations, 1) = 0
  <2>1. 1..(1 - 1) = {}
      OBVIOUS
  <2>2. {j \in 1..(1 - 1) : operations[j].op = op} = {}
      BY <2>1
  <2>3. QED  BY <2>2, FS_EmptySet DEF Doing
<1>9. QED  BY <1>2, <1>3, <1>4, <1>5, <1>7, <1>8

\* The pre-check counts no more parameters than Rope has.
LEMMA CountedIsThere ==
    ASSUME NEW defaults \in Seq(BOOLEAN), NEW operations \in Seq(SignatureOperations),
           \A o \in ToSet(operations) : Complete(o), NEW k \in 1..Len(operations)
    PROVE  /\ Counted(defaults, operations, k) \in Int
           /\ Len(Rebuilt(defaults, operations)[k - 1]) \in Nat
           /\ Counted(defaults, operations, k) <= Len(Rebuilt(defaults, operations)[k - 1])
<1> DEFINE h == Rebuilt(defaults, operations)
           L == Len(operations)
           Count(n) == Counted(defaults, operations, n)
           I == {n \in 1..L : ~(Count(n) <= Len(h[n - 1]))}
<1>1. /\ h \in [0..L -> Seq(BOOLEAN)] /\ h[0] = defaults
      /\ \A n \in 1..L : h[n] = Changed(h[n - 1], operations[n])
    BY RebuiltStep
<1>2. /\ L \in Nat
      /\ \A n \in 1..L : operations[n] \in SignatureOperations /\ Complete(operations[n])
  <2>1. L \in Nat /\ DOMAIN operations = 1..L
      BY LenProperties
  <2>2. QED  BY <2>1, ElementOfSeq DEF ToSet
<1> HIDE DEF h, L
<1>3. ASSUME NEW n \in 1..L
      PROVE  /\ Count(n) \in Int
             /\ Count(n + 1) = Count(n) + (IF operations[n].op = "add" THEN 1 ELSE 0)
                                        - (IF operations[n].op = "remove" THEN 1 ELSE 0)
  <2>1. n \in Nat \ {0} /\ Len(defaults) \in Nat
      BY <1>2, LenProperties
  <2>2. /\ Doing("add", operations, n) \in Nat /\ Doing("remove", operations, n) \in Nat
        /\ Doing("add", operations, n + 1)
             = Doing("add", operations, n) + (IF operations[n].op = "add" THEN 1 ELSE 0)
        /\ Doing("remove", operations, n + 1)
             = Doing("remove", operations, n) + (IF operations[n].op = "remove" THEN 1 ELSE 0)
      BY <2>1, DoingOne
  <2>3. QED  BY <2>1, <2>2 DEF Counted
<1>4. Count(1) = Len(defaults) /\ Len(defaults) \in Nat
  <2>1. Doing("add", operations, 1) = 0 /\ Doing("remove", operations, 1) = 0
      BY DoingOne
  <2>2. Len(defaults) \in Nat
      BY LenProperties
  <2>3. QED  BY <2>1, <2>2 DEF Counted
<1> HIDE DEF Count
<1>5. ASSUME NEW n \in 1..L
      PROVE  h[n - 1] \in Seq(BOOLEAN) /\ Len(h[n - 1]) \in Nat
  <2>1. n - 1 \in 0..L
      BY <1>2
  <2>2. QED  BY <1>1, <2>1, LenProperties
<1>6. ASSUME NEW n \in 1..L, n + 1 \in 1..L, Count(n) <= Len(h[n - 1])
      PROVE  Count(n + 1) <= Len(h[n])
  <2>1. /\ Len(h[n]) \in Nat
        /\ Len(h[n]) >= Len(h[n - 1]) + (IF operations[n].op = "add" THEN 1 ELSE 0)
                                       - (IF operations[n].op = "remove" THEN 1 ELSE 0)
      BY <1>1, <1>2, <1>5, ChangedList
  <2>2. Count(n) \in Int /\ Len(h[n - 1]) \in Nat
      BY <1>3, <1>5
  <2> DEFINE more == IF operations[n].op = "add" THEN 1 ELSE 0
             less == IF operations[n].op = "remove" THEN 1 ELSE 0
  <2>3. Count(n + 1) = Count(n) + more - less
      BY <1>3
  <2>4. Len(h[n]) \in Nat /\ Len(h[n]) >= Len(h[n - 1]) + more - less
      BY <2>1
  <2>5. more \in Int /\ less \in Int
      OBVIOUS
  <2> HIDE DEF more, less
  <2>6. QED  BY <1>6, <2>2, <2>3, <2>4, <2>5
<1>7. I = {}
  <2>1. SUFFICES ASSUME I # {} PROVE FALSE
      OBVIOUS
  <2>2. I \subseteq Nat
      BY <1>2
  <2> HIDE DEF I
  <2>3. PICK n \in I : \A m \in I : n <= m
      BY <2>1, <2>2, LeastNumber
  <2> USE DEF I
  <2>4. n \in 1..L /\ ~(Count(n) <= Len(h[n - 1]))
      BY <2>3
  <2>5. CASE n = 1
    <3>1. n - 1 = 0
        BY <2>5
    <3>2. QED  BY <1>1, <1>4, <2>4, <2>5, <3>1
  <2>6. CASE n # 1
    <3> DEFINE m == n - 1
    <3>1. m \in 1..L /\ m + 1 = n /\ ~(n <= m)
        BY <1>2, <2>4, <2>6
    <3>2. m \notin I
        BY <2>3, <3>1
    <3> HIDE DEF m
    <3>3. Count(m + 1) <= Len(h[m])
        BY <1>6, <2>4, <3>1, <3>2
    <3>4. m = n - 1
        BY DEF m
    <3>5. QED  BY <2>4, <3>1, <3>3, <3>4
  <2>7. QED  BY <2>5, <2>6
<1>8. k \in 1..L
    BY DEF L
<1>9. QED  BY <1>3, <1>5, <1>7, <1>8 DEF h, Count

\* The operations that are accepted are safe to give to Rope.
LEMMA SignatureIsSafe ==
    ASSUME NEW q, q \in Signatures
    PROVE  SignatureSafe(q, Accepts(q.defaults, q.operations))
<1> DEFINE d == q.defaults
           ops == q.operations
<1>1. /\ d \in Seq(BOOLEAN) /\ ops \in Seq(SignatureOperations)
      /\ \A i, j \in DOMAIN d : i < j /\ d[i] => d[j]
    BY SignaturesAssumption DEF SignatureOperations
<1>2. SUFFICES ASSUME Accepts(d, ops), NEW k \in DOMAIN ops, ops[k].op = "inline_default"
               PROVE  LET there == Rebuilt(d, ops)[k - 1]
                          result == Changed(there, ops[k])
                      IN /\ ops[k].index < Len(there)
                         /\ k = 1 => \A i, j \in DOMAIN result : i < j /\ result[i] => result[j]
    BY DEF SignatureSafe
<1> HIDE DEF d, ops
<1>3. /\ \A o \in ToSet(ops) : Complete(o)
      /\ ops[k].index \in 0..(Counted(d, ops, k) - 1)
      /\ k = 1 => Inlinable(d, ops[k].index)
    BY <1>2 DEF Accepts
<1>4. k \in 1..Len(ops)
    BY <1>1, LenProperties
<1>5. ops[k].index < Len(Rebuilt(d, ops)[k - 1])
  <2>1. /\ Counted(d, ops, k) \in Int /\ Len(Rebuilt(d, ops)[k - 1]) \in Nat
        /\ Counted(d, ops, k) <= Len(Rebuilt(d, ops)[k - 1])
      BY <1>1, <1>3, <1>4, CountedIsThere
  <2>2. QED  BY <1>3, <2>1
<1>6. ASSUME k = 1
      PROVE  LET result == Changed(Rebuilt(d, ops)[k - 1], ops[k])
             IN \A i, j \in DOMAIN result : i < j /\ result[i] => result[j]
  <2>1. Rebuilt(d, ops)[k - 1] = d
    <3>1. k - 1 = 0
        BY <1>6
    <3>2. QED  BY <1>1, <1>3, <3>1, RebuiltStep
  <2> DEFINE n == ops[k].index
             result == [d EXCEPT ![n + 1] = FALSE]
  <2>2. Changed(d, ops[k]) = result
      BY <1>2 DEF Changed
  <2>3. n \in Nat /\ Inlinable(d, n)
      BY <1>3, <1>6
  <2>4. DOMAIN d = 1..Len(d) /\ Len(d) \in Nat
      BY <1>1, LenProperties
  <2> HIDE DEF n
  <2>5. ASSUME NEW i \in DOMAIN result, NEW j \in DOMAIN result, i < j, result[i]
        PROVE  result[j]
    <3>1. i \in 1..Len(d) /\ j \in 1..Len(d) /\ i # n + 1 /\ d[i]
        BY <2>4, <2>5
    <3>2. ~(i <= n)
      <4>1. \A m \in 1..n : ~d[m]
          BY <2>3 DEF Inlinable
      <4>2. QED  BY <2>3, <2>4, <3>1, <4>1
    <3>3. j # n + 1
        BY <2>3, <2>4, <2>5, <3>1, <3>2
    <3>4. d[j]
        BY <1>1, <2>4, <2>5, <3>1
    <3>5. QED  BY <2>4, <3>1, <3>3, <3>4
  <2>6. QED  BY <2>1, <2>2, <2>5
<1>7. QED  BY <1>5, <1>6

-----------------------------------------------------------------------------
(* A module is split *)

\* Each symbol that is asked for is moved once, by the target that names it.
LEMMA OneMove ==
    ASSUME NEW q, SplitAllowed(q), NEW k \in DOMAIN q.targets, NEW i \in DOMAIN q.targets[k].symbols
    PROVE  LET s == q.targets[k].symbols[i] IN
           /\ s \in Moved(q)
           /\ Leaving(q, s) = 1
           /\ Arriving(q, q.targets[k].module, s) = 1
<1> DEFINE s == q.targets[k].symbols[i]
           move == <<k, i>>
<1>1. move \in SymbolMoves(q) /\ SymbolOf(q, move) = s /\ move[1] = k
    BY DEF SymbolMoves, SymbolOf
<1>2. \A x \in SymbolMoves(q) : SymbolOf(q, x) = s => x = move
    BY <1>1 DEF SplitAllowed
<1> HIDE DEF move
<1>3. {x \in SymbolMoves(q) : SymbolOf(q, x) = s} = {move}
    BY <1>1, <1>2
<1>4. {x \in SymbolMoves(q) : SymbolOf(q, x) = s /\ q.targets[x[1]].module = q.targets[k].module} = {move}
    BY <1>1, <1>2
<1>5. Cardinality({move}) = 1
    BY FS_Singleton
<1>6. s \in Moved(q)
    BY DEF Moved, ToSet
<1>7. QED  BY <1>3, <1>4, <1>5, <1>6 DEF Leaving, Arriving

\* Nothing arrives in a module that is no target.
LEMMA NothingArrives ==
    ASSUME NEW q, NEW m, m \notin TargetModules(q), NEW s
    PROVE  Arriving(q, m, s) = 0
<1>1. {x \in SymbolMoves(q) : SymbolOf(q, x) = s /\ q.targets[x[1]].module = m} = {}
  <2>1. SUFFICES ASSUME NEW x \in SymbolMoves(q), q.targets[x[1]].module = m PROVE FALSE
      OBVIOUS
  <2>2. PICK k \in DOMAIN q.targets : \E i \in DOMAIN q.targets[k].symbols : x = <<k, i>>
      BY DEF SymbolMoves
  <2>3. x[1] = k
      BY <2>2
  <2>4. QED  BY <2>1, <2>3 DEF TargetModules
<1>2. QED  BY <1>1, FS_EmptySet DEF Arriving

\* A module is split wholly or not at all.
LEMMA SplitIsWhole ==
    ASSUME NEW q, q \in Splits
    PROVE  SplitWhole(q, SplitModule(q))
<1> DEFINE r == SplitModule(q)
<1>1. CASE ~(SplitAllowed(q) /\ ~SplitFails(q) /\ q.apply)
  <2>1. ~r.applied /\ r.after = q.before
      BY <1>1 DEF SplitModule
  <2> HIDE DEF r
  <2>2. SplitWhole(q, r)
      BY <2>1 DEF SplitWhole
  <2>3. QED  BY <2>2 DEF r
<1>2. CASE SplitAllowed(q) /\ ~SplitFails(q) /\ q.apply
  <2>1. r.applied /\ r.edited = Rewritten(q) /\ r.after = Planned(q)
      BY <1>2 DEF SplitModule
  <2> HIDE DEF r
  <2>2. Rewritten(q) \cap (q.early \cup q.late) = {}
      BY <1>2 DEF SplitFails, Stale
  <2>3. ASSUME NEW m \in DOMAIN q.before
        PROVE  /\ q.before[m] \in [DOMAIN q.before[m] -> Nat]
               /\ Moved(q) \subseteq DOMAIN q.before[m]
               /\ DOMAIN Planned(q)[m] = DOMAIN q.before[m]
               /\ \A s \in DOMAIN q.before[m] :
                     Planned(q)[m][s] = q.before[m][s] + Arriving(q, m, s)
                                        - IF m = q.source THEN Leaving(q, s) ELSE 0
      BY SplitsAssumption DEF Planned
  <2>4. q.source \in DOMAIN q.before /\ q.source \notin TargetModules(q)
      BY <1>2 DEF SplitAllowed
  <2>5. ASSUME NEW k \in DOMAIN q.targets, NEW s \in ToSet(q.targets[k].symbols)
        PROVE  /\ Planned(q)[q.source][s] = 0
               /\ Planned(q)[q.targets[k].module][s] = q.before[q.targets[k].module][s] + 1
    <3> DEFINE m == q.targets[k].module
    <3>1. PICK i \in DOMAIN q.targets[k].symbols : s = q.targets[k].symbols[i]
        BY DEF ToSet
    <3>2. s \in Moved(q) /\ Leaving(q, s) = 1 /\ Arriving(q, m, s) = 1
        BY <1>2, <3>1, OneMove
    <3>3. m \in TargetModules(q)
        BY DEF TargetModules
    <3>4. m \in DOMAIN q.before /\ m # q.source
        BY <1>2, <2>4, <3>3 DEF SplitAllowed
    <3> HIDE DEF m
    <3>5. q.before[q.source][s] = 1 /\ Arriving(q, q.source, s) = 0
        BY <1>2, <2>4, <3>2, NothingArrives DEF SplitFails, OneDefinition
    <3>6. Planned(q)[q.source][s] = 0
        BY <2>3, <2>4, <3>2, <3>5
    <3>7. q.before[m][s] \in Nat
        BY <2>3, <3>2, <3>4
    <3>8. Planned(q)[m][s] = q.before[m][s] + 1
        BY <2>3, <3>2, <3>4, <3>7
    <3>9. QED  BY <3>6, <3>8 DEF m
  <2>6. ASSUME NEW m \in DOMAIN q.before, m \notin Rewritten(q)
        PROVE  Planned(q)[m] = q.before[m]
    <3>1. m # q.source /\ m \notin TargetModules(q)
        BY <2>6 DEF Rewritten
    <3>2. ASSUME NEW s \in DOMAIN q.before[m]
          PROVE  q.before[m][s] + Arriving(q, m, s) - (IF m = q.source THEN Leaving(q, s) ELSE 0) = q.before[m][s]
      <4>1. Arriving(q, m, s) = 0 /\ q.before[m][s] \in Nat
          BY <2>3, <3>1, NothingArrives
      <4>2. QED  BY <3>1, <4>1
    <3>3. Planned(q)[m] = [s \in DOMAIN q.before[m] |-> q.before[m][s]]
        BY <3>2 DEF Planned
    <3>4. QED  BY <2>3, <3>3
  <2>7. SplitWhole(q, r)
      BY <2>1, <2>2, <2>5, <2>6 DEF SplitWhole
  <2>8. QED  BY <2>7 DEF r
<1>3. QED  BY <1>1, <1>2

-----------------------------------------------------------------------------
(* The answers of the tools that ask once *)

\* A call is asked one of its tool's questions, and what it is answered is
\* computed from that question.
DirectIInv ==
    /\ \/ tool = "lookup" /\ question \in Lookups
       \/ tool = "uses" /\ question \in Uses
       \/ tool = "scan" /\ question \in Scans
       \/ tool = "signature" /\ question \in Signatures
       \/ tool = "split" /\ question \in Splits
       \/ tool = "convert" /\ question \in Converted
    /\ answer # Pending =>
          /\ tool = "lookup" => answer = <<Jedi(question.method, question.lib)>>
          /\ tool = "uses" => answer = <<[references |-> FindReferences(question),
                                          users |-> TypeUsers(question)]>>
          /\ tool = "signature" => answer = <<Accepts(question.defaults, question.operations)>>
          /\ tool = "split" => answer = <<SplitModule(question)>>
          /\ tool = "convert" => answer = <<Convert(question)>>

LEMMA DirectInvariance == DirectSpec => []DirectIInv
<1>1. DirectInit => DirectIInv
    BY DEF DirectInit, DirectIInv, Ask
<1>2. DirectIInv /\ [DirectNext]_exchange => DirectIInv'
  <2>1. SUFFICES ASSUME DirectIInv, [DirectNext]_exchange PROVE DirectIInv'
      OBVIOUS
  <2>2. CASE AnswerLookup
      BY <2>1, <2>2 DEF DirectIInv, AnswerLookup, Reply
  <2>3. CASE AnswerUses
      BY <2>1, <2>3 DEF DirectIInv, AnswerUses, Reply
  <2>4. CASE AnswerScan
      BY <2>1, <2>4 DEF DirectIInv, AnswerScan, Reply
  <2>5. CASE AnswerSignature
      BY <2>1, <2>5 DEF DirectIInv, AnswerSignature, Reply
  <2>6. CASE AnswerSplit
      BY <2>1, <2>6 DEF DirectIInv, AnswerSplit, Reply
  <2>7. CASE AnswerConvert
      BY <2>1, <2>7 DEF DirectIInv, AnswerConvert, Reply
  <2>8. CASE UNCHANGED exchange
      BY <2>1, <2>8 DEF DirectIInv, exchange
  <2>9. QED  BY <2>1, <2>2, <2>3, <2>4, <2>5, <2>6, <2>7, <2>8 DEF DirectNext
<1>3. QED  BY <1>1, <1>2, PTL DEF DirectSpec

\* What Jedi and Pyright know of a symbol is merged, limited and reported
\* without losing or inventing a location, and a backend that failed is told or
\* ends the call (references.py:86-189, type_users.py:173-242).
THEOREM MergesHonestAlways == DirectSpec => []MergesHonest
<1>1. DirectIInv => MergesHonest
  <2>1. SUFFICES ASSUME DirectIInv PROVE MergesHonest
      OBVIOUS
  <2>2. ASSUME Answered("lookup") PROVE JediHonest(question, answer[1])
    <3>1. question \in Lookups /\ answer[1] = Jedi(question.method, question.lib)
        BY <2>1, <2>2 DEF DirectIInv, Answered
    <3>2. QED  BY <3>1, JediIsHonest
  <2>3. ASSUME Answered("uses")
        PROVE  /\ ReferencesHonest(question, answer[1].references)
               /\ BucketsAddUp(question, answer[1].users)
               /\ FallbackHonest(question)
    <3>1. /\ question \in Uses
          /\ answer[1] = [references |-> FindReferences(question), users |-> TypeUsers(question)]
        BY <2>1, <2>3 DEF DirectIInv, Answered
    <3>2. answer[1].references = FindReferences(question) /\ answer[1].users = TypeUsers(question)
        BY <3>1
    <3>3. question \in UseQuestions
        BY <3>1, UsesAssumption DEF UseQuestions
    <3>4. QED  BY <3>2, <3>3, ReferencesAreHonest, TypeUsersHonest, FallbacksAreHonest
  <2>4. QED  BY <2>2, <2>3 DEF MergesHonest
<1>2. QED  BY <1>1, DirectInvariance, PTL

\* No scan calls a symbol unused because something failed or leaves a file out
\* in silence, and its pages fit together (dead_code.py:96-201,
\* unused_symbols.py:83-161).
THEOREM UnusedMeansUnusedAlways == DirectSpec => []UnusedMeansUnused
<1>1. DirectIInv => UnusedMeansUnused
  <2>1. SUFFICES ASSUME DirectIInv, Answered("scan") PROVE ScansHonest(question)
      BY DEF UnusedMeansUnused
  <2>2. question \in Scans
      BY <2>1 DEF DirectIInv, Answered
  <2>3. ScanQuestion(question)
      BY <2>2, ScansAssumption DEF ScanQuestion
  <2>4. QED  BY <2>3, ScansAreHonest
<1>2. QED  BY <1>1, DirectInvariance, PTL

\* A rewrite that other code has to get along with keeps what it means for it:
\* every call of a converted function gives its parameters what it gave, what
\* moves to a collaborator finds there what it uses, a dataclass takes what its
\* constructor took, the signature pre-check counts no parameter that Rope does
\* not have, and a split moves every symbol once, over no change of another
\* program (function_method_conversion.py:247-267, class_extraction.py:303-445,
\* dataclass_conversion.py:108-186, rope_backend.py:181-229 and 602-790).
THEOREM RewritesKeepMeaningAlways == DirectSpec => []RewritesKeepMeaning
<1>1. DirectIInv => RewritesKeepMeaning
  <2>1. SUFFICES ASSUME DirectIInv PROVE RewritesKeepMeaning
      OBVIOUS
  <2>2. ASSUME Answered("convert") PROVE ConversionKeeps(question, answer[1])
    <3>1. question \in Converted /\ answer[1] = Convert(question)
        BY <2>1, <2>2 DEF DirectIInv, Answered
    <3>2. question.tool \in {"function", "extract", "dataclass"}
        BY <3>1, ConvertedAssumption
    <3>3. CASE question.tool = "function"
      <4>1. CallsKept(question, ConvertFunction(question))
          BY <3>1, <3>3, CallsAreKept
      <4>2. QED  BY <3>1, <3>3, <4>1 DEF ConversionKeeps, Convert
    <3>4. CASE question.tool = "extract"
      <4>1. MembersFound(question, ExtractClass(question))
          BY <3>1, <3>4, MembersAreFound
      <4>2. QED  BY <3>1, <3>4, <4>1 DEF ConversionKeeps, Convert
    <3>5. CASE question.tool = "dataclass"
      <4>1. ConstructorKept(question, ConvertToDataclass(question))
          BY <3>1, <3>5, ConstructorIsKept
      <4>2. QED  BY <3>1, <3>5, <4>1 DEF ConversionKeeps, Convert
    <3>6. QED  BY <3>2, <3>3, <3>4, <3>5
  <2>3. ASSUME Answered("signature") PROVE SignatureSafe(question, answer[1])
    <3>1. question \in Signatures /\ answer[1] = Accepts(question.defaults, question.operations)
        BY <2>1, <2>3 DEF DirectIInv, Answered
    <3>2. QED  BY <3>1, SignatureIsSafe
  <2>4. ASSUME Answered("split") PROVE SplitWhole(question, answer[1])
    <3>1. question \in Splits /\ answer[1] = SplitModule(question)
        BY <2>1, <2>4 DEF DirectIInv, Answered
    <3>2. QED  BY <3>1, SplitIsWhole
  <2>5. QED  BY <2>2, <2>3, <2>4 DEF RewritesKeepMeaning
<1>2. QED  BY <1>1, DirectInvariance, PTL
=============================================================================
