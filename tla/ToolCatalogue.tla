--------------------------- MODULE ToolCatalogue ---------------------------
(***************************************************************************)
(* The tools of the server: what the delegates of tool_registry.py and     *)
(* server.py take and do, what their annotations say of them, and the      *)
(* profiles they are advertised in.                                        *)
(***************************************************************************)
EXTENDS Naturals, FiniteSets

-----------------------------------------------------------------------------
(* A tool takes least to most absolute paths (two stand for any number of   *)
(* more), and is called for its effect:                                     *)
(*   "reads"    nothing;                                                    *)
(*   "stubs"    it writes stub files at once;                               *)
(*   "edits"    it writes edits when asked to apply them;                   *)
(*   "pushes"   so, and through Rope: on the change stack if one is open;   *)
(*   "spreads"  so, in the workspaces of its additional roots as well;      *)
(* and the tools of the history and the session by their names.             *)
Rows(names, least, most, effect) ==
    {[name |-> t, paths |-> least..most, effect |-> effect] : t \in names}

SemanticQueries ==
    Rows({"find_references", "find_type_users", "get_type_info",
          "get_documentation", "get_signature_help", "get_document_highlights",
          "get_semantic_tokens"}, 1, 1, "reads")

DiagnosticQueries ==
    Rows({"get_diagnostics", "get_workspace_diagnostics"}, 0, 2, "reads")

StaticQueries ==
    Rows({"deep_type_inference", "get_type_hint_string", "get_syntax_errors",
          "get_context", "get_all_names"}, 1, 1, "reads")

StubTools ==
    Rows({"create_type_stubs"}, 0, 0, "stubs")
    \cup Rows({"check_type_stub_freshness"}, 1, 1, "reads")

NavigationTools ==
    Rows({"call_hierarchy", "goto_definition", "type_hierarchy",
          "selection_range", "find_implementations", "get_declaration",
          "get_type_definition", "get_folding_ranges"}, 1, 1, "reads")
    \cup Rows({"test_impact_select"}, 0, 0, "reads")

Extractions ==
    Rows({"rename_symbol", "extract_method", "extract_variable",
          "inline_variable"}, 1, 1, "pushes")
    \cup Rows({"move_symbol"}, 2, 2, "pushes")

FileEdits ==
    Rows({"split_module", "apply_code_action"}, 1, 1, "edits")
    \cup Rows({"organize_imports", "format_code", "apply_lint_fixes",
             "apply_type_annotations"}, 1, 2, "edits")

ClassConversions ==
    Rows({"convert_to_dataclass", "convert_to_pydantic", "convert_to_typeddict",
          "convert_function_to_method", "convert_method_to_function"},
         1, 1, "edits")

SyntaxRewrites ==
    Rows({"docstring_sync", "extract_superclass", "extract_class"}, 1, 1, "edits")
    \cup Rows({"fix_circular_imports"}, 0, 2, "edits")

ImportTools ==
    Rows({"expand_star_imports", "relatives_to_absolutes", "froms_to_imports",
          "handle_long_imports"}, 1, 1, "pushes")
    \cup Rows({"autoimport_search"}, 0, 0, "reads")
    \cup Rows({"prepare_rename"}, 1, 1, "reads")

ParameterTools ==
    Rows({"introduce_parameter", "encapsulate_field", "use_function",
          "introduce_factory", "module_to_package", "local_to_field"},
         1, 1, "pushes")
    \cup Rows({"change_signature"}, 1, 1, "edits")
    \cup Rows({"restructure"}, 0, 1, "pushes")

MethodTools ==
    Rows({"method_object", "inline_method", "inline_parameter", "move_method",
          "generate_code"}, 1, 1, "pushes")
    \cup Rows({"move_module"}, 2, 2, "pushes")
    \cup Rows({"fix_module_names"}, 0, 0, "pushes")

SearchTools ==
    Rows({"search_symbols"}, 0, 0, "reads")
    \cup Rows({"find_constructors", "structural_search"}, 0, 1, "reads")
    \cup Rows({"dead_code_detection", "unused_symbol_sweep"}, 0, 2, "reads")

MetricsTools ==
    Rows({"suggest_imports", "find_errors_static", "interface_conformance",
          "extract_protocol", "get_module_public_api"}, 1, 1, "reads")
    \cup Rows({"code_metrics", "find_duplicated_code", "get_type_coverage"},
            1, 2, "reads")
    \cup Rows({"get_module_dependencies", "get_coupling_metrics",
             "check_layer_violations"}, 0, 2, "reads")

Compositions ==
    Rows({"diff_preview", "list_environments", "project_search"}, 0, 0, "reads")
    \cup Rows({"refactor_transaction"}, 1, 2, "transaction")
    \cup Rows({"get_keyword_help", "get_sub_definitions", "simulate_execution"},
            1, 1, "reads")

HistoryTools ==
    Rows({"restart_server"}, 0, 0, "restart")
    \cup Rows({"undo_refactoring", "redo_refactoring"}, 0, 0, "undo")
    \cup Rows({"get_refactoring_history"}, 0, 0, "reads")
    \cup Rows({"begin_change_stack"}, 0, 0, "begin")
    \cup Rows({"commit_change_stack"}, 0, 0, "commit")
    \cup Rows({"rollback_change_stack"}, 0, 0, "rollback")
    \cup Rows({"multi_project_rename"}, 1, 1, "spreads")

ServerTools ==
    Rows({"get_completions", "get_inlay_hints"}, 1, 1, "reads")
    \cup Rows({"get_symbol_outline"}, 0, 2, "reads")
    \cup Rows({"argument_normalizer", "argument_default_inliner"}, 1, 1, "edits")

ScanTools ==
    Rows({"find_unused_imports", "get_test_coverage_map", "security_scan"},
         0, 2, "reads")
    \cup Rows({"security_autofix", "structural_replace"}, 0, 2, "edits")
    \cup Rows({"server_status"}, 0, 0, "reads")

Records ==
    SemanticQueries \cup DiagnosticQueries \cup StaticQueries \cup StubTools
    \cup NavigationTools \cup Extractions \cup FileEdits \cup ClassConversions
    \cup SyntaxRewrites \cup ImportTools \cup ParameterTools \cup MethodTools
    \cup SearchTools \cup MetricsTools \cup Compositions \cup HistoryTools
    \cup ServerTools \cup ScanTools

ToolNames == {r.name : r \in Records}

Catalogue == [t \in ToolNames |-> CHOOSE r \in Records : r.name = t]

\* The tools with an argument that must be an identifier.
Named == {"rename_symbol", "extract_method", "extract_variable", "move_symbol",
    "type_hierarchy", "convert_to_dataclass", "convert_to_pydantic",
    "convert_to_typeddict", "convert_function_to_method",
    "convert_method_to_function", "extract_superclass", "extract_class",
    "introduce_parameter", "introduce_factory", "method_object", "move_method",
    "find_constructors", "interface_conformance", "extract_protocol",
    "refactor_transaction", "multi_project_rename"}

-----------------------------------------------------------------------------
(* Annotations and profiles *)

\* The tools registered with ADDITIVE_ANNOTATIONS and DESTRUCTIVE_ANNOTATIONS.
Additive == {"create_type_stubs", "begin_change_stack"}

Destructive ==
    {"rename_symbol", "extract_method", "extract_variable", "inline_variable",
     "move_symbol", "split_module", "apply_code_action", "organize_imports",
     "format_code", "apply_lint_fixes", "apply_type_annotations",
     "convert_to_dataclass", "convert_to_pydantic", "convert_to_typeddict",
     "convert_function_to_method", "convert_method_to_function",
     "docstring_sync", "fix_circular_imports", "extract_superclass",
     "extract_class", "expand_star_imports", "relatives_to_absolutes",
     "froms_to_imports", "handle_long_imports", "introduce_parameter",
     "encapsulate_field", "change_signature", "restructure", "use_function",
     "introduce_factory", "module_to_package", "local_to_field",
     "method_object", "inline_method", "inline_parameter", "move_method",
     "move_module", "generate_code", "fix_module_names",
     "refactor_transaction", "restart_server", "undo_refactoring",
     "redo_refactoring", "commit_change_stack", "rollback_change_stack",
     "multi_project_rename"}

DestructiveExplicit ==
    {"argument_normalizer", "argument_default_inliner", "security_autofix",
     "structural_replace"}

Destroys(t) == t \in Destructive \cup DestructiveExplicit

\* Mutant: what adds files only is taken for a query.
ReadOnlyUnlessDestructive(t) == ~Destroys(t)

\* read_only_hint
ReadOnly(t) == ~Destroys(t) /\ t \notin Additive

Profiles == {"analysis", "refactoring"}

RefactoringSupport ==
    {"autoimport_search", "dead_code_detection", "diff_preview",
     "find_errors_static", "find_references", "find_unused_imports",
     "get_diagnostics", "get_module_dependencies", "get_refactoring_history",
     "get_symbol_outline", "get_syntax_errors", "get_type_info",
     "get_workspace_diagnostics", "goto_definition", "list_environments",
     "prepare_rename", "search_symbols", "security_scan", "selection_range",
     "server_status", "structural_search", "suggest_imports",
     "test_impact_select"}

\* Mutant: the analysis profile hides only what destroys.
ProfileHidesDestructive(p, t) ==
    CASE p = "analysis" -> ~Destroys(t)
      [] p = "refactoring" -> ~ReadOnly(t) \/ t \in RefactoringSupport

\* Mutant: the refactoring profile takes what destroys only.
ProfileForgetsAdditive(p, t) ==
    CASE p = "analysis" -> ReadOnly(t)
      [] p = "refactoring" -> Destroys(t) \/ t \in RefactoringSupport

\* _profile_includes
ProfileIncludes(p, t) ==
    CASE p = "analysis" -> ReadOnly(t)
      [] p = "refactoring" -> ~ReadOnly(t) \/ t \in RefactoringSupport

\* tool_names_for_profile
Advertised == [p \in Profiles |-> {t \in ToolNames : ProfileIncludes(p, t)}]

MaxToolsPerProfile == 80

\* build_tools refuses a profile at the budget, and a name registered twice.
Buildable(p) ==
    /\ Cardinality(Records) = Cardinality(ToolNames)
    /\ Cardinality(Advertised[p]) < MaxToolsPerProfile
=============================================================================
