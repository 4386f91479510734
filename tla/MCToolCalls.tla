---------------------------- MODULE MCToolCalls ----------------------------
(* ToolCalls on an instance of its own.                                     *)
EXTENDS ToolCalls

CONSTANTS c1, c2, a, b

MCSymmetry == Permutations(Calls) \cup Permutations(Roots)

\* One tool of each effect, and each number of paths.
MCAsked == {"find_constructors", "create_type_stubs", "server_status",
            "move_symbol", "split_module", "multi_project_rename",
            "refactor_transaction", "undo_refactoring", "begin_change_stack",
            "commit_change_stack", "rollback_change_stack"}
=============================================================================
