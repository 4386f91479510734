-------------------------- MODULE MCPyrightRequests --------------------------
(* PyrightRequests on an instance of its own.                               *)
EXTENDS PyrightRequests

\* One feature of each kind: refreshed and opened, plain and optional with
\* its provider there or not, with a fallback, and the restart.
MCAsked == {"declaration", "prepare_rename", "implementation", "folding_ranges",
            "restart_server"}
MCProvided == {"foldingRangeProvider"}
=============================================================================
