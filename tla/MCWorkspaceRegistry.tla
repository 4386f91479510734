------------------------ MODULE MCWorkspaceRegistry ------------------------
(***************************************************************************)
(* Instances of WorkspaceRegistry for TLC: the workspace "outer" that      *)
(* contains the project "inner", an unrelated workspace "other", and a     *)
(* file with no marker above it.                                           *)
(***************************************************************************)
EXTENDS WorkspaceRegistry, TLC

CONSTANTS c1, c2, c3, c4, u1

MCDirs == {"outer", "inner", "other"}

MCFiles == {"outer_py", "inner_py", "other_py", "stray_py"}

LiveFiles == MCFiles \ {"inner_py"}

AboveOf(files) == [f \in files |->
    CASE f = "outer_py" -> {"outer"}
      [] f = "inner_py" -> {"outer", "inner"}
      [] f = "other_py" -> {"other"}
      [] f = "stray_py" -> {}]

MCAbove == AboveOf(MCFiles)

LiveAbove == AboveOf(LiveFiles)

MCDepth == [d \in MCDirs |-> IF d = "inner" THEN 2 ELSE 1]

\* The explicit root; the other two are discovered by their markers, and an
\* inner file belongs to "outer" if that one was discovered first.
MCNewRoots == [u \in {u1} |-> {"other"}]

CallSymmetry == Permutations(Calls)
=============================================================================
