------------------------------ MODULE EditBatch ------------------------------
(***************************************************************************)
(* apply_text_edits_atomically (util/diff.py) among the others that write  *)
(* to the same files: further batches, the formatting tools, which replace *)
(* a file without looking again, and editors outside the server.           *)
(*                                                                         *)
(* The contents of a file are the set of those whose edits are in it; the  *)
(* bytes compared by the code are equal when these sets are.  Files are    *)
(* numbers in the order in which a batch writes them.                      *)
(***************************************************************************)
EXTENDS Naturals, FiniteSets

CONSTANTS
    Files,
    Batches,    \* calls of apply_text_edits_atomically
    Expecting,  \* those of them that pass expected_contents
    Formatters, \* applying calls of format_code and apply_lint_fixes
    Editors     \* edits made by other programs

ASSUME ConstantsAssumption ==
    /\ Files \subseteq Nat
    /\ IsFiniteSet(Files)
    /\ Expecting \subseteq Batches
    /\ Batches \cap Formatters = {}
    /\ Editors \cap (Batches \cup Formatters) = {}

Writers == Batches \cup Formatters \cup Editors
Contents == SUBSET Writers

VARIABLES
    disk,      \* the files' contents
    pc,        \* where a batch is
    targets,   \* the files a batch edits
    expected,  \* their contents when the edits were computed
    original,  \* their contents when the batch was prepared
    written,   \* the files a batch replaced, and has not restored since
    left,      \* the files the batch reports it could not restore
    seen,      \* what a formatter read, and of which file
    edited,    \* the files with an outside edit, by editor
    \* history variables, for the properties
    looked,    \* what a batch saw when it last looked at a file
    raced      \* files replaced although they changed after that

vars == <<disk, pc, targets, expected, original, written, left, seen, edited,
          looked, raced>>
others == <<seen, edited>>

Failed == {"rejected", "restored", "partly"}

\* What the batch makes of a file.
Updated(b, f) == original[b][f] \cup {b}

\* The file is replaced by someone who last saw it with the contents c.
Raced(f, c) == IF disk[f] = c THEN raced ELSE raced \cup {f}

-----------------------------------------------------------------------------
(* Preparation: the edits are computed, every file is read *)

Plan(b, fs) ==
    /\ pc[b] = "idle"
    /\ pc' = [pc EXCEPT ![b] = "planned"]
    /\ targets' = [targets EXCEPT ![b] = fs]
    /\ expected' = [expected EXCEPT ![b] = disk]
    /\ UNCHANGED <<disk, original, written, left, others,
                   looked, raced>>

\* A file is not what the edits were computed from.
Reject(b) ==
    /\ pc[b] = "planned"
    /\ b \in Expecting
    /\ \E f \in targets[b] : disk[f] # expected[b][f]
    /\ pc' = [pc EXCEPT ![b] = "rejected"]
    /\ UNCHANGED <<disk, targets, expected, original, written, left, others,
                   looked, raced>>

Prepare(b) ==
    /\ pc[b] = "planned"
    /\ b \in Expecting => \A f \in targets[b] : disk[f] = expected[b][f]
    /\ pc' = [pc EXCEPT ![b] = "writing"]
    /\ original' = [original EXCEPT ![b] = disk]
    /\ UNCHANGED <<disk, targets, expected, written, left, others,
                   looked, raced>>

-----------------------------------------------------------------------------
(* The writes, in the order of the files *)

Unwritten(b) == targets[b] \ written[b]

\* Mutant: the next of all files, the batch's or not.
IsNextAnywhere(b, f) ==
    /\ f \in Files \ written[b]
    /\ \A g \in Files \ written[b] : f <= g

IsNext(b, f) == f \in Unwritten(b) /\ \A g \in Unwritten(b) : f <= g

\* Mutant: the file is not compared with its original.
CheckNothing(b, f) ==
    /\ pc[b] = "writing"
    /\ IsNext(b, f)
    /\ pc' = [pc EXCEPT ![b] = "replacing"]
    /\ looked' = [looked EXCEPT ![b] = disk[f]]
    /\ UNCHANGED <<disk, targets, expected, original, written, left, others,
                   raced>>

\* _replace_atomic: the file still is as it was read.
Check(b, f) ==
    /\ pc[b] = "writing"
    /\ IsNext(b, f)
    /\ disk[f] = original[b][f]
    /\ pc' = [pc EXCEPT ![b] = "replacing"]
    /\ looked' = [looked EXCEPT ![b] = disk[f]]
    /\ UNCHANGED <<disk, targets, expected, original, written, left, others,
                   raced>>

\* os.replace.
Replace(b, f) ==
    /\ pc[b] = "replacing"
    /\ IsNext(b, f)
    /\ disk' = [disk EXCEPT ![f] = Updated(b, f)]
    /\ raced' = Raced(f, looked[b])
    /\ written' = [written EXCEPT ![b] = @ \cup {f}]
    /\ pc' = [pc EXCEPT ![b] = IF Unwritten(b) = {f} THEN "done" ELSE "writing"]
    /\ UNCHANGED <<targets, expected, original, left, others, looked>>

\* The file is stale, or the write fails.
WriteFails(b, f) ==
    /\ pc[b] \in {"writing", "replacing"}
    /\ IsNext(b, f)
    /\ pc' = [pc EXCEPT ![b] = IF written[b] = {} THEN "restored" ELSE "undoing"]
    /\ UNCHANGED <<disk, targets, expected, original, written, left, others,
                   looked, raced>>

-----------------------------------------------------------------------------
(* The rollback, in the opposite order *)

IsLast(b, f) == f \in written[b] /\ \A g \in written[b] : g <= f

\* What follows when f was the last file to restore.
AfterUndo(b, f, reported) ==
    IF written[b] # {f} THEN "undoing"
    ELSE IF reported = {} THEN "restored" ELSE "partly"

\* Mutant: the rollback does not compare either.
UndoCheckNothing(b, f) ==
    /\ pc[b] = "undoing"
    /\ IsLast(b, f)
    /\ pc' = [pc EXCEPT ![b] = "restoring"]
    /\ looked' = [looked EXCEPT ![b] = disk[f]]
    /\ UNCHANGED <<disk, targets, expected, original, written, left, others,
                   raced>>

\* The file still is as the batch wrote it.
UndoCheck(b, f) ==
    /\ pc[b] = "undoing"
    /\ IsLast(b, f)
    /\ disk[f] = Updated(b, f)
    /\ pc' = [pc EXCEPT ![b] = "restoring"]
    /\ looked' = [looked EXCEPT ![b] = disk[f]]
    /\ UNCHANGED <<disk, targets, expected, original, written, left, others,
                   raced>>

Restore(b, f) ==
    /\ pc[b] = "restoring"
    /\ IsLast(b, f)
    /\ disk' = [disk EXCEPT ![f] = original[b][f]]
    /\ raced' = Raced(f, looked[b])
    /\ written' = [written EXCEPT ![b] = @ \ {f}]
    /\ pc' = [pc EXCEPT ![b] = AfterUndo(b, f, left[b])]
    /\ UNCHANGED <<targets, expected, original, left, others, looked>>

\* Mutant: a file that could not be restored is not reported.
UndoFailsSilently(b, f) ==
    /\ pc[b] \in {"undoing", "restoring"}
    /\ IsLast(b, f)
    /\ written' = [written EXCEPT ![b] = @ \ {f}]
    /\ pc' = [pc EXCEPT ![b] = AfterUndo(b, f, left[b])]
    /\ UNCHANGED <<disk, targets, expected, original, left, others,
                   looked, raced>>

\* Someone changed the file since, or the write fails.
UndoFails(b, f) ==
    /\ pc[b] \in {"undoing", "restoring"}
    /\ IsLast(b, f)
    /\ left' = [left EXCEPT ![b] = @ \cup {f}]
    /\ written' = [written EXCEPT ![b] = @ \ {f}]
    /\ pc' = [pc EXCEPT ![b] = AfterUndo(b, f, left'[b])]
    /\ UNCHANGED <<disk, targets, expected, original, others, looked,
                   raced>>

-----------------------------------------------------------------------------
(* The other writers *)

\* A formatter reads a file and waits for ruff.
Read(t, f) ==
    /\ seen[t] = {}
    /\ seen' = [seen EXCEPT ![t] = {[file |-> f, contents |-> disk[f]]}]
    /\ UNCHANGED <<disk, pc, targets, expected, original, written, left, edited,
                   looked, raced>>

\* It writes the result over whatever the file is by then.
Overwrite(t, r) ==
    /\ r \in seen[t]
    /\ t \notin r.contents
    /\ disk' = [disk EXCEPT ![r.file] = r.contents \cup {t}]
    /\ raced' = Raced(r.file, r.contents)
    /\ seen' = [seen EXCEPT ![t] = {[r EXCEPT !.contents = @ \cup {t}]}]
    /\ UNCHANGED <<pc, targets, expected, original, written, left, edited, looked>>

\* An outside edit of the file as it is.
Edit(e, f) ==
    /\ edited[e] = {}
    /\ edited' = [edited EXCEPT ![e] = {f}]
    /\ disk' = [disk EXCEPT ![f] = @ \cup {e}]
    /\ UNCHANGED <<pc, targets, expected, original, written, left, seen,
                   looked, raced>>

-----------------------------------------------------------------------------
Init ==
    /\ disk = [f \in Files |-> {}]
    /\ pc = [b \in Batches |-> "idle"]
    /\ targets = [b \in Batches |-> {}]
    /\ expected = [b \in Batches |-> disk]
    /\ original = [b \in Batches |-> disk]
    /\ written = [b \in Batches |-> {}]
    /\ left = [b \in Batches |-> {}]
    /\ seen = [t \in Formatters |-> {}]
    /\ edited = [e \in Editors |-> {}]
    /\ looked = [b \in Batches |-> {}]
    /\ raced = {}

BatchStep(b) ==
    \/ \E fs \in (SUBSET Files) \ {{}} : Plan(b, fs)
    \/ Reject(b)
    \/ Prepare(b)
    \/ \E f \in Files : Check(b, f)
    \/ \E f \in Files : Replace(b, f)
    \/ \E f \in Files : WriteFails(b, f)
    \/ \E f \in Files : UndoCheck(b, f)
    \/ \E f \in Files : Restore(b, f)
    \/ \E f \in Files : UndoFails(b, f)

Next ==
    \/ \E b \in Batches : BatchStep(b)
    \/ \E t \in Formatters, f \in Files : Read(t, f)
    \/ \E t \in Formatters : \E r \in seen[t] : Overwrite(t, r)
    \/ \E e \in Editors, f \in Files : Edit(e, f)

Spec == Init /\ [][Next]_vars

-----------------------------------------------------------------------------
(* Properties.  A file in raced was replaced in the moment between the last   *)
(* look at it and os.replace, or by a formatter: there anything may be lost. *)

\* Every variable holds a value of its type, and a batch writes its own files only.
TypeOK ==
    /\ disk \in [Files -> Contents]
    /\ pc \in [Batches -> {"idle", "planned", "writing", "replacing", "undoing",
                           "restoring", "done"} \cup Failed]
    /\ targets \in [Batches -> SUBSET Files]
    /\ expected \in [Batches -> [Files -> Contents]]
    /\ original \in [Batches -> [Files -> Contents]]
    /\ written \in [Batches -> SUBSET Files]
    /\ left \in [Batches -> SUBSET Files]
    /\ seen \in [Formatters -> SUBSET [file : Files, contents : Contents]]
    /\ edited \in [Editors -> SUBSET Files]
    /\ \A b \in Batches : written[b] \cup left[b] \subseteq targets[b]
    /\ looked \in [Batches -> Contents]
    /\ raced \subseteq Files

\* A batch that succeeded stays applied, in every one of its files: no rollback
\* of another batch that wrote there before, and no write that was planned
\* before, takes it back.
DoneStays ==
    \A b \in Batches : pc[b] = "done" =>
        \A f \in targets[b] \ raced : b \in disk[f]

\* A batch that failed is in no file but those it names as not restored, also
\* when others edited its files meanwhile.
FailedLeavesNothing ==
    \A b \in Batches : pc[b] \in Failed =>
        \A f \in Files \ (left[b] \cup raced) : b \notin disk[f]

\* An outside edit is never undone, neither by a batch nor by a rollback.
OutsideEditsSurvive ==
    \A e \in Editors : \A f \in edited[e] \ raced : e \in disk[f]
=============================================================================
