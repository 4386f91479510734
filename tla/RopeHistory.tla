----------------------------- MODULE RopeHistory -----------------------------
(***************************************************************************)
(* The Rope backend's writes to the disk (backends/rope_backend.py): plain *)
(* refactorings, the change stack that chains them, transactions, undo and *)
(* redo, and a worker thread that goes on after its call timed out.        *)
(*                                                                         *)
(* One client calls, one call at a time.  A change gives the files it      *)
(* touches their whole new contents, as Rope's do; the contents of a file  *)
(* are the set of the changes that went into it, or Absent.                *)
(***************************************************************************)
EXTENDS Naturals, Sequences, FiniteSets, SequencesExt

CONSTANTS
    Files,
    Absent,      \* what a file is that does not exist
    None,        \* no change stack, no disk to compare with
    MaxHistory,  \* Rope's max_history_items
    MaxChanges,  \* bound: changes ever computed
    MaxLate      \* bound: calls that time out with their worker alive

ASSUME ConstantsAssumption ==
    MaxHistory \in Nat \ {0} /\ MaxChanges \in Nat /\ MaxLate \in Nat

\* What a file holds, a disk, and what a change or a backup says of some files.
Contents == (SUBSET (1..MaxChanges)) \cup {Absent}
Disks == [Files -> Contents]
Parts == UNION {[fs -> Contents] : fs \in SUBSET Files}

\* Entries of the history: what the files of a change were, and what it makes
\* of them.
Entries == {e \in [old : Parts, new : Parts] : DOMAIN e.old = DOMAIN e.new}

ASSUME NoneAssumption == None \notin Seq(Entries)

VARIABLES
    project,    \* disk, and Rope's undo and redo lists, the latest entry last
    stack,      \* the entries of _change_stack, or None
    originals,  \* _change_stack_originals
    call,       \* the call that is under way
    late,       \* changes whose call timed out before its worker applied them
    fresh,      \* number of the next change
    timeouts,   \* how many calls timed out
    \* history variables, for the properties
    base,       \* project when the change stack began
    seen,       \* what happened since then: pushes of "edits", of changes with
                \* "files" operations too, or "other" uses of the history as well
    loose       \* the disk was written without the history knowing, or the
                \* change stack closed after other calls had used the history

history == <<base, seen, loose>>
vars == <<project, stack, originals, call, late, fresh, timeouts, history>>

Idle == [op |-> "none"]

-----------------------------------------------------------------------------
(* Rope's history and change stack, as the backend uses them *)

\* The files of a part as it says, the others as they are.
Onto(part, files) ==
    [f \in DOMAIN part \cup DOMAIN files |->
        IF f \in DOMAIN part THEN part[f] ELSE files[f]]

\* A change that is done, with what its files were before.
Entry(change, disk) == [old |-> [f \in DOMAIN change |-> disk[f]], new |-> change]

NoEntry == [old |-> <<>>, new |-> <<>>]

\* ChangeStack.merged: the first old contents and the last new ones.
Places(entries, f) == {i \in DOMAIN entries : f \in DOMAIN entries[i].new}

Merged(entries) ==
    LET touched == UNION {DOMAIN entries[i].new : i \in DOMAIN entries} IN
    [old |-> [f \in touched |-> entries[Min(Places(entries, f))].old[f]],
     new |-> [f \in touched |-> entries[Max(Places(entries, f))].new[f]]]

\* Mutant: the history is not bounded.
LatestUnbounded(s) == s

Latest(s) ==
    IF Len(s) <= MaxHistory THEN s ELSE SubSeq(s, Len(s) - MaxHistory + 1, Len(s))

\* project.do: perform, record, drop the oldest entries and all that was undone.
\* A change of nothing is not recorded.
Do(p, e) ==
    [disk |-> Onto(e.new, p.disk),
     undo |-> IF DOMAIN e.new = {} THEN p.undo ELSE Latest(Append(p.undo, e)),
     redo |-> <<>>]

\* history.undo, n times.
UndoTimes(p, n) ==
    LET k == Len(p.undo) - n
        gone == SubSeq(p.undo, k + 1, Len(p.undo))
    IN  [disk |-> Onto(Merged(gone).old, p.disk),
         undo |-> SubSeq(p.undo, 1, k),
         redo |-> p.redo \o Reverse(gone)]

\* history.redo, n times.
RedoTimes(p, n) ==
    LET k == Len(p.redo) - n
        back == Reverse(SubSeq(p.redo, k + 1, Len(p.redo)))
    IN  [disk |-> Onto(Merged(back).new, p.disk),
         undo |-> p.undo \o back,
         redo |-> SubSeq(p.redo, 1, k)]

\* ChangeStack.pop_all undoes as many entries as the stack has, whichever they
\* are.  It raises on the way when the history is shorter.
CanPopAll(p, s) == Len(s) <= Len(p.undo)

PopAll(p, s) == UndoTimes(p, IF CanPopAll(p, s) THEN Len(s) ELSE Len(p.undo))

-----------------------------------------------------------------------------
(* Changes and how they are applied *)

Exists(f) == project.disk[f] # Absent

\* Edits of some files.
Edit(fs) == [f \in fs |-> project.disk[f] \cup {fresh}]

\* A file operation: g is created, or f is moved to g, and the files that
\* mention it are edited.
Create(g, fs) == Onto([h \in {g} |-> {fresh}], Edit(fs))
Move(f, g, fs) ==
    Onto([h \in {f, g} |-> IF h = f THEN Absent ELSE project.disk[f]], Edit(fs))

Changes ==
    LET here == {f \in Files : Exists(f)} IN
    {Edit(fs) : fs \in (SUBSET here) \ {{}}}
    \cup {Create(g, fs) : g \in Files \ here, fs \in SUBSET here}
    \cup UNION {{Move(f, g, fs) : g \in Files \ here, fs \in SUBSET (here \ {f})} :
                    f \in here}

\* The files whose contents a change replaces; the others of a change it makes,
\* moves or removes.
Edited(change) ==
    {f \in DOMAIN change : Exists(f) /\ change[f] # Absent}

\* The file is written without Rope knowing.
Write(contents) == [project EXCEPT !.disk = Onto(contents, @)]

\* Mutant: the bytes are those after the push.
SaveTooLate(change) == Onto(originals, [f \in Edited(change) |-> change[f]])

\* The bytes of the files a push is about to edit for the first time.
Save(change) == Onto(originals, [f \in Edited(change) |-> project.disk[f]])

\* What a push adds to an undisturbed stack.
SeenWith(change) ==
    IF seen = "other" \/ call # Idle THEN "other"
    ELSE IF Edited(change) = DOMAIN change THEN seen ELSE "files"

\* Mutant: the edits are written as they are without a change stack.
PushPastHistory(change) ==
    /\ stack # None
    /\ originals' = Save(change)
    /\ stack' = Append(stack, Entry(change, project.disk))
    /\ project' = Write(change)
    /\ seen' = SeenWith(change)
    /\ UNCHANGED loose

\* Onto the change stack; the entry stays on it when do fails.
Push(change) ==
    /\ stack # None
    /\ originals' = Save(change)
    /\ stack' = Append(stack, Entry(change, project.disk))
    /\ \/ project' = Do(project, Entry(change, project.disk)) /\ seen' = SeenWith(change)
       \/ project' = project /\ seen' = "other"
    /\ UNCHANGED loose

\* Rope performs a change that makes, moves or removes files.
Perform(change) ==
    /\ stack = None
    /\ Edited(change) # DOMAIN change
    /\ project' = Do(project, Entry(change, project.disk))
    /\ UNCHANGED <<stack, originals, seen, loose>>

\* _apply_edits.
ApplyEdits(change) ==
    /\ stack = None
    /\ Edited(change) = DOMAIN change
    /\ project' = Write(change)
    /\ loose' = TRUE
    /\ UNCHANGED <<stack, originals, seen>>

\* _build_result with apply.  Without a change stack, one that fails leaves
\* nothing behind.
BuildResult(change) == Push(change) \/ Perform(change) \/ ApplyEdits(change)

-----------------------------------------------------------------------------
(* Refactorings, undo and redo *)

\* What else happens while a change stack is open.
Disturb == seen' = IF stack = None THEN seen ELSE "other"

Refactor(change) ==
    /\ call = Idle
    /\ fresh <= MaxChanges
    /\ fresh' = fresh + 1
    /\ BuildResult(change)
    /\ UNCHANGED <<call, late, timeouts, base>>

\* The call times out while its worker still computes the change.
TimeOut(change) ==
    /\ call = Idle
    /\ fresh <= MaxChanges
    /\ timeouts < MaxLate
    /\ fresh' = fresh + 1
    /\ timeouts' = timeouts + 1
    /\ late' = late \cup {change}
    /\ UNCHANGED <<project, stack, originals, call, history>>

\* The worker nobody waits for applies its change.
LateApply(change) ==
    /\ change \in late
    /\ late' = late \ {change}
    /\ BuildResult(change)
    /\ call' = IF call.op = "transaction" THEN [call EXCEPT !.alone = FALSE] ELSE call
    /\ UNCHANGED <<fresh, timeouts, base>>

Undo(n) ==
    /\ call = Idle
    /\ n \in 1..Len(project.undo)
    /\ project' = UndoTimes(project, n)
    /\ Disturb
    /\ UNCHANGED <<stack, originals, call, late, fresh, timeouts, base, loose>>

Redo(n) ==
    /\ call = Idle
    /\ n \in 1..Len(project.redo)
    /\ project' = RedoTimes(project, n)
    /\ Disturb
    /\ UNCHANGED <<stack, originals, call, late, fresh, timeouts, base, loose>>

-----------------------------------------------------------------------------
(* The change stack *)

BeginChangeStack ==
    /\ call = Idle
    /\ stack = None
    /\ stack' = <<>>
    /\ originals' = <<>>
    /\ base' = project
    /\ seen' = "edits"
    /\ UNCHANGED <<project, call, late, fresh, timeouts, loose>>

\* Mutant: what was pushed stays in the history.
CloseWithoutPop(op) ==
    /\ call = Idle
    /\ stack # None
    /\ call' = [op |-> op, merged |-> Merged(stack), saved |-> originals,
                popped |-> TRUE, was |-> project.disk]
    /\ stack' = <<>>
    /\ UNCHANGED <<project, originals, late, fresh, timeouts, base, seen, loose>>

\* A worker begins to close the stack: pop_all.
Close(op) ==
    /\ call = Idle
    /\ stack # None
    /\ call' = [op |-> op, merged |-> Merged(stack), saved |-> originals,
                popped |-> CanPopAll(project, stack), was |-> project.disk]
    /\ project' = PopAll(project, stack)
    /\ stack' = <<>>
    /\ UNCHANGED <<originals, late, fresh, timeouts, base, seen, loose>>

Closed ==
    /\ stack' = None
    /\ originals' = <<>>
    /\ call' = Idle
    /\ base' = None
    /\ seen' = "edits"
    /\ UNCHANGED <<late, fresh, timeouts>>

Commit ==
    /\ call.op = "commit" /\ call.popped
    /\ project' = Do(project, call.merged)
    /\ Closed
    /\ loose' = (loose \/ seen = "other")

\* Mutant: nothing is written back.
CommitFailsInPlace ==
    /\ call.op = "commit"
    /\ Closed
    /\ UNCHANGED <<project, loose>>

\* pop_all raised, or do: write the originals back.
CommitFails ==
    /\ call.op = "commit"
    /\ project' = Write(call.saved)
    /\ Closed
    /\ loose' = (loose \/ seen # "edits" \/ ~call.popped)

Rollback ==
    /\ call.op = "rollback" /\ call.popped
    /\ project' = Write(call.saved)
    /\ Closed
    /\ loose' = (loose \/ seen # "edits")

\* pop_all raised: the originals are not written.
RollbackFails ==
    /\ call.op = "rollback" /\ ~call.popped
    /\ Closed
    /\ UNCHANGED <<project, loose>>

-----------------------------------------------------------------------------
(* apply_transaction, one step at a time; its change stack is its own *)

BeginTransaction ==
    /\ call = Idle
    /\ fresh <= MaxChanges
    /\ call' = [op |-> "transaction", pushed |-> <<>>, start |-> project.disk,
                alone |-> TRUE]
    /\ Disturb
    /\ UNCHANGED <<project, stack, originals, late, fresh, timeouts, base, loose>>

\* Its tools only edit.
Step(fs) ==
    /\ call.op = "transaction"
    /\ fresh <= MaxChanges
    /\ fresh' = fresh + 1
    /\ LET e == Entry(Edit(fs), project.disk) IN
       /\ project' = Do(project, e)
       /\ call' = [call EXCEPT !.pushed = Append(@, e)]
    /\ UNCHANGED <<stack, originals, late, timeouts, history>>

EndTransaction ==
    /\ call.op = "transaction"
    /\ call.pushed # <<>>
    /\ call' = Idle
    /\ UNCHANGED <<project, stack, originals, late, fresh, timeouts, history>>

\* Mutant: the steps that were pushed stay.
AbortWithoutPop(s) ==
    /\ call.op = "transaction"
    /\ call' = Idle
    /\ UNCHANGED <<project, stack, originals, late, fresh, timeouts, history>>

\* A step raises; s is the stack it leaves.
Abort(s) ==
    /\ call.op = "transaction"
    /\ project' = PopAll(project, s)
    /\ call' = Idle
    /\ UNCHANGED <<stack, originals, late, fresh, timeouts, history>>

\* While it is computed, or as it overlaps an earlier step.
StepFails == call.op = "transaction" /\ Abort(call.pushed)

\* In its push: the entry is on the stack by then, and not in the history.
PushFails == call.op = "transaction" /\ Abort(Append(call.pushed, NoEntry))

-----------------------------------------------------------------------------
Init ==
    /\ project \in [disk : {[f \in Files |-> IF f \in there THEN {} ELSE Absent] :
                                there \in (SUBSET Files) \ {{}}},
                    undo : {<<>>}, redo : {<<>>}]
    /\ stack = None
    /\ originals = <<>>
    /\ call = Idle
    /\ late = {}
    /\ fresh = 1
    /\ timeouts = 0
    /\ base = None /\ seen = "edits" /\ loose = FALSE

Next ==
    \/ \E change \in Changes : Refactor(change) \/ TimeOut(change)
    \/ \E change \in late : LateApply(change)
    \/ \E n \in 1..MaxHistory : Undo(n) \/ Redo(n)
    \/ BeginChangeStack
    \/ \E op \in {"commit", "rollback"} : Close(op)
    \/ Commit \/ CommitFails \/ Rollback \/ RollbackFails
    \/ BeginTransaction
    \/ \E fs \in (SUBSET {f \in Files : Exists(f)}) \ {{}} : Step(fs)
    \/ EndTransaction \/ StepFails \/ PushFails

Spec == Init /\ [][Next]_vars

-----------------------------------------------------------------------------
(* Properties *)

\* Every variable holds a value of its type, and Rope's lists stay in bounds.
TypeOK ==
    /\ project \in [disk : Disks, undo : Seq(Entries), redo : Seq(Entries)]
    /\ Len(project.undo) + Len(project.redo) <= MaxHistory
    /\ stack \in Seq(Entries) \cup {None}
    /\ originals \in Parts
    /\ call.op \in {"none", "commit", "rollback", "transaction"}
    /\ late \subseteq Parts
    /\ fresh \in 1..(MaxChanges + 1) /\ timeouts \in 0..MaxLate
    /\ loose \in BOOLEAN

\* The change stack pops by number, so its entries must be the latest of the
\* history: they are, after any sequence of pushes, those of workers whose call
\* timed out included, until another tool writes to the same history.
StackEndsHistory ==
    stack # None /\ call = Idle /\ seen # "other" =>
        \/ IsSuffix(stack, project.undo)
        \/ IsSuffix(project.undo, stack) /\ Len(project.undo) = MaxHistory

\* rollback_change_stack: whatever edits were pushed, several to a file and late
\* ones included, the disk is what it was at begin_change_stack.
RollbackRestores == Rollback /\ seen = "edits" => project'.disk = base.disk

\* commit_change_stack keeps the edits and collapses them into one entry of the
\* history, which undoes them all.
CommitCollapses ==
    Commit /\ seen # "other" =>
        /\ project'.disk = call.was
        /\ DOMAIN call.merged.new # {} =>
            /\ UndoTimes(project', 1).disk = base.disk
            /\ IsSuffix(UndoTimes(project', 1).undo, base.undo)

\* A commit that fails, at pop_all or at do, puts every edited file back.
FailedCommitRestores ==
    call.op = "commit" /\ CommitFails /\ seen = "edits" => project'.disk = base.disk

\* apply_transaction: a step that raises before it is pushed leaves the disk
\* as it was before the transaction, unless the history is too short for it or
\* a worker wrote in between.
AbortRestores ==
    StepFails /\ CanPopAll(project, call.pushed) /\ call.alone =>
        project'.disk = call.start

\* A change stack or a transaction ends with all of its edits or with none,
\* whichever way it ends (rope_backend.py:1453-1534, 1652-1720).
AllOrNothing ==
    [][RollbackRestores /\ CommitCollapses /\ FailedCommitRestores /\ AbortRestores]_vars

\* undo_refactoring and redo_refactoring undo each other's effect on the disk,
\* across change stacks committed, rolled back or failed, transactions, file
\* operations and late workers, as long as all writes went through the history.
UndoRedoInverse ==
    ~loose =>
        /\ \A n \in 1..Len(project.undo) :
               RedoTimes(UndoTimes(project, n), n) = project
        /\ \A n \in 1..Len(project.redo) :
               UndoTimes(RedoTimes(project, n), n) = project

\* rollback_change_stack, rope_backend.py:1502: "Revert every change pushed since
\* ``begin_change_stack``."  Not when a file that a pushed change made was edited
\* by a later one: the originals, written last, hold that file.
RollbackReverts ==
    [][Rollback /\ seen # "other" =>
        project'.disk = base.disk]_vars
=============================================================================
