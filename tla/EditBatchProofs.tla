---------------------------- MODULE EditBatchProofs ----------------------------
(***************************************************************************)
(* Proofs about EditBatch, for every set of batches, formatters, editors   *)
(* and files.                                                              *)
(***************************************************************************)
EXTENDS EditBatch, TLAPS

-----------------------------------------------------------------------------
(* Type correctness, with what a batch has written by the time it is where *)
(* it is.                                                                  *)

Unstarted == {"idle", "planned"}

WrittenInv ==
    \A b \in Batches :
        /\ pc[b] \in Unstarted => written[b] = {} /\ left[b] = {}
        /\ pc[b] \in Failed => written[b] = {}
        /\ pc[b] = "done" => written[b] = targets[b]

TypeInv == TypeOK /\ WrittenInv

LEMMA InitType == Init => TypeInv
BY DEF Init, TypeInv, TypeOK, WrittenInv, Contents, Failed, Unstarted

LEMMA BatchType ==
    ASSUME TypeInv, NEW b \in Batches, BatchStep(b)
    PROVE  TypeInv'
<1> USE DEF TypeInv, TypeOK, WrittenInv, Contents, Writers, Failed, Unstarted,
            others
<1>1. ASSUME NEW fs \in (SUBSET Files) \ {{}}, Plan(b, fs)
      PROVE  TypeInv'
    BY <1>1 DEF Plan
<1>2. CASE Reject(b)
    BY <1>2 DEF Reject
<1>3. CASE Prepare(b)
    BY <1>3 DEF Prepare
<1>4. ASSUME NEW f \in Files, Check(b, f)
      PROVE  TypeInv'
    BY <1>4 DEF Check
<1>5. ASSUME NEW f \in Files, Replace(b, f)
      PROVE  TypeInv'
    BY <1>5 DEF Replace, IsNext, Unwritten, Updated, Raced
<1>6. ASSUME NEW f \in Files, WriteFails(b, f)
      PROVE  TypeInv'
    BY <1>6 DEF WriteFails
<1>7. ASSUME NEW f \in Files, UndoCheck(b, f)
      PROVE  TypeInv'
    BY <1>7 DEF UndoCheck
<1>8. ASSUME NEW f \in Files, Restore(b, f)
      PROVE  TypeInv'
    BY <1>8 DEF Restore, IsLast, AfterUndo, Raced
<1>9. ASSUME NEW f \in Files, UndoFails(b, f)
      PROVE  TypeInv'
    BY <1>9 DEF UndoFails, IsLast, AfterUndo
<1>10. QED
    BY <1>1, <1>2, <1>3, <1>4, <1>5, <1>6, <1>7, <1>8, <1>9 DEF BatchStep

\* The steps of those that are no batches.
OtherStep ==
    \/ \E t \in Formatters, f \in Files : Read(t, f)
    \/ \E t \in Formatters : \E r \in seen[t] : Overwrite(t, r)
    \/ \E e \in Editors, f \in Files : Edit(e, f)

LEMMA OtherType ==
    ASSUME TypeInv, OtherStep
    PROVE  TypeInv'
<1> USE DEF TypeInv, TypeOK, WrittenInv, Contents, Writers, others
<1>1. ASSUME NEW t \in Formatters, NEW f \in Files, Read(t, f)
      PROVE  TypeInv'
    BY <1>1 DEF Read
<1>2. ASSUME NEW t \in Formatters, NEW r \in seen[t], Overwrite(t, r)
      PROVE  TypeInv'
  <2>1. r \in [file : Files, contents : Contents]
      OBVIOUS
  <2>2. [r EXCEPT !.contents = @ \cup {t}] \in [file : Files, contents : Contents]
      BY <2>1
  <2>3. QED  BY <1>2, <2>1, <2>2 DEF Overwrite, Raced
<1>3. ASSUME NEW e \in Editors, NEW f \in Files, Edit(e, f)
      PROVE  TypeInv'
    BY <1>3 DEF Edit
<1>4. QED  BY <1>1, <1>2, <1>3 DEF OtherStep

LEMMA TypeStep == TypeInv /\ [Next]_vars => TypeInv'
<1>1. CASE Next
    BY <1>1, BatchType, OtherType DEF Next, OtherStep
<1>2. CASE UNCHANGED vars
    BY <1>2 DEF vars, TypeInv, TypeOK, WrittenInv
<1>3. QED  BY <1>1, <1>2

\* Every reachable state is well typed, and a batch writes its own files only.
THEOREM TypeCorrect == Spec => []TypeOK
<1>1. TypeInv => TypeOK
    BY DEF TypeInv
<1>2. QED  BY <1>1, InitType, TypeStep, PTL DEF Spec

-----------------------------------------------------------------------------
(* What a batch looked at is what it believes of the file.                 *)

LookInv ==
    \A b \in Batches, f \in Files :
        /\ pc[b] = "replacing" /\ IsNext(b, f) => looked[b] = original[b][f]
        /\ pc[b] = "restoring" /\ IsLast(b, f) => looked[b] = Updated(b, f)

\* A batch has one next file, and one last.
LEMMA OneAtATime ==
    ASSUME NEW b \in Batches, NEW f \in Files, NEW g \in Files
    PROVE  /\ IsNext(b, f) /\ IsNext(b, g) => f = g
           /\ IsLast(b, f) /\ IsLast(b, g) => f = g
BY ConstantsAssumption DEF IsNext, IsLast

LEMMA LookStep ==
    ASSUME TypeInv, LookInv, [Next]_vars
    PROVE  LookInv'
<1> USE DEF TypeInv, TypeOK, LookInv
<1>1. SUFFICES ASSUME NEW b \in Batches, NEW f \in Files
      PROVE  /\ pc'[b] = "replacing" /\ IsNext(b, f)' => looked'[b] = original'[b][f]
             /\ pc'[b] = "restoring" /\ IsLast(b, f)' => looked'[b] = Updated(b, f)'
    OBVIOUS
<1> DEFINE Same(c) == /\ pc'[c] = pc[c] /\ looked'[c] = looked[c]
                      /\ original'[c] = original[c] /\ written'[c] = written[c]
                      /\ targets'[c] = targets[c]
<1>2. CASE Same(b)
  <2>1. (IsNext(b, f)' <=> IsNext(b, f)) /\ (IsLast(b, f)' <=> IsLast(b, f))
      BY <1>2 DEF IsNext, IsLast, Unwritten
  <2>2. Updated(b, f)' = Updated(b, f)
      BY <1>2 DEF Updated
  <2>3. QED  BY <1>2, <2>1, <2>2
<1>3. ASSUME NEW c \in Batches, BatchStep(c), b # c
      PROVE  Same(b)
    BY <1>3 DEF BatchStep, Plan, Reject, Prepare, Check, Replace, WriteFails,
                UndoCheck, Restore, UndoFails
<1>4. CASE OtherStep \/ UNCHANGED vars
  <2>1. Same(b)
      BY <1>4 DEF OtherStep, Read, Overwrite, Edit, vars
  <2>2. QED  BY <1>2, <2>1
<1>5. CASE BatchStep(b)
  <2>1. ASSUME NEW g \in Files, Check(b, g)
        PROVE  /\ pc'[b] = "replacing" /\ looked'[b] = original'[b][g]
               /\ \A h \in Files : IsNext(b, h)' <=> IsNext(b, h)
               /\ IsNext(b, g)
      BY <2>1 DEF Check, IsNext, Unwritten
  <2>2. ASSUME NEW g \in Files, UndoCheck(b, g)
        PROVE  /\ pc'[b] = "restoring" /\ looked'[b] = Updated(b, g)'
               /\ \A h \in Files : IsLast(b, h)' <=> IsLast(b, h)
               /\ IsLast(b, g)
      BY <2>2 DEF UndoCheck, IsLast, Updated
  <2>3. ASSUME NEW g \in Files, Check(b, g)
        PROVE  /\ pc'[b] = "replacing" /\ IsNext(b, f)' => looked'[b] = original'[b][f]
               /\ pc'[b] # "restoring"
    <3>1. IsNext(b, f)' => f = g
        BY <2>1, <2>3, OneAtATime
    <3>2. QED  BY <2>1, <2>3, <3>1
  <2>4. ASSUME NEW g \in Files, UndoCheck(b, g)
        PROVE  /\ pc'[b] = "restoring" /\ IsLast(b, f)' => looked'[b] = Updated(b, f)'
               /\ pc'[b] # "replacing"
    <3>1. IsLast(b, f)' => f = g
        BY <2>2, <2>4, OneAtATime
    <3>2. QED  BY <2>2, <2>4, <3>1
  <2>5. CASE ~\E g \in Files : Check(b, g) \/ UndoCheck(b, g)
      BY <1>5, <2>5 DEF BatchStep, Plan, Reject, Prepare, Replace, WriteFails,
                        Restore, UndoFails, AfterUndo, Failed
  <2>6. QED  BY <2>3, <2>4, <2>5
<1>6. QED
    BY <1>2, <1>3, <1>4, <1>5 DEF Next, OtherStep

-----------------------------------------------------------------------------
(* Outside the files in raced, a step adds its own writer to a file, and   *)
(* only a batch's restore takes something away, that batch itself.         *)

Added(f) == disk'[f] \ disk[f]
Lost(f) == disk[f] \ disk'[f]

LEMMA RacedGrows ==
    ASSUME [Next]_vars
    PROVE  raced \subseteq raced'
BY DEF Next, BatchStep, Plan, Reject, Prepare, Check, Replace, WriteFails,
       UndoCheck, Restore, UndoFails, Read, Overwrite, Edit, Raced, vars

LEMMA BatchWrites ==
    ASSUME TypeInv, LookInv, NEW b \in Batches, BatchStep(b),
           NEW f \in Files \ raced'
    PROVE  /\ Added(f) \subseteq {b} /\ Lost(f) \subseteq {b}
           /\ Added(f) # {} => f \in written'[b]
           /\ Lost(f) # {} => /\ written'[b] = written[b] \ {f}
                              /\ pc[b] = "restoring"
<1> USE DEF TypeInv, TypeOK, Added, Lost
<1>1. ASSUME NEW g \in Files, Replace(b, g)
      PROVE  /\ Added(f) \subseteq {b} /\ Lost(f) = {}
             /\ Added(f) # {} => f \in written'[b]
  <2>1. looked[b] = original[b][g]
      BY <1>1 DEF Replace, LookInv
  <2>2. QED  BY <1>1, <2>1 DEF Replace, Raced, Updated
<1>2. ASSUME NEW g \in Files, Restore(b, g)
      PROVE  /\ Added(f) = {} /\ Lost(f) \subseteq {b}
             /\ Lost(f) # {} => /\ written'[b] = written[b] \ {f}
                                /\ pc[b] = "restoring"
  <2>1. looked[b] = Updated(b, g)
      BY <1>2 DEF Restore, LookInv
  <2>2. QED  BY <1>2, <2>1 DEF Restore, Raced, Updated
<1>3. CASE disk' = disk
    BY <1>3
<1>4. QED
    BY <1>1, <1>2, <1>3 DEF BatchStep, Plan, Reject, Prepare, Check,
       WriteFails, UndoCheck, UndoFails

LEMMA OthersWrite ==
    ASSUME TypeInv, OtherStep, NEW f \in Files \ raced'
    PROVE  /\ Added(f) \cap Batches = {} /\ Lost(f) = {}
           /\ UNCHANGED <<pc, targets, original, written, left>>
BY ConstantsAssumption
DEF TypeInv, TypeOK, Added, Lost, OtherStep, Read, Overwrite, Edit, Raced

-----------------------------------------------------------------------------
(* The inductive invariant: outside the files in raced, a batch is in the  *)
(* files it wrote, and in no other but those it could not restore; it was  *)
(* in none when it was prepared, so that restoring takes it out.           *)

MarksInv ==
    \A b \in Batches, f \in Files \ raced :
        /\ f \in written[b] => b \in disk[f]
        /\ b \in disk[f] => f \in written[b] \cup left[b]
        /\ b \notin original[b][f]

IInv == TypeInv /\ LookInv /\ MarksInv /\ OutsideEditsSurvive

LEMMA IInvInit == Init => IInv
BY InitType DEF Init, IInv, LookInv, MarksInv, OutsideEditsSurvive

\* The marks of the batch that takes the step.
LEMMA OwnMarks ==
    ASSUME TypeInv, LookInv, MarksInv, NEW b \in Batches, BatchStep(b),
           NEW f \in Files \ raced'
    PROVE  /\ f \in written'[b] => b \in disk'[f]
           /\ b \in disk'[f] => f \in written'[b] \cup left'[b]
           /\ b \notin original'[b][f]
<1> USE DEF TypeInv, TypeOK, WrittenInv, MarksInv
<1>0. f \in Files \ raced
    BY RacedGrows DEF Next
<1>1. ASSUME NEW fs \in (SUBSET Files) \ {{}}, Plan(b, fs)
      PROVE  UNCHANGED <<disk, written, left, original>>
    BY <1>1 DEF Plan
<1>2. CASE Reject(b)
    BY <1>0, <1>2 DEF Reject
<1>3. CASE Prepare(b)
    BY <1>0, <1>3 DEF Prepare, Unstarted
<1>4. ASSUME NEW g \in Files, Check(b, g)
      PROVE  UNCHANGED <<disk, written, left, original>>
    BY <1>4 DEF Check
<1>5. CASE \E g \in Files : Replace(b, g)
    BY <1>0, <1>5 DEF Replace, Updated
<1>6. ASSUME NEW g \in Files, WriteFails(b, g)
      PROVE  UNCHANGED <<disk, written, left, original>>
    BY <1>6 DEF WriteFails
<1>7. ASSUME NEW g \in Files, UndoCheck(b, g)
      PROVE  UNCHANGED <<disk, written, left, original>>
    BY <1>7 DEF UndoCheck
<1>8. CASE \E g \in Files : Restore(b, g)
    BY <1>0, <1>8 DEF Restore
<1>9. CASE \E g \in Files : UndoFails(b, g)
    BY <1>0, <1>9 DEF UndoFails
<1>10. QED
    BY <1>0, <1>1, <1>2, <1>3, <1>4, <1>5, <1>6, <1>7, <1>8, <1>9 DEF BatchStep

\* The marks of the others.
LEMMA OtherMarks ==
    ASSUME TypeInv, LookInv, MarksInv, Next,
           NEW b \in Batches, ~BatchStep(b), NEW f \in Files \ raced'
    PROVE  /\ f \in written'[b] => b \in disk'[f]
           /\ b \in disk'[f] => f \in written'[b] \cup left'[b]
           /\ b \notin original'[b][f]
<1>1. f \in Files \ raced
    BY RacedGrows
<1>2. SUFFICES /\ b \in disk'[f] <=> b \in disk[f]
               /\ written'[b] = written[b] /\ left'[b] = left[b]
               /\ original'[b] = original[b]
    BY <1>1 DEF MarksInv
<1>3. CASE OtherStep
    BY <1>3, OthersWrite DEF Added, Lost
<1>4. ASSUME NEW c \in Batches, BatchStep(c)
      PROVE  /\ b \in disk'[f] <=> b \in disk[f]
             /\ written'[b] = written[b] /\ left'[b] = left[b]
             /\ original'[b] = original[b]
  <2>1. b # c
      BY <1>4
  <2>2. b \in disk'[f] <=> b \in disk[f]
      BY <1>4, <2>1, BatchWrites DEF Added, Lost
  <2>3. QED
      BY <1>4, <2>1, <2>2 DEF BatchStep, Plan, Reject, Prepare, Check, Replace,
         WriteFails, UndoCheck, Restore, UndoFails, TypeInv, TypeOK
<1>5. QED  BY <1>3, <1>4 DEF Next, OtherStep

LEMMA MarksStep ==
    ASSUME TypeInv, LookInv, MarksInv, [Next]_vars
    PROVE  MarksInv'
<1>1. CASE Next
    BY <1>1, OwnMarks, OtherMarks DEF MarksInv
<1>2. CASE UNCHANGED vars
    BY <1>2 DEF vars, MarksInv
<1>3. QED  BY <1>1, <1>2

\* An editor is no batch, and only batches are taken away.
LEMMA OutsideStep ==
    ASSUME TypeInv, LookInv, OutsideEditsSurvive, [Next]_vars
    PROVE  OutsideEditsSurvive'
<1> USE DEF OutsideEditsSurvive
<1>1. SUFFICES ASSUME NEW e \in Editors, NEW f \in edited'[e] \ raced'
      PROVE  e \in disk'[f]
    OBVIOUS
<1>2. e \notin Batches
    BY ConstantsAssumption
<1>3. ASSUME f \in edited[e]
      PROVE  /\ f \in Files \ raced' /\ e \in disk[f]
    BY <1>3, RacedGrows DEF TypeInv, TypeOK
<1>4. CASE \E b \in Batches : BatchStep(b)
  <2>1. f \in edited[e]
      BY <1>4 DEF BatchStep, Plan, Reject, Prepare, Check, Replace, WriteFails,
                  UndoCheck, Restore, UndoFails, others
  <2>2. QED  BY <1>2, <1>3, <1>4, <2>1, BatchWrites DEF Lost
<1>5. CASE OtherStep
  <2>1. CASE f \in edited[e]
      BY <1>3, <1>5, <2>1, OthersWrite DEF Lost
  <2>2. CASE f \notin edited[e]
      BY <1>5, <2>2 DEF OtherStep, Read, Overwrite, Edit, TypeInv, TypeOK
  <2>3. QED  BY <2>1, <2>2
<1>6. CASE UNCHANGED vars
    BY <1>3, <1>6 DEF vars
<1>7. QED  BY <1>4, <1>5, <1>6 DEF Next, OtherStep

LEMMA Invariance == Spec => []IInv
<1>1. IInv /\ [Next]_vars => IInv'
    BY TypeStep, LookStep, MarksStep, OutsideStep DEF IInv
<1>2. QED  BY <1>1, IInvInit, PTL DEF Spec

\* A batch that succeeded is in all its files, whatever other batches, their
\* rollbacks and other programs did since: the code compares a file with what
\* it expects there before it replaces it.
THEOREM DoneStaysAlways == Spec => []DoneStays
<1>1. IInv => DoneStays
    BY DEF IInv, TypeInv, TypeOK, WrittenInv, MarksInv, DoneStays
<1>2. QED  BY <1>1, Invariance, PTL

\* A batch that failed is in no file but those its error names.
THEOREM FailedLeavesNothingAlways == Spec => []FailedLeavesNothing
<1>1. IInv => FailedLeavesNothing
    BY DEF IInv, TypeInv, TypeOK, WrittenInv, MarksInv, FailedLeavesNothing
<1>2. QED  BY <1>1, Invariance, PTL

\* No batch and no rollback takes back the edit of another program.
THEOREM OutsideEditsSurviveAlways == Spec => []OutsideEditsSurvive
<1>1. IInv => OutsideEditsSurvive
    BY DEF IInv
<1>2. QED  BY <1>1, Invariance, PTL
=============================================================================
