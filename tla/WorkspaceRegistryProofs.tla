---------------------- MODULE WorkspaceRegistryProofs ----------------------
(***************************************************************************)
(* Proofs about WorkspaceRegistry, for every set of calls, updates and     *)
(* roots and every limit.                                                  *)
(***************************************************************************)
EXTENDS WorkspaceRegistry, FiniteSetTheorems, SequenceTheorems, TLAPS

-----------------------------------------------------------------------------
(* Type correctness.  A call that asked for the lock has resolved its root, *)
(* which Hit, Started and Miss rely on.                                     *)

RootResolved ==
    \A c \in Calls : pc[c] \in {"waiting", "stopping", "starting"} =>
                        root[c] \in Dirs

TypeInv == TypeOK /\ RootResolved

LEMMA AcquireType ==
    ASSUME TypeOK, NEW t \in Tasks, Acquire(t)
    PROVE  holder' \in Tasks \cup {None} /\ waiters' \in Seq(Tasks)
<1>1. waiters \in Seq(Tasks) /\ holder \in Tasks \cup {None}
    BY DEF TypeOK
<1>2. Append(waiters, t) \in Seq(Tasks)
    BY <1>1, AppendProperties
<1>3. QED  BY <1>1, <1>2 DEF Acquire

LEMMA ReleaseType ==
    ASSUME TypeOK, Release
    PROVE  holder' \in Tasks \cup {None} /\ waiters' \in Seq(Tasks)
<1>1. waiters \in Seq(Tasks)
    BY DEF TypeOK
<1>2. CASE waiters = <<>>
    BY <1>1, <1>2 DEF Release
<1>3. CASE waiters # <<>>
  <2>1. Head(waiters) \in Tasks /\ Tail(waiters) \in Seq(Tasks)
      BY <1>1, <1>3, HeadTailProperties
  <2>2. QED  BY <1>3, <2>1 DEF Release
<1>4. QED  BY <1>2, <1>3

LEMMA HandOutsType == HandOuts \in Nat
<1>1. IsFiniteSet({c \in Calls : got[c] # None})
    BY ConstantsAssumption, FS_Subset
<1>2. QED  BY <1>1, FS_CardinalityType DEF HandOuts

LEMMA InitType == Init => TypeInv
BY DEF Init, TypeInv, TypeOK, RootResolved, Tasks, Over

\* Calls: one step per operation.
LEMMA CallType ==
    ASSUME TypeInv, NEW c \in Calls, CallStep(c) \/ CallInput(c)
    PROVE  TypeInv'
<1> USE ConstantsAssumption DEF TypeInv, TypeOK, RootResolved, Over, triadVars, lockVars
<1>0. c \in Tasks
    BY DEF Tasks
<1>1. CASE Hit(c)
    BY <1>0, <1>1, ReleaseType, HandOutsType DEF Hit, Granted, Touch
<1>2. CASE Miss(c)
    BY <1>0, <1>2 DEF Miss, Granted, BeginStart, Touch
<1>3. CASE Evict(c)
    BY <1>0, <1>3 DEF Evict, Granted, BeginShutdown, Registered
<1>4. CASE Evicted(c)
  <2>1. pyright' \in [Calls -> BOOLEAN]
      BY <1>4, Zenon DEF Evicted
  <2>2. QED  BY <1>0, <1>4, <2>1 DEF Evicted, Touch
<1>5. CASE Started(c)
    BY <1>0, <1>5, ReleaseType, HandOutsType DEF Started
<1>6. CASE StartFailed(c)
    BY <1>0, <1>6, ReleaseType DEF StartFailed
<1>7. CASE Finish(c)
    BY <1>0, <1>7 DEF Finish
<1>8. ASSUME NEW f \in Files, ResolveAndAcquire(c, f)
      PROVE  TypeInv'
    BY <1>0, <1>8, AcquireType DEF ResolveAndAcquire
<1>9. ASSUME NEW f \in Files, Unresolved(c, f)
      PROVE  TypeInv'
    BY <1>0, <1>9 DEF Unresolved
<1>10. CASE \E f \in Files : Arrive(c, f)
    BY <1>8, <1>9, <1>10 DEF Arrive
<1>11. CASE \E t \in Calls : ArrivePathless(c, t)
    BY <1>0, <1>11 DEF ArrivePathless
<1>12. CASE ArriveFallback(c)
    BY <1>8, <1>9, <1>12 DEF ArriveFallback
<1>13. CASE ArriveWithout(c)
    BY <1>0, <1>13 DEF ArriveWithout
<1>14. CASE Request(c)
    BY <1>0, <1>14 DEF Request
<1>15. CASE CancelWaiting(c)
    BY <1>0, <1>15 DEF CancelWaiting
<1>16. CASE CancelHolding(c)
    BY <1>0, <1>16, ReleaseType DEF CancelHolding
<1>17. CASE Crash(c)
    BY <1>0, <1>17 DEF Crash
<1>18. QED
    BY <1>1, <1>2, <1>3, <1>4, <1>5, <1>6, <1>7, <1>10, <1>11, <1>12, <1>13,
       <1>14, <1>15, <1>16, <1>17 DEF CallStep, CallInput

\* The two other kinds of task.
LEMMA TaskType ==
    ASSUME TypeInv,
           \/ \E u \in Updates : ArriveUpdate(u) \/ UpdateStep(u)
           \/ ArriveTeardown
           \/ TeardownStep
    PROVE  TypeInv'
<1> USE ConstantsAssumption
    DEF TypeInv, TypeOK, RootResolved, Over, triadVars, lockVars
<1>1. Teardown \in Tasks /\ Teardown \notin Calls
    BY DEF Tasks
<1>2. \A u \in Updates : u \in Tasks /\ u \notin Calls
    BY DEF Tasks
<1>3. ASSUME NEW t \in Tasks, t \notin Calls, Stopped(t)
      PROVE  TypeInv'
  <2>1. pyright' \in [Calls -> BOOLEAN]
      BY <1>3, Zenon DEF Stopped
  <2>2. QED  BY <1>3, <2>1 DEF Stopped
<1>4. ASSUME NEW u \in Updates, ArriveUpdate(u) \/ UpdateStep(u)
      PROVE  TypeInv'
  <2>1. CASE ArriveUpdate(u)
      BY <1>2, <2>1, AcquireType DEF ArriveUpdate
  <2>2. CASE InstallRoots(u)
      BY <1>2, <2>2 DEF InstallRoots, Granted
  <2>3. CASE \E r \in Dirs : RemoveRoot(u, r)
      BY <1>2, <2>3 DEF RemoveRoot, BeginShutdown, Registered
  <2>4. CASE Stopped(u)
      BY <1>2, <1>3, <2>4
  <2>5. CASE RootsDone(u)
      BY <1>2, <2>5, ReleaseType DEF RootsDone
  <2>6. QED  BY <1>4, <2>1, <2>2, <2>3, <2>4, <2>5 DEF UpdateStep
<1>5. CASE ArriveTeardown
    BY <1>1, <1>5, AcquireType DEF ArriveTeardown
<1>6. CASE TeardownStep
  <2>1. CASE CloseAll
      BY <1>1, <2>1 DEF CloseAll, Granted, Registered
  <2>2. ASSUME NEW r \in Dirs, CloseOne(r)
        PROVE  TypeInv'
    <3>1. /\ victim' \in Calls \cup {None}
          /\ initialized' \in [Calls -> BOOLEAN]
        BY <2>2 DEF CloseOne, BeginShutdown
    <3>2. QED  BY <1>1, <2>2, <3>1 DEF CloseOne
  <2>3. CASE Stopped(Teardown)
      BY <1>1, <1>3, <2>3
  <2>4. CASE AllClosed
      BY <1>1, <2>4, ReleaseType DEF AllClosed
  <2>5. QED  BY <1>6, <2>1, <2>2, <2>3, <2>4 DEF TeardownStep
<1>7. QED  BY <1>4, <1>5, <1>6

LEMMA TypeStep == TypeInv /\ [Next]_vars => TypeInv'
<1> SUFFICES ASSUME TypeInv, [Next]_vars  PROVE TypeInv'
    OBVIOUS
<1>1. CASE Next
    BY <1>1, CallType, TaskType DEF Next
<1>2. CASE UNCHANGED vars
    BY <1>2 DEF vars, triadVars, lockVars, TypeInv, TypeOK, RootResolved
<1>3. QED  BY <1>1, <1>2

LEMMA TypeInvariance == Spec => []TypeInv
<1>1. QED  BY InitType, TypeStep, PTL DEF Spec

\* Every reachable state is of the declared types.
THEOREM TypeCorrect == Spec => []TypeOK
<1>1. TypeInv => TypeOK
    BY DEF TypeInv
<1>2. QED  BY <1>1, TypeInvariance, PTL

-----------------------------------------------------------------------------
(* The inductive invariant.                                                 *)

\* Only the lock's holder is inside a critical section, also while it awaits.
LockInv ==
    \A t \in Tasks : pc[t] \in {"stopping", "starting", "working"} =>
                        holder = t

\* The teardown is alone, once it has begun.
QuietInv ==
    pc[Teardown] # "idle" =>
        /\ \A c \in Calls : pc[c] \in Over \cup {"idle"}
        /\ \A u \in Updates : pc[u] \in {"idle", "done"}

\* The table holds the triads under their own roots, a starting triad's root
\* has no entry, and what the teardown has not visited is in todo.
TableInv ==
    /\ TableMatchesFlags
    /\ \A r \in Registered : root[workspaces[r]] = r
    /\ \A c \in Calls : pc[c] \in {"stopping", "starting"} =>
                           workspaces[root[c]] = None
    /\ \A c \in Calls : pc[c] = "idle" => root[c] = None
    /\ Closing => \A t \in Calls : initialized[t] => root[t] \in todo
    /\ pc[Teardown] = "done" => Registered = {}

IInv == TypeInv /\ LockInv /\ QuietInv /\ TableInv

LEMMA IInvInit == Init => IInv
BY InitType DEF Init, IInv, TypeInv, TypeOK, LockInv, QuietInv, TableInv,
   TableMatchesFlags, Registered, Closing, Tasks

\* Every step leaves at most the lock's holder in a critical section.
LEMMA LockStep ==
    ASSUME TypeInv, LockInv, Next
    PROVE  LockInv'
<1> USE DEF TypeInv, TypeOK, LockInv, Tasks
<1>1. ASSUME NEW c \in Calls, NEW f \in Files,
             pc[c] = "idle", ResolveAndAcquire(c, f)
      PROVE  LockInv'
    BY <1>1, ConstantsAssumption DEF ResolveAndAcquire, Acquire
<1>2. ASSUME NEW c \in Calls, CallInput(c)
      PROVE  LockInv'
  <2>1. CASE \E f \in Files : Arrive(c, f)
      BY <1>1, <2>1 DEF Arrive, Arrivable, Unresolved, lockVars
  <2>2. CASE \E t \in Calls : ArrivePathless(c, t)
      BY <2>2 DEF ArrivePathless, lockVars
  <2>3. CASE ArriveFallback(c)
      BY <1>1, <2>3, ConstantsAssumption
      DEF ArriveFallback, Arrivable, Unresolved, lockVars
  <2>4. CASE ArriveWithout(c)
      BY <2>4 DEF ArriveWithout, lockVars
  <2>5. CASE Request(c)
      BY <2>5 DEF Request, lockVars
  <2>6. CASE CancelWaiting(c)
      BY <2>6 DEF CancelWaiting
  <2>7. CASE CancelHolding(c)
      BY <2>7 DEF CancelHolding, Release
  <2>8. CASE Crash(c)
      BY <2>8 DEF Crash, lockVars
  <2>9. QED
      BY <1>2, <2>1, <2>2, <2>3, <2>4, <2>5, <2>6, <2>7, <2>8 DEF CallInput
<1>3. ASSUME NEW c \in Calls, CallStep(c)
      PROVE  LockInv'
  <2>1. CASE Hit(c)
      BY <2>1 DEF Hit, Granted, Release
  <2>2. CASE Miss(c)
      BY <2>2 DEF Miss, Granted, BeginStart, lockVars
  <2>3. CASE Evict(c)
      BY <2>3 DEF Evict, Granted, lockVars
  <2>4. CASE Evicted(c)
      BY <2>4 DEF Evicted, lockVars
  <2>5. CASE Started(c)
      BY <2>5 DEF Started, Release
  <2>6. CASE StartFailed(c)
      BY <2>6 DEF StartFailed, Release
  <2>7. CASE Finish(c)
      BY <2>7 DEF Finish, lockVars
  <2>8. QED
      BY <1>3, <2>1, <2>2, <2>3, <2>4, <2>5, <2>6, <2>7 DEF CallStep
<1>4. ASSUME NEW u \in Updates, ArriveUpdate(u) \/ UpdateStep(u)
      PROVE  LockInv'
  <2>1. CASE ArriveUpdate(u)
      BY <2>1, ConstantsAssumption DEF ArriveUpdate, Acquire
  <2>2. CASE InstallRoots(u)
      BY <2>2 DEF InstallRoots, Granted, lockVars
  <2>3. CASE \E r \in Dirs : RemoveRoot(u, r)
      BY <2>3 DEF RemoveRoot, lockVars
  <2>4. CASE Stopped(u)
      BY <2>4 DEF Stopped, lockVars
  <2>5. CASE RootsDone(u)
      BY <2>5 DEF RootsDone, Release
  <2>6. QED  BY <1>4, <2>1, <2>2, <2>3, <2>4, <2>5 DEF UpdateStep
<1>5. CASE ArriveTeardown
    BY <1>5, ConstantsAssumption DEF ArriveTeardown, Acquire
<1>6. CASE TeardownStep
  <2>1. CASE CloseAll
      BY <2>1 DEF CloseAll, Granted, lockVars
  <2>2. CASE \E r \in Dirs : CloseOne(r)
      BY <2>2 DEF CloseOne, lockVars
  <2>3. CASE Stopped(Teardown)
      BY <2>3 DEF Stopped, lockVars
  <2>4. CASE AllClosed
      BY <2>4 DEF AllClosed, Release
  <2>5. QED  BY <1>6, <2>1, <2>2, <2>3, <2>4 DEF TeardownStep
<1>7. QED  BY <1>2, <1>3, <1>4, <1>5, <1>6 DEF Next

\* Nothing else runs once the teardown has begun.
LEMMA QuietStep ==
    ASSUME TypeInv, QuietInv, Next
    PROVE  QuietInv'
<1> USE ConstantsAssumption DEF TypeInv, TypeOK, QuietInv, Tasks, Over
<1>1. ASSUME NEW c \in Calls, CallStep(c)
      PROVE  QuietInv'
    BY <1>1 DEF CallStep, Hit, Miss, Evict, Evicted, Started, StartFailed,
       Finish, Granted, BeginStart
<1>2. ASSUME NEW c \in Calls, CallInput(c)
      PROVE  QuietInv'
    BY <1>2 DEF CallInput, Arrive, ArrivePathless, ArriveFallback,
       ArriveWithout, ResolveAndAcquire, Unresolved, Arrivable, Request,
       CancelWaiting, CancelHolding, Crash
<1>3. ASSUME NEW u \in Updates, ArriveUpdate(u) \/ UpdateStep(u)
      PROVE  QuietInv'
    BY <1>3 DEF ArriveUpdate, UpdateStep, InstallRoots, RemoveRoot, Stopped,
       RootsDone, Granted
<1>4. CASE ArriveTeardown
    BY <1>4 DEF ArriveTeardown
<1>5. CASE TeardownStep
    BY <1>5 DEF TeardownStep, CloseAll, CloseOne, Stopped, AllClosed, Granted
<1>6. QED  BY <1>1, <1>2, <1>3, <1>4, <1>5 DEF Next

\* The table, the flags and the roots of the triads stay in step.
LEMMA TableStep ==
    ASSUME IInv, Next
    PROVE  TableInv'
<1> USE ConstantsAssumption
    DEF IInv, TypeInv, TypeOK, RootResolved, LockInv, QuietInv, TableInv,
        TableMatchesFlags, Registered, Closing, Tasks, Over
<1>1. ASSUME NEW c \in Calls, NEW f \in Files,
             Arrivable(c), ResolveAndAcquire(c, f) \/ Unresolved(c, f)
      PROVE  TableInv'
  <2>1. root[c] = None /\ ~initialized[c] /\ \A r \in Dirs : workspaces[r] # c
      BY <1>1 DEF Arrivable
  <2>2. CASE Unresolved(c, f)
      BY <1>1, <2>1, <2>2 DEF Arrivable, Unresolved, triadVars
  <2>3. CASE ResolveAndAcquire(c, f)
      BY <1>1, <2>1, <2>3 DEF Arrivable, ResolveAndAcquire, triadVars
  <2>4. QED  BY <1>1, <2>2, <2>3
<1>2. ASSUME NEW c \in Calls, CallInput(c)
      PROVE  TableInv'
  <2>1. CASE \E f \in Files : Arrive(c, f)
      BY <1>1, <2>1 DEF Arrive
  <2>2. CASE \E t \in Calls : ArrivePathless(c, t)
      BY <2>2 DEF ArrivePathless, Arrivable, triadVars
  <2>3. CASE ArriveFallback(c)
      BY <1>1, <2>3 DEF ArriveFallback
  <2>4. CASE ArriveWithout(c)
      BY <2>4 DEF ArriveWithout, Arrivable, triadVars
  <2>5. CASE Request(c)
      BY <2>5 DEF Request
  <2>6. CASE CancelWaiting(c)
      BY <2>6 DEF CancelWaiting, triadVars
  <2>7. CASE CancelHolding(c)
      BY <2>7 DEF CancelHolding, triadVars
  <2>8. CASE Crash(c)
      BY <2>8 DEF Crash
  <2>9. QED
      BY <1>2, <2>1, <2>2, <2>3, <2>4, <2>5, <2>6, <2>7, <2>8 DEF CallInput
<1>3. ASSUME NEW c \in Calls, CallStep(c)
      PROVE  TableInv'
  <2>1. CASE Hit(c)
      BY <2>1 DEF Hit, Granted
  <2>2. CASE Miss(c)
      BY <2>2 DEF Miss, Granted, BeginStart
  <2>3. CASE Evict(c)
      BY <2>3 DEF Evict, Granted, BeginShutdown
  <2>4. CASE Evicted(c)
      BY <2>4 DEF Evicted
  <2>5. CASE Started(c)
      BY <2>5 DEF Started
  <2>6. CASE StartFailed(c)
      BY <2>6 DEF StartFailed
  <2>7. CASE Finish(c)
      BY <2>7 DEF Finish, triadVars
  <2>8. QED
      BY <1>3, <2>1, <2>2, <2>3, <2>4, <2>5, <2>6, <2>7 DEF CallStep
<1>4. ASSUME NEW u \in Updates, ArriveUpdate(u) \/ UpdateStep(u)
      PROVE  TableInv'
  <2>1. CASE ArriveUpdate(u)
      BY <2>1 DEF ArriveUpdate, triadVars
  <2>2. CASE InstallRoots(u)
      BY <2>2 DEF InstallRoots, Granted, triadVars
  <2>3. ASSUME NEW r \in Dirs, RemoveRoot(u, r)
        PROVE  TableInv'
      BY <2>3 DEF RemoveRoot, BeginShutdown
  <2>4. CASE Stopped(u)
      BY <2>4 DEF Stopped
  <2>5. CASE RootsDone(u)
      BY <2>5 DEF RootsDone, triadVars
  <2>6. QED  BY <1>4, <2>1, <2>2, <2>3, <2>4, <2>5 DEF UpdateStep
<1>5. CASE ArriveTeardown
    BY <1>5 DEF ArriveTeardown, triadVars
<1>6. CASE TeardownStep
  <2>1. CASE CloseAll
      BY <2>1 DEF CloseAll, Granted, triadVars
  <2>2. ASSUME NEW r \in Dirs, CloseOne(r)
        PROVE  TableInv'
      BY <2>2 DEF CloseOne, BeginShutdown
  <2>3. CASE Stopped(Teardown)
      BY <2>3 DEF Stopped
  <2>4. CASE AllClosed
      BY <2>4 DEF AllClosed, triadVars
  <2>5. QED  BY <1>6, <2>1, <2>2, <2>3, <2>4 DEF TeardownStep
<1>7. QED  BY <1>2, <1>3, <1>4, <1>5, <1>6 DEF Next

LEMMA IInvStep == IInv /\ [Next]_vars => IInv'
<1> SUFFICES ASSUME IInv, [Next]_vars  PROVE IInv'
    OBVIOUS
<1>1. CASE Next
    BY <1>1, TypeStep, LockStep, QuietStep, TableStep DEF IInv
<1>2. CASE UNCHANGED vars
    BY <1>2
    DEF vars, triadVars, lockVars, IInv, TypeInv, TypeOK, RootResolved,
        LockInv, QuietInv, TableInv, TableMatchesFlags, Registered, Closing
<1>3. QED  BY <1>1, <1>2

LEMMA Invariance == Spec => []IInv
<1>1. QED  BY IInvInit, IInvStep, PTL DEF Spec

-----------------------------------------------------------------------------
(* What follows from the invariant.                                         *)

\* The table and the triads' flags agree in every reachable state.
THEOREM TableMatchesFlagsAlways == Spec => []TableMatchesFlags
<1>1. IInv => TableMatchesFlags
    BY DEF IInv, TableInv
<1>2. QED  BY <1>1, Invariance, PTL

\* No root is ever served by two triads, however many calls race for it.
THEOREM OneTriadPerRootAlways == Spec => []OneTriadPerRoot
<1>1. IInv => OneTriadPerRoot
    BY ConstantsAssumption
    DEF IInv, TypeInv, RootResolved, LockInv, TableInv, TableMatchesFlags,
        OneTriadPerRoot, Active, Tasks
<1>2. QED  BY <1>1, Invariance, PTL

\* Every call is handed a started triad of the root its file resolved to.
THEOREM HandsOutReadyAlways == Spec => HandsOutReady
<1> DEFINE HandsOut ==
        \A c \in Calls : got'[c] # got[c] =>
            /\ initialized'[got'[c]]
            /\ root[c] \in {None, root[got'[c]]}
<1>1. ASSUME IInv, NEW d \in Calls, CallStep(d)
      PROVE  HandsOut
  <2> USE ConstantsAssumption
      DEF IInv, TypeInv, TypeOK, RootResolved, LockInv, QuietInv, TableInv,
          TableMatchesFlags, Registered, Closing, Tasks, Over
  <2>1. CASE Hit(d)
      BY <1>1, <2>1 DEF Hit, Granted
  <2>2. CASE Started(d)
      BY <1>1, <2>2 DEF Started
  <2>3. CASE ~Hit(d) /\ ~Started(d)
      BY <1>1, <2>3
      DEF CallStep, Miss, Evict, Evicted, StartFailed, Finish
  <2>4. QED  BY <2>1, <2>2, <2>3
<1>2. ASSUME IInv, NEW d \in Calls, CallInput(d)
      PROVE  HandsOut
  <2>1. ASSUME NEW t \in Calls, ArrivePathless(d, t)
        PROVE  HandsOut
      BY <1>2, <2>1, ConstantsAssumption
      DEF ArrivePathless, Arrivable, MostRecent, IInv, TypeInv, TypeOK,
          TableInv, TableMatchesFlags, Registered, Closing, triadVars
  <2>2. CASE ~\E t \in Calls : ArrivePathless(d, t)
      BY <1>2, <2>2
      DEF CallInput, Arrive, ArriveFallback, ArriveWithout, ResolveAndAcquire,
          Unresolved, Request, CancelWaiting, CancelHolding, Crash
  <2>3. QED  BY <2>1, <2>2
<1>3. ASSUME NEW u \in Updates, ArriveUpdate(u) \/ UpdateStep(u)
      PROVE  HandsOut
    BY <1>3
    DEF ArriveUpdate, UpdateStep, InstallRoots, RemoveRoot, Stopped, RootsDone
<1>4. ASSUME ArriveTeardown \/ TeardownStep
      PROVE  HandsOut
  <2>1. got' = got
      BY <1>4
      DEF ArriveTeardown, TeardownStep, CloseAll, CloseOne, Stopped, AllClosed
  <2>2. QED  BY <2>1
<1>5. IInv /\ Next => HandsOut
    BY <1>1, <1>2, <1>3, <1>4 DEF Next
<1>6. QED  BY <1>5, Invariance, PTL DEF Spec, HandsOutReady

-----------------------------------------------------------------------------
(* The capacity of the table.  The limit is checked in one step, and the    *)
(* entry made in another one, up to two awaits later: what carries the      *)
(* bound across them is that the caller keeps the lock, and so the room.    *)

RoomInv ==
    /\ Capacity
    /\ \A c \in Calls : pc[c] \in {"stopping", "starting"} =>
                           Cardinality(Registered) < MaxWorkspaces

LEMMA RegisteredFinite ==
    IsFiniteSet(Registered) /\ Cardinality(Registered) \in Nat
<1>1. IsFiniteSet(Registered)
    BY ConstantsAssumption, FS_Subset DEF Registered
<1>2. QED  BY <1>1, FS_CardinalityType

\* A step that keeps the table lets a call in only where there is room.
LEMMA TableKept ==
    ASSUME RoomInv, workspaces' = workspaces,
           \A c \in Calls : pc'[c] \in {"stopping", "starting"} =>
               \/ pc[c] \in {"stopping", "starting"}
               \/ Cardinality(Registered) < MaxWorkspaces
    PROVE  RoomInv'
<1>1. Registered' = Registered
    BY DEF Registered
<1>2. QED  BY <1>1 DEF RoomInv, Capacity

\* A step that removes an entry makes room.
LEMMA EntryRemoved ==
    ASSUME RoomInv, TypeOK, NEW r \in Registered,
           workspaces' = [workspaces EXCEPT ![r] = None]
    PROVE  RoomInv'
<1>1. Registered' = Registered \ {r}
    BY DEF Registered, TypeOK
<1>2. Cardinality(Registered') = Cardinality(Registered) - 1
    BY <1>1, RegisteredFinite, FS_RemoveElement
<1>3. Cardinality(Registered') < MaxWorkspaces
    BY <1>2, RegisteredFinite, ConstantsAssumption DEF RoomInv, Capacity
<1>4. Cardinality(Registered') <= MaxWorkspaces
    BY <1>2, RegisteredFinite, ConstantsAssumption DEF RoomInv, Capacity
<1>5. QED  BY <1>3, <1>4 DEF RoomInv, Capacity

\* A step that makes an entry takes the room its call kept by its lock.
LEMMA EntryMade ==
    ASSUME RoomInv, TypeOK, NEW r \in Dirs, NEW c \in Calls,
           workspaces' = [workspaces EXCEPT ![r] = c],
           Cardinality(Registered) < MaxWorkspaces,
           \A e \in Calls : pc'[e] \notin {"stopping", "starting"}
    PROVE  RoomInv'
<1>1. Registered' = Registered \cup {r}
    BY ConstantsAssumption DEF Registered, TypeOK, Tasks
<1>2. Cardinality(Registered \cup {r}) =
        IF r \in Registered THEN Cardinality(Registered)
                            ELSE Cardinality(Registered) + 1
    BY RegisteredFinite, FS_AddElement
<1>3. Cardinality(Registered') <= MaxWorkspaces
    BY <1>1, <1>2, RegisteredFinite, ConstantsAssumption
<1>4. QED  BY <1>3 DEF RoomInv, Capacity

LEMMA RoomStep ==
    ASSUME IInv, RoomInv, Next
    PROVE  RoomInv'
<1> USE ConstantsAssumption DEF IInv, TypeInv
<1>1. ASSUME NEW c \in Calls, CallStep(c)
      PROVE  RoomInv'
  <2>1. CASE Hit(c)
      BY <2>1, TableKept DEF Hit, TypeOK, Tasks
  <2>2. CASE Miss(c)
    <3>1. Cardinality(Registered) < MaxWorkspaces
        BY <2>2, RegisteredFinite DEF Miss, AtCapacity
    <3>2. QED  BY <2>2, <3>1, TableKept DEF Miss, TypeOK, Tasks
  <2>3. CASE Evict(c)
    <3>1. PICK v \in Registered : workspaces' = [workspaces EXCEPT ![v] = None]
        BY <2>3 DEF Evict
    <3>2. QED  BY <3>1, EntryRemoved
  <2>4. CASE Evicted(c)
      BY <2>4, TableKept DEF Evicted, TypeOK, Tasks
  <2>5. CASE Started(c)
    <3>1. root[c] \in Dirs
        BY <2>5 DEF Started, RootResolved
    <3>2. Cardinality(Registered) < MaxWorkspaces
        BY <2>5 DEF Started, RoomInv
    <3>3. \A e \in Calls : pc'[e] \notin {"stopping", "starting"}
        BY <2>5 DEF Started, LockInv, TypeOK, Tasks
    <3>4. workspaces' = [workspaces EXCEPT ![root[c]] = c]
        BY <2>5 DEF Started
    <3>5. QED  BY <3>1, <3>2, <3>3, <3>4, EntryMade
  <2>6. CASE StartFailed(c)
      BY <2>6, TableKept DEF StartFailed, TypeOK, Tasks
  <2>7. CASE Finish(c)
      BY <2>7, TableKept DEF Finish, TypeOK, Tasks
  <2>8. QED
      BY <1>1, <2>1, <2>2, <2>3, <2>4, <2>5, <2>6, <2>7 DEF CallStep
<1>2. ASSUME NEW c \in Calls, CallInput(c)
      PROVE  RoomInv'
  <2>1. workspaces' = workspaces
      BY <1>2
      DEF CallInput, Arrive, ArrivePathless, ArriveFallback, ArriveWithout,
          ResolveAndAcquire, Unresolved, Request, CancelWaiting,
          CancelHolding, Crash
  <2>2. \A e \in Calls : pc'[e] \in {"stopping", "starting"} =>
            pc[e] \in {"stopping", "starting"}
      BY <1>2
      DEF CallInput, Arrive, ArrivePathless, ArriveFallback, ArriveWithout,
          ResolveAndAcquire, Unresolved, Request, CancelWaiting,
          CancelHolding, Crash, TypeOK, Tasks
  <2>3. QED  BY <2>1, <2>2, TableKept
<1>3. ASSUME NEW u \in Updates, ArriveUpdate(u) \/ UpdateStep(u)
      PROVE  RoomInv'
  <2>1. ASSUME NEW r \in Dirs, RemoveRoot(u, r)
        PROVE  RoomInv'
    <3>1. r \in Registered /\ workspaces' = [workspaces EXCEPT ![r] = None]
        BY <2>1 DEF RemoveRoot
    <3>2. QED  BY <3>1, EntryRemoved
  <2>2. CASE ArriveUpdate(u) \/ InstallRoots(u) \/ Stopped(u) \/ RootsDone(u)
    <3>1. workspaces' = workspaces
        BY <2>2 DEF ArriveUpdate, InstallRoots, Stopped, RootsDone
    <3>2. \A e \in Calls : pc'[e] = pc[e]
        BY <2>2
        DEF ArriveUpdate, InstallRoots, Stopped, RootsDone, TypeOK, Tasks
    <3>3. QED  BY <3>1, <3>2, TableKept
  <2>3. QED  BY <1>3, <2>1, <2>2 DEF UpdateStep
<1>4. CASE ArriveTeardown
    BY <1>4, TableKept DEF ArriveTeardown, TypeOK, Tasks
<1>5. CASE TeardownStep
  <2>1. \A e \in Calls : pc'[e] = pc[e]
      BY <1>5
      DEF TeardownStep, CloseAll, CloseOne, Stopped, AllClosed, TypeOK, Tasks
  <2>2. CASE AllClosed
    <3>1. Registered' = {}
        BY <2>2 DEF AllClosed, Registered
    <3>2. Cardinality(Registered') = 0
        BY <3>1, FS_EmptySet
    <3>3. QED  BY <3>2 DEF RoomInv, Capacity
  <2>3. CASE CloseAll \/ (\E r \in Dirs : CloseOne(r)) \/ Stopped(Teardown)
    <3>1. workspaces' = workspaces
        BY <2>3 DEF CloseAll, CloseOne, Stopped
    <3>2. QED  BY <2>1, <3>1, TableKept
  <2>4. QED  BY <1>5, <2>2, <2>3 DEF TeardownStep
<1>6. QED  BY <1>1, <1>2, <1>3, <1>4, <1>5 DEF Next

LEMMA RoomInvariance == Spec => []RoomInv
<1>1. Init => RoomInv
  <2>1. Init => Registered = {}
      BY DEF Init, Registered
  <2>2. Init => Cardinality(Registered) = 0
      BY <2>1, FS_EmptySet
  <2>3. QED
      BY <2>2, ConstantsAssumption DEF Init, RoomInv, Capacity, Tasks
<1>2. IInv /\ RoomInv /\ [Next]_vars => RoomInv'
  <2> SUFFICES ASSUME IInv, RoomInv, [Next]_vars  PROVE RoomInv'
      OBVIOUS
  <2>1. CASE UNCHANGED vars
      BY <2>1 DEF vars, RoomInv, Capacity, Registered
  <2>2. QED  BY <2>1, RoomStep
<1>3. QED  BY <1>1, <1>2, Invariance, PTL DEF Spec

\* The table never exceeds MAX_WORKSPACES.
THEOREM CapacityAlways == Spec => []Capacity
<1>1. RoomInv => Capacity
    BY DEF RoomInv
<1>2. QED  BY <1>1, RoomInvariance, PTL

-----------------------------------------------------------------------------
(* The queue of the lock: who waits in it waits, once, and the lock is     *)
(* free only when nobody does.  After the teardown nobody is left to wait. *)

Holding == {"waiting", "stopping", "starting", "working"}

QueueInv ==
    /\ \A i \in 1..Len(waiters) : pc[waiters[i]] = "waiting" /\ waiters[i] # holder
    /\ \A i, j \in 1..Len(waiters) : waiters[i] = waiters[j] => i = j
    /\ holder # None => pc[holder] \in Holding
    /\ holder = None => waiters = <<>>

\* Only t's place in its code changes.
Moves(t) == \A u \in Tasks \ {t} : pc'[u] = pc[u]

\* Who waits is a task, and None is not.
LEMMA WaitersType ==
    ASSUME TypeOK
    PROVE  /\ waiters \in Seq(Tasks) /\ Len(waiters) \in Nat
           /\ \A i \in 1..Len(waiters) : waiters[i] \in Tasks
           /\ holder \in Tasks \cup {None} /\ None \notin Tasks
<1>1. waiters \in Seq(Tasks) /\ holder \in Tasks \cup {None}
    BY DEF TypeOK
<1>2. Len(waiters) \in Nat
    BY <1>1, LenProperties
<1>3. \A i \in 1..Len(waiters) : waiters[i] \in Tasks
    BY <1>1, ElementOfSeq
<1>4. None \notin Tasks
    BY ConstantsAssumption
<1>5. QED  BY <1>1, <1>2, <1>3, <1>4

LEMMA AcquireQueue ==
    ASSUME TypeOK, QueueInv, NEW t \in Tasks, pc[t] = "idle", pc'[t] = "waiting",
           Moves(t), Acquire(t)
    PROVE  QueueInv'
<1> USE WaitersType DEF QueueInv, Moves
<1>1. CASE holder = None
  <2>1. holder' = t /\ waiters' = <<>>
      BY <1>1 DEF Acquire
  <2>2. Len(waiters') = 0 /\ pc'[holder'] \in Holding
      BY <2>1 DEF Holding
  <2>3. holder' # None
      BY <2>1
  <2>4. QED  BY <2>2, <2>3
<1>2. CASE holder # None
  <2>1. /\ Len(waiters') = Len(waiters) + 1
        /\ \A i \in 1..Len(waiters) : waiters'[i] = waiters[i]
        /\ waiters'[Len(waiters) + 1] = t
      BY <1>2, AppendProperties DEF Acquire
  <2>2. holder' = holder /\ holder # t /\ holder \in Tasks
      BY <1>2 DEF Acquire, Holding
  <2>3. \A i \in 1..Len(waiters) : waiters[i] # t /\ pc'[waiters[i]] = "waiting"
      OBVIOUS
  <2>4. \A i \in 1..Len(waiters') : i \in 1..Len(waiters) \/ i = Len(waiters) + 1
      BY <2>1
  <2>5. \A i \in 1..Len(waiters') : pc'[waiters'[i]] = "waiting" /\ waiters'[i] # holder'
      BY <2>1, <2>2, <2>3, <2>4
  <2>6. \A i, j \in 1..Len(waiters') : waiters'[i] = waiters'[j] => i = j
      BY <2>1, <2>3, <2>4
  <2>7. pc'[holder'] \in Holding /\ holder' # None
      BY <1>2, <2>2
  <2>8. QED  BY <2>5, <2>6, <2>7
<1>3. QED  BY <1>1, <1>2

LEMMA ReleaseQueue ==
    ASSUME TypeOK, QueueInv, NEW t \in Tasks, holder = t, Moves(t), Release
    PROVE  QueueInv'
<1> USE WaitersType DEF QueueInv, Moves
<1>1. CASE waiters = <<>>
  <2>1. holder' = None /\ waiters' = <<>>
      BY <1>1 DEF Release
  <2>2. Len(waiters') = 0
      BY <2>1
  <2>3. QED  BY <2>1, <2>2
<1>2. CASE waiters # <<>>
  <2>1. Len(waiters) >= 1
      BY <1>2, EmptySeq
  <2>2. /\ holder' = waiters[1]
        /\ Len(waiters') = Len(waiters) - 1
        /\ \A i \in 1..Len(waiters') : waiters'[i] = waiters[i + 1]
      BY <1>2, HeadTailProperties DEF Release
  <2>3. \A i \in 1..Len(waiters) : waiters[i] # t /\ pc'[waiters[i]] = "waiting"
      OBVIOUS
  <2>4. 1 \in 1..Len(waiters)
      BY <2>1
  <2>5. \A i \in 1..Len(waiters') : i + 1 \in 1..Len(waiters) /\ i + 1 # 1
      BY <2>1, <2>2
  <2>6. \A i \in 1..Len(waiters') : pc'[waiters'[i]] = "waiting" /\ waiters'[i] # holder'
      BY <2>2, <2>3, <2>4, <2>5
  <2>7. \A i, j \in 1..Len(waiters') : waiters'[i] = waiters'[j] => i = j
    <3> SUFFICES ASSUME NEW i \in 1..Len(waiters'), NEW j \in 1..Len(waiters'),
                        waiters'[i] = waiters'[j]
                 PROVE  i = j
        OBVIOUS
    <3>1. i + 1 = j + 1
        BY <2>2, <2>5
    <3>2. i \in Int /\ j \in Int
        BY <2>1, <2>2
    <3>3. QED  BY <3>1, <3>2
  <2>8. pc'[holder'] \in Holding /\ holder' # None
      BY <2>2, <2>3, <2>4 DEF Holding
  <2>9. QED  BY <2>6, <2>7, <2>8
<1>3. QED  BY <1>1, <1>2

\* The lock is left alone by a task that holds it, or has no part in it.
LEMMA OtherQueue ==
    ASSUME TypeOK, QueueInv, NEW t \in Tasks, Moves(t), UNCHANGED lockVars,
           \/ holder = t /\ pc'[t] \in Holding
           \/ pc[t] \notin Holding
    PROVE  QueueInv'
<1> USE WaitersType DEF QueueInv, Moves
<1>1. holder' = holder /\ waiters' = waiters
    BY DEF lockVars
<1>2. \A i \in 1..Len(waiters) : waiters[i] # t /\ pc'[waiters[i]] = "waiting"
    BY DEF Holding
<1>3. holder # None => pc'[holder] \in Holding
    OBVIOUS
<1>4. QED  BY <1>1, <1>2, <1>3

LEMMA CancelQueue ==
    ASSUME TypeOK, QueueInv, NEW c \in Calls, CancelWaiting(c)
    PROVE  QueueInv'
<1> USE WaitersType DEF QueueInv
<1>0. c \in Tasks
    BY DEF Tasks
<1>1. PICK k \in 1..Len(waiters) :
          /\ waiters[k] = c
          /\ waiters' = SubSeq(waiters, 1, k - 1)
                        \o SubSeq(waiters, k + 1, Len(waiters))
    BY DEF CancelWaiting
<1> DEFINE front == SubSeq(waiters, 1, k - 1)
           back == SubSeq(waiters, k + 1, Len(waiters))
           from(i) == IF i < k THEN i ELSE i + 1
<1>2. /\ front \in Seq(Tasks) /\ Len(front) = k - 1
      /\ \A i \in 1..(k - 1) : front[i] = waiters[i]
    <2>1. 1 \in 1..(Len(waiters) + 1) /\ k - 1 \in 0..Len(waiters)
        BY <1>1
    <2>2. QED  BY <2>1, SubSeqProperties
<1>3. /\ back \in Seq(Tasks) /\ Len(back) = Len(waiters) - k
      /\ \A i \in 1..(Len(waiters) - k) : back[i] = waiters[k + i]
    <2>1. \A i \in 1..(Len(waiters) - k) : k + i = (k + 1) + i - 1
        BY <1>1
    <2>2. \A i \in (k + 1)..Len(waiters) : waiters[i] \in Tasks
        BY <1>1
    <2>3. QED  BY <1>1, <2>1, <2>2, SubSeqProperties
<1>4. waiters' = front \o back
    BY <1>1
<1> HIDE DEF front, back
<1>5. /\ Len(front \o back) = Len(front) + Len(back)
      /\ \A i \in 1..(Len(front) + Len(back)) :
            (front \o back)[i] = IF i <= Len(front) THEN front[i]
                                                   ELSE back[i - Len(front)]
  <2>1. front \in Seq(Tasks) /\ back \in Seq(Tasks)
      BY <1>2, <1>3
  <2> HIDE DEF QueueInv
  <2>2. QED  BY ONLY <2>1, ConcatProperties
<1>6. Len(waiters') = Len(waiters) - 1
  <2>1. k \in Int /\ Len(waiters) \in Int
      BY <1>1
  <2>2. Len(waiters') = (k - 1) + (Len(waiters) - k)
      BY <1>2, <1>3, <1>4, <1>5
  <2>3. QED  BY ONLY <2>1, <2>2
<1>6a. \A i \in 1..Len(waiters') :
          waiters'[i] = IF i <= k - 1 THEN front[i] ELSE back[i - (k - 1)]
  <2>1. Len(waiters') = Len(front) + Len(back)
      BY <1>4, <1>5
  <2>2. QED  BY ONLY <1>2, <1>4, <1>5, <2>1
<1>7. \A i \in 1..Len(waiters') :
          waiters'[i] = waiters[from(i)] /\ from(i) \in 1..Len(waiters) /\ from(i) # k
  <2> SUFFICES ASSUME NEW i \in 1..Len(waiters')
               PROVE  waiters'[i] = waiters[from(i)] /\ from(i) \in 1..Len(waiters)
                      /\ from(i) # k
      OBVIOUS
  <2>0. k \in Int /\ i \in Int /\ Len(waiters) \in Nat
        /\ 1 <= k /\ k <= Len(waiters) /\ 1 <= i /\ i <= Len(waiters) - 1
    <3>1. Len(waiters) \in Nat /\ k \in 1..Len(waiters) /\ i \in 1..Len(waiters')
        BY <1>1
    <3>2. QED  BY ONLY <1>6, <3>1
  <2>1. CASE i < k
    <3>1. i \in 1..(k - 1) /\ from(i) = i /\ i <= k - 1 /\ i \in 1..Len(waiters)
        BY ONLY <2>0, <2>1
    <3>2. waiters'[i] = front[i]
        BY ONLY <1>6a, <3>1
    <3>3. QED  BY ONLY <1>2, <3>1, <3>2, <2>0, <2>1
  <2>2. CASE ~(i < k)
    <3>1. /\ i - (k - 1) \in 1..(Len(waiters) - k)
          /\ k + (i - (k - 1)) = i + 1
          /\ from(i) = i + 1 /\ ~(i <= k - 1)
          /\ i + 1 \in 1..Len(waiters) /\ i + 1 # k
        BY ONLY <2>0, <2>2
    <3>2. waiters'[i] = back[i - (k - 1)]
        BY ONLY <1>6a, <3>1
    <3>3. back[i - (k - 1)] = waiters[i + 1]
        BY ONLY <1>3, <3>1
    <3>4. QED  BY ONLY <3>1, <3>2, <3>3
  <2>3. QED  BY <2>1, <2>2
<1>8. \A i, j \in 1..Len(waiters') : from(i) = from(j) => i = j
    BY <1>1, <1>6
<1> HIDE DEF from
<1>9. holder' = holder /\ holder # c /\ \A u \in Tasks \ {c} : pc'[u] = pc[u]
    BY <1>0, <1>1 DEF CancelWaiting, TypeOK
<1>10. holder # None => pc'[holder] \in Holding
    BY <1>9
<1>11. holder # None
  <2>1. Len(waiters) # 0
      BY <1>1
  <2>2. QED  BY <2>1
<1>12. \A i \in 1..Len(waiters) : i # k => waiters[i] # c
    BY <1>1
<1>13. \A i \in 1..Len(waiters') : pc'[waiters'[i]] = "waiting" /\ waiters'[i] # holder'
    BY <1>7, <1>9, <1>12
<1>14. \A i, j \in 1..Len(waiters') : waiters'[i] = waiters'[j] => i = j
    BY <1>7, <1>8
<1>15. QED  BY <1>9, <1>10, <1>11, <1>13, <1>14

LEMMA QueueStep ==
    ASSUME IInv, QueueInv, Next
    PROVE  QueueInv'
<1>0. TypeOK
    BY DEF IInv, TypeInv
<1>1. ASSUME NEW c \in Calls, CallStep(c)
      PROVE  QueueInv'
  <2>0. c \in Tasks /\ Moves(c)
      BY <1>0, <1>1 DEF CallStep, Hit, Miss, Evict, Evicted, Started,
         StartFailed, Finish, BeginStart, Moves, Tasks, TypeOK
  <2>1. CASE Hit(c) \/ Started(c) \/ StartFailed(c)
      BY <1>0, <2>0, <2>1, ReleaseQueue DEF Hit, Started, StartFailed, Granted
  <2>2. CASE Miss(c) \/ Evict(c) \/ Evicted(c) \/ Finish(c)
      BY <1>0, <2>0, <2>2, OtherQueue DEF Miss, Evict, Evicted, Finish, Granted,
         BeginStart, TypeOK, Holding
  <2>3. QED  BY <1>1, <2>1, <2>2 DEF CallStep
<1>2. ASSUME NEW c \in Calls, CallInput(c)
      PROVE  QueueInv'
  <2>0. c \in Tasks
      BY DEF Tasks
  <2>1. ASSUME NEW f \in Files, Arrivable(c), ResolveAndAcquire(c, f)
        PROVE  QueueInv'
    <3>1. pc[c] = "idle" /\ pc'[c] = "waiting" /\ Moves(c) /\ Acquire(c)
        BY <1>0, <2>0, <2>1 DEF ResolveAndAcquire, Arrivable, Moves, TypeOK
    <3>2. QED  BY <1>0, <2>0, <3>1, AcquireQueue
  <2>2. ASSUME NEW f \in Files, Arrivable(c), Unresolved(c, f)
        PROVE  QueueInv'
      BY <1>0, <2>0, <2>2, OtherQueue
      DEF Unresolved, Arrivable, Moves, TypeOK, Holding
  <2>3. CASE \E f \in Files : Arrive(c, f)
      BY <2>1, <2>2, <2>3 DEF Arrive
  <2>4. CASE \E t \in Calls : ArrivePathless(c, t)
      BY <1>0, <2>0, <2>4, OtherQueue
      DEF ArrivePathless, Arrivable, Moves, TypeOK, Holding
  <2>5. CASE ArriveFallback(c)
      BY <2>1, <2>2, <2>5, ConstantsAssumption DEF ArriveFallback
  <2>6. CASE ArriveWithout(c)
      BY <1>0, <2>0, <2>6, OtherQueue
      DEF ArriveWithout, Arrivable, Moves, TypeOK, Holding
  <2>7. CASE Request(c) \/ Crash(c)
      BY <2>7 DEF Request, Crash, lockVars, QueueInv
  <2>8. CASE CancelWaiting(c)
      BY <1>0, <2>8, CancelQueue
  <2>9. CASE CancelHolding(c)
      BY <1>0, <2>0, <2>9, ReleaseQueue DEF CancelHolding, Moves, TypeOK
  <2>10. QED
      BY <1>2, <2>3, <2>4, <2>5, <2>6, <2>7, <2>8, <2>9 DEF CallInput
<1>3. ASSUME NEW u \in Updates, ArriveUpdate(u) \/ UpdateStep(u)
      PROVE  QueueInv'
  <2>0. u \in Tasks /\ Moves(u)
      BY <1>0, <1>3 DEF ArriveUpdate, UpdateStep, InstallRoots, RemoveRoot,
         Stopped, RootsDone, Moves, Tasks, TypeOK
  <2>1. CASE ArriveUpdate(u)
      BY <1>0, <2>0, <2>1, AcquireQueue DEF ArriveUpdate, TypeOK
  <2>2. CASE RootsDone(u)
      BY <1>0, <2>0, <2>2, ReleaseQueue DEF RootsDone
  <2>3. CASE \/ InstallRoots(u)
             \/ \E r \in Dirs : RemoveRoot(u, r)
             \/ Stopped(u)
      BY <1>0, <2>0, <2>3, OtherQueue DEF InstallRoots, RemoveRoot, Stopped,
         Granted, lockVars, TypeOK, Holding
  <2>4. QED  BY <1>3, <2>1, <2>2, <2>3 DEF UpdateStep
<1>4. ASSUME ArriveTeardown \/ TeardownStep
      PROVE  QueueInv'
  <2>0. Teardown \in Tasks /\ Moves(Teardown)
      BY <1>0, <1>4 DEF ArriveTeardown, TeardownStep, CloseAll, CloseOne,
         Stopped, AllClosed, Moves, Tasks, TypeOK
  <2>1. CASE ArriveTeardown
      BY <1>0, <2>0, <2>1, AcquireQueue DEF ArriveTeardown, TypeOK
  <2>2. pc[Teardown] \in {"working", "stopping"} => holder = Teardown
      BY <2>0 DEF IInv, LockInv
  <2>3. CASE AllClosed
      BY <1>0, <2>0, <2>2, <2>3, ReleaseQueue DEF AllClosed
  <2>4. CASE \/ CloseAll
             \/ \E r \in Dirs : CloseOne(r)
             \/ Stopped(Teardown)
      BY <1>0, <2>0, <2>2, <2>4, OtherQueue DEF CloseAll, CloseOne, Stopped,
         Granted, lockVars, TypeOK, Holding
  <2>5. QED  BY <1>4, <2>1, <2>3, <2>4 DEF TeardownStep
<1>5. QED  BY <1>1, <1>2, <1>3, <1>4 DEF Next

\* shutdown_all leaves an empty table, only stopped triads and a free lock,
\* after any history of calls, updates, failures and cancellations.
THEOREM TeardownEmptiesAlways == Spec => []TeardownEmpties
<1>1. Init => QueueInv
    BY DEF Init, QueueInv
<1>2. IInv /\ QueueInv /\ [Next]_vars => QueueInv'
  <2>1. CASE UNCHANGED vars
      BY <2>1 DEF vars, lockVars, QueueInv
  <2>2. QED  BY <2>1, QueueStep
<1>3. IInv /\ QueueInv => TeardownEmpties
  <2> SUFFICES ASSUME IInv, QueueInv, pc[Teardown] = "done"
               PROVE  /\ Registered = {}
                      /\ \A t \in Calls : ~initialized[t]
                      /\ holder = None /\ waiters = <<>>
      BY DEF TeardownEmpties
  <2>0. Registered = {}
      BY DEF IInv, TableInv
  <2>1. \A t \in Calls : ~initialized[t]
    <3> SUFFICES ASSUME NEW t \in Calls, initialized[t]  PROVE FALSE
        OBVIOUS
    <3>1. root[t] # None /\ workspaces[root[t]] = t
        BY DEF IInv, TableInv, TableMatchesFlags
    <3>2. root[t] \in Dirs /\ t # None
        BY <3>1, ConstantsAssumption DEF IInv, TypeInv, TypeOK, Tasks
    <3>3. QED  BY <2>0, <3>1, <3>2 DEF Registered
  <2>2. \A t \in Tasks : pc[t] \notin Holding
      BY DEF IInv, QuietInv, Tasks, Over, Holding
  <2>3. holder = None
      BY <2>2 DEF IInv, TypeInv, TypeOK, QueueInv
  <2>4. QED  BY <2>0, <2>1, <2>3 DEF QueueInv
<1>4. QED  BY <1>1, <1>2, <1>3, Invariance, PTL DEF Spec

-----------------------------------------------------------------------------
(* The table implements an LRU cache.  The victim is picked by the         *)
(* timestamps of the triads, which are set at construction, before a       *)
(* start-up is awaited, and at every access; what the abstract cache       *)
(* orders is when a root was last served.  The lock makes the two orders   *)
(* the same: nothing is touched between a construction and its entry.      *)

\* Roots are ordered by when they were served, and their triads alike.  The
\* triad that is being started is younger than every registered one.
OrderInv ==
    /\ \A r \in Registered : served[r] <= HandOuts
    /\ \A r, s \in Registered : served[r] = served[s] => r = s
    /\ \A r, s \in Registered : served[r] < served[s] =>
          lastAccessed[workspaces[r]] < lastAccessed[workspaces[s]]
    /\ \A c \in Calls : pc[c] = "starting" =>
          \A r \in Registered : lastAccessed[workspaces[r]] < lastAccessed[c]

\* The clock is never behind, and a call is handed backends once.
ClockInv ==
    /\ \A t \in Calls : lastAccessed[t] <= clock
    /\ \A c \in Calls : pc[c] \in Holding \cup {"idle"} => got[c] = None

\* Roots are left to drop only while a set_roots is at work.
TodoInv ==
    pc[Teardown] = "idle" /\ (\A u \in Updates : pc[u] \notin {"working", "stopping"}) =>
        todo = {}

AgeInv == OrderInv /\ ClockInv /\ TodoInv

\* Handing backends to one more call moves the time of the history on.
LEMMA HandOutsCount ==
    ASSUME TypeInv, NEW c \in Calls, got[c] = None, NEW t \in Calls,
           got' = [got EXCEPT ![c] = t]
    PROVE  HandOuts' = HandOuts + 1
<1> DEFINE Served == {d \in Calls : got[d] # None}
<1>1. IsFiniteSet(Served) /\ c \notin Served
    BY ConstantsAssumption, FS_Subset
<1>2. Served' = Served \cup {c}
    BY ConstantsAssumption DEF TypeInv, TypeOK, Tasks
<1>3. Cardinality(Served \cup {c}) = Cardinality(Served) + 1
    BY <1>1, FS_AddElement
<1>4. QED  BY <1>2, <1>3 DEF HandOuts

\* A step that serves root r through triad t, the one touched last.
LEMMA OrderServed ==
    ASSUME IInv, OrderInv, NEW r \in Dirs, NEW t \in Calls,
           Registered' = Registered \cup {r},
           workspaces'[r] = t, \A s \in Dirs \ {r} : workspaces'[s] = workspaces[s],
           served' = [served EXCEPT ![r] = HandOuts + 1],
           HandOuts' = HandOuts + 1,
           \A s \in Registered \ {r} : /\ lastAccessed'[workspaces[s]] = lastAccessed[workspaces[s]]
                                       /\ lastAccessed[workspaces[s]] < lastAccessed'[t],
           \A c \in Calls : pc'[c] # "starting"
    PROVE  OrderInv'
<1> USE DEF IInv, TypeInv, TypeOK
<1>1. HandOuts \in Nat
    BY HandOutsType
<1>2. served'[r] = HandOuts + 1 /\ \A s \in Dirs \ {r} : served'[s] = served[s]
    OBVIOUS
<1>3. \A s \in Registered' : s = r \/ s \in Registered \ {r}
    OBVIOUS
<1>4. \A s \in Registered : s \in Dirs /\ served[s] \in Nat /\ served[s] <= HandOuts
    BY DEF OrderInv, Registered
<1>5. \A s \in Registered' : served'[s] <= HandOuts'
    BY <1>1, <1>2, <1>3, <1>4
<1>6. \A s, u \in Registered' : served'[s] = served'[u] => s = u
    BY <1>1, <1>2, <1>3, <1>4 DEF OrderInv
<1>7. ASSUME NEW s \in Registered', NEW u \in Registered', served'[s] < served'[u]
      PROVE  lastAccessed'[workspaces'[s]] < lastAccessed'[workspaces'[u]]
  <2>1. s # r
      BY <1>1, <1>2, <1>3, <1>4, <1>7
  <2>2. s \in Registered \ {r}
      BY <1>3, <2>1
  <2>3. CASE u = r
      BY <1>4, <2>2, <2>3
  <2>4. CASE u # r
    <3>1. u \in Registered \ {r}
        BY <1>3, <2>4
    <3>2. served[s] < served[u]
        BY <1>2, <1>4, <1>7, <2>2, <3>1
    <3>3. lastAccessed[workspaces[s]] < lastAccessed[workspaces[u]]
        BY <2>2, <3>1, <3>2 DEF OrderInv
    <3>4. QED  BY <1>4, <2>2, <3>1, <3>3
  <2>5. QED  BY <2>3, <2>4
<1>8. QED  BY <1>5, <1>6, <1>7 DEF OrderInv

\* A step that serves nothing, and touches at most the triad it constructs.
LEMMA OrderKept ==
    ASSUME IInv, OrderInv, served' = served, HandOuts' >= HandOuts,
           Registered' \subseteq Registered,
           \A r \in Registered' : /\ workspaces'[r] = workspaces[r]
                                  /\ lastAccessed'[workspaces[r]] = lastAccessed[workspaces[r]],
           \A c \in Calls : pc'[c] = "starting" =>
               \/ pc[c] = "starting" /\ lastAccessed'[c] = lastAccessed[c]
               \/ \A r \in Registered' : lastAccessed[workspaces[r]] < lastAccessed'[c]
    PROVE  OrderInv'
<1> USE DEF IInv, TypeInv, TypeOK
<1>1. HandOuts \in Nat /\ HandOuts' \in Nat
    <2>1. IsFiniteSet({c \in Calls : got'[c] # None})
        BY ConstantsAssumption, FS_Subset
    <2>2. HandOuts' \in Nat
        BY <2>1, FS_CardinalityType DEF HandOuts
    <2>3. QED  BY <2>2, HandOutsType
<1>2. \A r \in Registered' : r \in Registered /\ r \in Dirs /\ served[r] \in Nat
    BY DEF Registered
<1>3. \A r \in Registered' : served'[r] <= HandOuts'
    BY <1>1, <1>2 DEF OrderInv
<1>4. \A r, s \in Registered' : served'[r] = served'[s] => r = s
    BY <1>2 DEF OrderInv
<1>5. \A r, s \in Registered' : served'[r] < served'[s] =>
          lastAccessed'[workspaces'[r]] < lastAccessed'[workspaces'[s]]
    BY <1>2 DEF OrderInv
<1>6. ASSUME NEW c \in Calls, pc'[c] = "starting", NEW r \in Registered'
      PROVE  lastAccessed'[workspaces'[r]] < lastAccessed'[c]
  <2>1. lastAccessed'[workspaces'[r]] = lastAccessed[workspaces[r]] /\ r \in Registered
      BY <1>2
  <2>2. CASE pc[c] = "starting" /\ lastAccessed'[c] = lastAccessed[c]
      BY <2>1, <2>2 DEF OrderInv
  <2>3. CASE \A q \in Registered' : lastAccessed[workspaces[q]] < lastAccessed'[c]
      BY <2>1, <2>3
  <2>4. QED  BY <1>6, <2>2, <2>3
<1>7. QED  BY <1>3, <1>4, <1>5, <1>6 DEF OrderInv

LEMMA AgeInit == Init => AgeInv
BY DEF Init, AgeInv, OrderInv, ClockInv, TodoInv, Registered, Tasks

\* The other invariants of calls and of the table that the lemmas below use.
LEMMA OfTheTable ==
    ASSUME IInv
    PROVE  /\ TypeOK /\ None \notin Tasks
           /\ \A r \in Registered : workspaces[r] \in Calls /\ root[workspaces[r]] = r
           /\ \A c \in Calls : pc[c] \in {"stopping", "starting"} =>
                 /\ root[c] \in Dirs \ Registered
                 /\ \A r \in Registered : workspaces[r] # c
BY ConstantsAssumption DEF IInv, TypeInv, TypeOK, RootResolved, TableInv, Registered, Tasks

LEMMA OrderCall ==
    ASSUME IInv, AgeInv, NEW c \in Calls, CallStep(c)
    PROVE  OrderInv'
<1> USE OfTheTable DEF TypeOK, Tasks
<1>1. CASE Hit(c)
  <2>1. root[c] \in Registered /\ got[c] = None /\ pc[c] = "waiting" /\ holder = c
      BY <1>1 DEF Hit, Granted, IInv, TypeInv, RootResolved, Registered, AgeInv, ClockInv, Holding
  <2>2. HandOuts' = HandOuts + 1
      BY <1>1, <2>1, HandOutsCount DEF Hit, IInv
  <2>3. Registered' = Registered /\ workspaces' = workspaces
      BY <1>1 DEF Hit, Registered
  <2>4. \A d \in Calls : pc'[d] # "starting"
      BY <1>1, <2>1 DEF Hit, IInv, LockInv
  <2>5. \A s \in Registered \ {root[c]} : workspaces[s] # workspaces[root[c]]
      BY <2>1
  <2>6. \A s \in Registered \ {root[c]} :
            /\ lastAccessed'[workspaces[s]] = lastAccessed[workspaces[s]]
            /\ lastAccessed[workspaces[s]] < lastAccessed'[workspaces[root[c]]]
      BY <1>1, <2>1, <2>5 DEF Hit, Touch, AgeInv, ClockInv
  <2>7. served' = [served EXCEPT ![root[c]] = HandOuts + 1]
      BY <1>1 DEF Hit
  <2>8. root[c] \in Dirs /\ workspaces[root[c]] \in Calls
      BY <2>1 DEF Registered
  <2>9. /\ Registered' = Registered \cup {root[c]}
        /\ workspaces'[root[c]] = workspaces[root[c]]
        /\ \A s \in Dirs \ {root[c]} : workspaces'[s] = workspaces[s]
      BY <2>1, <2>3
  <2>10. OrderInv
      BY DEF AgeInv
  <2>11. QED  BY <2>2, <2>4, <2>6, <2>7, <2>8, <2>9, <2>10, OrderServed
<1>2. CASE Started(c)
  <2>1. pc[c] = "starting" /\ root[c] \in Dirs \ Registered /\ got[c] = None /\ holder = c
      BY <1>2 DEF Started, AgeInv, ClockInv, Holding
  <2>2. HandOuts' = HandOuts + 1
      BY <1>2, <2>1, HandOutsCount DEF Started, IInv
  <2>3. /\ workspaces'[root[c]] = c
        /\ \A s \in Dirs \ {root[c]} : workspaces'[s] = workspaces[s]
        /\ Registered' = Registered \cup {root[c]}
      BY <1>2, <2>1 DEF Started, Registered
  <2>4. \A d \in Calls : pc'[d] # "starting"
      BY <1>2, <2>1 DEF Started, IInv, LockInv
  <2>5. /\ lastAccessed' = lastAccessed
        /\ \A s \in Registered : lastAccessed[workspaces[s]] < lastAccessed[c]
      BY <1>2, <2>1 DEF Started, AgeInv, OrderInv
  <2>6. served' = [served EXCEPT ![root[c]] = HandOuts + 1]
      BY <1>2 DEF Started
  <2>7. QED  BY <2>1, <2>2, <2>3, <2>4, <2>5, <2>6, OrderServed DEF AgeInv
<1>3. CASE Miss(c) \/ Evict(c) \/ Evicted(c) \/ StartFailed(c) \/ Finish(c)
  <2>0. served' = served /\ got' = got
      BY <1>3 DEF Miss, Evict, Evicted, StartFailed, Finish
  <2>1. served' = served /\ HandOuts' = HandOuts /\ HandOuts \in Nat
      BY <2>0, HandOutsType DEF HandOuts
  <2>2. Registered' \subseteq Registered /\ \A r \in Registered' : workspaces'[r] = workspaces[r]
      BY <1>3 DEF Miss, Evict, Evicted, StartFailed, Finish, Registered
  <2>3. CASE Miss(c) \/ Evicted(c)
    <3>1. /\ lastAccessed'[c] = clock + 1
          /\ \A d \in Calls \ {c} : lastAccessed'[d] = lastAccessed[d] /\ pc'[d] = pc[d]
        BY <2>3 DEF Miss, Evicted, BeginStart, Touch
    <3>2. \A r \in Registered : workspaces[r] # c
      <4>1. CASE Miss(c)
          BY <4>1 DEF Miss, Granted, Registered, TypeOK
      <4>2. CASE Evicted(c)
          BY <4>2 DEF Evicted
      <4>3. QED  BY <2>3, <4>1, <4>2
    <3>3. \A r \in Registered : lastAccessed[workspaces[r]] < lastAccessed'[c]
        BY <3>1 DEF AgeInv, ClockInv
    <3>4. \A d \in Calls : pc'[d] = "starting" =>
              \/ pc[d] = "starting" /\ lastAccessed'[d] = lastAccessed[d]
              \/ \A r \in Registered' : lastAccessed[workspaces[r]] < lastAccessed'[d]
        BY <2>2, <3>1, <3>3
    <3>5. \A r \in Registered' : lastAccessed'[workspaces[r]] = lastAccessed[workspaces[r]]
        BY <2>2, <3>1, <3>2
    <3>6. QED  BY <2>1, <2>2, <3>4, <3>5, OrderKept DEF AgeInv
  <2>4. CASE Evict(c) \/ StartFailed(c) \/ Finish(c)
    <3>1. lastAccessed' = lastAccessed /\ \A d \in Calls : pc'[d] = "starting" => pc[d] = "starting"
        BY <2>4 DEF Evict, StartFailed, Finish, triadVars
    <3>2. QED  BY <2>1, <2>2, <3>1, OrderKept DEF AgeInv
  <2>5. QED  BY <1>3, <2>3, <2>4
<1>4. QED  BY <1>1, <1>2, <1>3 DEF CallStep

\* Every other step leaves the order as it is.
LEMMA OrderOther ==
    ASSUME IInv, AgeInv,
           \/ \E c \in Calls : CallInput(c)
           \/ \E u \in Updates : ArriveUpdate(u) \/ UpdateStep(u)
           \/ ArriveTeardown \/ TeardownStep
    PROVE  OrderInv'
<1> USE OfTheTable DEF TypeOK, Tasks
<1>1. /\ lastAccessed' = lastAccessed /\ served' = served
      /\ \A d \in Calls : pc'[d] = "starting" => pc[d] = "starting"
    BY DEF CallInput, Arrive, ArrivePathless, ArriveFallback, ArriveWithout, ResolveAndAcquire,
       Unresolved, Request, CancelWaiting, CancelHolding, Crash, ArriveUpdate, UpdateStep,
       InstallRoots, RemoveRoot, RootsDone, ArriveTeardown, TeardownStep, CloseAll, CloseOne,
       AllClosed, Stopped, triadVars
<1>2. Registered' \subseteq Registered /\ \A r \in Registered' : workspaces'[r] = workspaces[r]
  <2>1. ASSUME NEW u \in Updates, NEW r \in Dirs, RemoveRoot(u, r)
        PROVE  workspaces' = [workspaces EXCEPT ![r] = None]
      BY <2>1 DEF RemoveRoot
  <2>2. CASE AllClosed
      BY <2>2 DEF AllClosed, Registered
  <2>3. CASE ~AllClosed /\ ~\E u \in Updates, r \in Dirs : RemoveRoot(u, r)
    <3>1. workspaces' = workspaces
        BY <2>3 DEF CallInput, Arrive, ArrivePathless, ArriveFallback, ArriveWithout,
           ResolveAndAcquire, Unresolved, Request, CancelWaiting, CancelHolding, Crash,
           ArriveUpdate, UpdateStep, InstallRoots, RootsDone, ArriveTeardown, TeardownStep,
           CloseAll, CloseOne, Stopped
    <3>2. QED  BY <3>1 DEF Registered
  <2>4. QED  BY <2>1, <2>2, <2>3 DEF Registered
<1>3. HandOuts' >= HandOuts
  <2>1. ASSUME NEW c \in Calls, NEW t \in Calls, ArrivePathless(c, t)  PROVE HandOuts' = HandOuts + 1
    <3>1. got[c] = None /\ got' = [got EXCEPT ![c] = t]
        BY <2>1 DEF ArrivePathless, Arrivable, AgeInv, ClockInv
    <3>2. QED  BY <3>1, HandOutsCount DEF IInv
  <2>2. CASE ~\E c, t \in Calls : ArrivePathless(c, t)
    <3>1. got' = got
        BY <2>2 DEF CallInput, Arrive, ArriveFallback, ArriveWithout, ResolveAndAcquire,
           Unresolved, Request, CancelWaiting, CancelHolding, Crash, ArriveUpdate, UpdateStep,
           InstallRoots, RemoveRoot, RootsDone, ArriveTeardown, TeardownStep, CloseAll, CloseOne,
           AllClosed, Stopped
    <3>2. HandOuts' = HandOuts
        BY <3>1 DEF HandOuts
    <3>3. QED  BY <3>2, HandOutsType
  <2>3. QED  BY <2>1, <2>2, HandOutsType
<1>4. QED  BY <1>1, <1>2, <1>3, OrderKept DEF AgeInv

LEMMA ClockStep ==
    ASSUME IInv, AgeInv, Next
    PROVE  ClockInv'
<1> USE OfTheTable DEF TypeOK, Tasks, AgeInv, ClockInv, Holding
<1>1. ASSUME NEW c \in Calls, CallStep(c)
      PROVE  ClockInv'
  <2>1. CASE Hit(c)
    <3>1. workspaces[root[c]] \in Calls
        BY <2>1 DEF Hit, Granted, Registered, IInv, TypeInv, RootResolved
    <3>2. QED  BY <2>1, <3>1 DEF Hit, Touch
  <2>2. CASE Miss(c)
      BY <2>2 DEF Miss, Granted, BeginStart, Touch
  <2>3. CASE Evicted(c)
      BY <2>3 DEF Evicted, Touch
  <2>4. CASE Evict(c) \/ Started(c) \/ StartFailed(c) \/ Finish(c)
    <3>1. lastAccessed' = lastAccessed /\ clock' = clock
        BY <2>4 DEF Evict, Started, StartFailed, Finish, triadVars
    <3>2. /\ \A d \in Calls \ {c} : got'[d] = got[d] /\ pc'[d] = pc[d]
          /\ pc'[c] \in Holding \cup {"idle"} => got'[c] = got[c] /\ pc[c] \in Holding \cup {"idle"}
        BY <2>4 DEF Evict, Started, StartFailed, Finish, Granted, Over
    <3>3. QED  BY <3>1, <3>2
  <2>5. QED  BY <1>1, <2>1, <2>2, <2>3, <2>4 DEF CallStep
<1>2. ASSUME NEW c \in Calls, CallInput(c)
      PROVE  ClockInv'
  <2>1. lastAccessed' = lastAccessed /\ clock' = clock
      BY <1>2 DEF CallInput, Arrive, ArrivePathless, ArriveFallback, ArriveWithout,
         ResolveAndAcquire, Unresolved, Request, CancelWaiting, CancelHolding, Crash, triadVars
  <2>2. /\ \A d \in Calls \ {c} : got'[d] = got[d] /\ pc'[d] = pc[d]
        /\ pc'[c] \in Holding \cup {"idle"} => got'[c] = got[c] /\ pc[c] \in Holding \cup {"idle"}
    <3>1. CASE (\E f \in Files : Arrive(c, f)) \/ ArriveFallback(c) \/ ArriveWithout(c)
        BY <3>1 DEF Arrive, ArriveFallback, ArriveWithout, Arrivable, ResolveAndAcquire, Unresolved
    <3>2. CASE \E t \in Calls : ArrivePathless(c, t)
        BY <3>2 DEF ArrivePathless
    <3>3. CASE Request(c) \/ CancelWaiting(c) \/ CancelHolding(c) \/ Crash(c)
        BY <3>3 DEF Request, CancelWaiting, CancelHolding, Crash
    <3>4. QED  BY <1>2, <3>1, <3>2, <3>3 DEF CallInput
  <2>3. QED  BY <2>1, <2>2
<1>3. CASE \/ \E u \in Updates : ArriveUpdate(u) \/ UpdateStep(u)
           \/ ArriveTeardown \/ TeardownStep
  <2>1. lastAccessed' = lastAccessed /\ clock' = clock /\ got' = got
      BY <1>3 DEF ArriveUpdate, UpdateStep, InstallRoots, RemoveRoot, RootsDone, ArriveTeardown,
         TeardownStep, CloseAll, CloseOne, AllClosed, Stopped, triadVars
  <2>2. \A d \in Calls : pc'[d] = pc[d]
    <3>1. \A u \in Updates \cup {Teardown} : u \notin Calls
        BY ConstantsAssumption
    <3>2. QED
        BY <1>3, <3>1 DEF ArriveUpdate, UpdateStep, InstallRoots, RemoveRoot, RootsDone,
           ArriveTeardown, TeardownStep, CloseAll, CloseOne, AllClosed, Stopped
  <2>3. QED  BY <2>1, <2>2
<1>4. QED  BY <1>1, <1>2, <1>3 DEF Next

LEMMA TodoStep ==
    ASSUME IInv, AgeInv, Next
    PROVE  TodoInv'
<1> USE OfTheTable, ConstantsAssumption DEF TypeOK, Tasks, AgeInv, TodoInv
<1>1. ASSUME NEW c \in Calls, CallStep(c) \/ CallInput(c)
      PROVE  TodoInv'
  <2>1. todo' = todo
      BY <1>1 DEF CallStep, Hit, Miss, Evict, Evicted, Started, StartFailed, Finish,
         CallInput, Arrive, ArrivePathless, ArriveFallback, ArriveWithout,
         ResolveAndAcquire, Unresolved, Request, CancelWaiting, CancelHolding, Crash
  <2>2. UNCHANGED pc \/ \E x : pc' = [pc EXCEPT ![c] = x]
      BY <1>1 DEF CallStep, Hit, Miss, Evict, Evicted, Started, StartFailed, Finish, BeginStart,
         CallInput, Arrive, ArrivePathless, ArriveFallback, ArriveWithout,
         ResolveAndAcquire, Unresolved, Request, CancelWaiting, CancelHolding, Crash
  <2>3. \A t \in Updates \cup {Teardown} : pc'[t] = pc[t]
      BY <2>2
  <2>4. QED  BY <2>1, <2>3
<1>2. ASSUME NEW u \in Updates, ArriveUpdate(u) \/ UpdateStep(u)
      PROVE  TodoInv'
  <2>1. CASE ArriveUpdate(u)
      BY <2>1 DEF ArriveUpdate
  <2>2. CASE InstallRoots(u)
      BY <2>2 DEF InstallRoots
  <2>3. CASE \E r \in Dirs : RemoveRoot(u, r)
      BY <2>3 DEF RemoveRoot
  <2>4. CASE Stopped(u)
      BY <2>4 DEF Stopped
  <2>5. CASE RootsDone(u)
      BY <2>5 DEF RootsDone
  <2>6. QED  BY <1>2, <2>1, <2>2, <2>3, <2>4, <2>5 DEF UpdateStep
<1>3. CASE ArriveTeardown \/ TeardownStep
  <2>1. pc'[Teardown] # "idle"
      BY <1>3 DEF ArriveTeardown, TeardownStep, CloseAll, CloseOne, AllClosed, Stopped
  <2>2. QED  BY <2>1
<1>4. QED  BY <1>1, <1>2, <1>3 DEF Next

LEMMA AgeStep == IInv /\ AgeInv /\ [Next]_vars => AgeInv'
<1> SUFFICES ASSUME IInv, AgeInv, [Next]_vars  PROVE AgeInv'
    OBVIOUS
<1>1. CASE Next
    BY <1>1, OrderCall, OrderOther, ClockStep, TodoStep DEF Next, AgeInv
<1>2. CASE UNCHANGED vars
    BY <1>2 DEF vars, triadVars, AgeInv, OrderInv, ClockInv, TodoInv, Registered, HandOuts
<1>3. QED  BY <1>1, <1>2

-----------------------------------------------------------------------------
(* The steps of the table are steps of the abstract cache.                  *)

\* Serving a root makes it the most recent one.
LEMMA ServeIsTouch ==
    ASSUME IInv, AgeInv, NEW r \in Dirs, Registered' = Registered \cup {r},
           served' = [served EXCEPT ![r] = HandOuts + 1]
    PROVE  Cache!Touch(r)
<1>1. /\ \A s \in Registered : served[s] <= HandOuts /\ served[s] \in Nat
      /\ HandOuts \in Nat
    BY HandOutsType DEF AgeInv, OrderInv, Registered, IInv, TypeInv, TypeOK
<1>2. \A s \in Dirs : served'[s] = IF s = r THEN HandOuts + 1 ELSE served[s]
    BY DEF IInv, TypeInv, TypeOK
<1>3. Older' = {p \in (Registered \cup {r}) \X (Registered \cup {r}) : served'[p[1]] < served'[p[2]]}
    BY DEF Older
<1>4. \A s \in Registered \cup {r} : s \in Dirs
    BY DEF Registered
<1>5. ASSUME NEW s \in Registered \cup {r}, NEW t \in Registered \cup {r}
      PROVE  served'[s] < served'[t] <=> \/ s # r /\ t = r
                                         \/ s # r /\ t # r /\ served[s] < served[t]
    BY <1>1, <1>2, <1>4
<1>6. Older' = Cache!Without(r) \cup ((Registered \ {r}) \X {r})
    BY <1>3, <1>5 DEF Older, Cache!Without
<1>7. QED  BY <1>6 DEF Cache!Touch

\* Removing an entry is dropping its root.
LEMMA RemoveIsDrop ==
    ASSUME TypeOK, NEW r \in Registered, workspaces' = [workspaces EXCEPT ![r] = None],
           served' = served
    PROVE  Cache!Drop(r)
<1>1. Registered' = Registered \ {r}
    BY DEF Registered, TypeOK
<1>2. Older' = Cache!Without(r)
    BY <1>1 DEF Older, Cache!Without
<1>3. QED  BY <1>1, <1>2 DEF Cache!Drop

\* The abstract cache counts its roots as the registry does.
LEMMA SameCardinality == Cache!Cardinality(Registered) = Cardinality(Registered)
BY DEF Cache!Cardinality, Cardinality

\* A step that leaves the table, the history and the root lists alone.
LEMMA KeepIsStutter ==
    ASSUME workspaces' = workspaces, served' = served, known' = known, Dropped' = Dropped
    PROVE  UNCHANGED Cache!vars
BY DEF Registered, Older, Cache!vars

LEMMA CallSimulates ==
    ASSUME IInv, AgeInv, RoomInv, NEW c \in Calls, CallStep(c)
    PROVE  [Cache!Next]_(Cache!vars)
<1> USE OfTheTable DEF TypeOK, Tasks
<1>0. Dropped' = Dropped
  <2>1. todo' = todo /\ pc'[Teardown] = pc[Teardown]
      BY ConstantsAssumption DEF CallStep, Hit, Miss, Evict, Evicted, Started, StartFailed, Finish,
         BeginStart
  <2>2. QED  BY <2>1 DEF Dropped
<1>1. CASE Hit(c)
  <2>1. root[c] \in Registered
      BY <1>1 DEF Hit, Granted, IInv, TypeInv, RootResolved, Registered
  <2>2. root[c] \in Dirs /\ Registered' = Registered \cup {root[c]}
      BY <1>1, <2>1 DEF Hit, Registered
  <2>3. Cache!Touch(root[c])
      BY <1>1, <2>2, ServeIsTouch DEF Hit
  <2>4. Cache!Access(root[c])
      BY <1>0, <1>1, <2>1, <2>3 DEF Cache!Access, Hit
  <2>5. QED  BY <2>2, <2>4 DEF Cache!Next
<1>2. CASE Started(c)
  <2>1. root[c] \in Dirs \ Registered
      BY <1>2 DEF Started
  <2>2. Registered' = Registered \cup {root[c]}
      BY <1>2, <2>1 DEF Started, Registered
  <2>3. Cache!Touch(root[c])
      BY <1>2, <2>1, <2>2, ServeIsTouch DEF Started
  <2>4. Cardinality(Registered) < MaxWorkspaces
      BY <1>2 DEF Started, RoomInv
  <2>5. Cache!Admit(root[c])
      BY <1>0, <1>2, <2>1, <2>3, <2>4, SameCardinality DEF Cache!Admit, Started
  <2>6. QED  BY <2>1, <2>5 DEF Cache!Next
<1>3. CASE Evict(c)
  <2>1. PICK v \in Registered : /\ \A s \in Registered : EvictBefore(v, s)
                                /\ workspaces' = [workspaces EXCEPT ![v] = None]
      BY <1>3 DEF Evict
  <2>2. Cache!Drop(v)
      BY <1>3, <2>1, RemoveIsDrop DEF Evict
  <2>3. Cardinality(Registered) = MaxWorkspaces
      BY <1>3, RegisteredFinite, ConstantsAssumption DEF Evict, AtCapacity, RoomInv, Capacity
  <2>4. v \in Cache!Candidates
      BY <2>1 DEF Cache!Candidates, EvictBefore
  <2>5. ASSUME NEW s \in Cache!Candidates \ {v}  PROVE <<v, s>> \in Older
    <3>1. s \in Registered /\ s # v /\ (v \notin known => s \notin known)
        BY <2>1, <2>5 DEF Cache!Candidates
    <3>2. lastAccessed[workspaces[v]] <= lastAccessed[workspaces[s]]
        BY <2>1, <2>4, <2>5, <3>1 DEF EvictBefore, Cache!Candidates
    <3>3. ~(served[s] < served[v]) /\ served[s] # served[v]
        BY <2>1, <3>1, <3>2 DEF AgeInv, OrderInv
    <3>4. served[v] < served[s]
        BY <2>1, <3>1, <3>3 DEF Registered
    <3>5. QED  BY <2>1, <3>1, <3>4 DEF Older
  <2>6. Cache!EvictOldest(v)
      BY <1>0, <1>3, <2>2, <2>3, <2>4, <2>5, SameCardinality DEF Cache!EvictOldest, Evict
  <2>7. v \in Dirs
      BY <2>1 DEF Registered
  <2>8. QED  BY <2>6, <2>7 DEF Cache!Next
<1>4. CASE Miss(c) \/ Evicted(c) \/ StartFailed(c) \/ Finish(c)
  <2>1. workspaces' = workspaces /\ served' = served /\ known' = known
      BY <1>4 DEF Miss, Evicted, StartFailed, Finish
  <2>2. QED  BY <1>0, <2>1, KeepIsStutter
<1>5. QED  BY <1>1, <1>2, <1>3, <1>4 DEF CallStep

LEMMA InputSimulates ==
    ASSUME IInv, NEW c \in Calls, CallInput(c)
    PROVE  [Cache!Next]_(Cache!vars)
<1> USE OfTheTable DEF TypeOK, Tasks
<1>0. Dropped' = Dropped
  <2>1. todo' = todo /\ pc'[Teardown] = pc[Teardown]
      BY ConstantsAssumption
      DEF CallInput, Arrive, ArrivePathless, ArriveFallback, ArriveWithout,
          ResolveAndAcquire, Unresolved, Request, CancelWaiting, CancelHolding, Crash
  <2>2. QED  BY <2>1 DEF Dropped
<1>1. workspaces' = workspaces /\ served' = served
    BY DEF CallInput, Arrive, ArrivePathless, ArriveFallback, ArriveWithout,
       ResolveAndAcquire, Unresolved, Request, CancelWaiting, CancelHolding, Crash
<1>2. known' = known \/ \E d \in Dirs : known' = known \cup {d}
    BY DEF CallInput, Arrive, ArrivePathless, ArriveFallback, ArriveWithout,
       ResolveAndAcquire, Unresolved, Request, CancelWaiting, CancelHolding, Crash
<1>3. CASE known' = known
    BY <1>0, <1>1, <1>3, KeepIsStutter
<1>4. ASSUME NEW d \in Dirs, known' = known \cup {d}
      PROVE  Cache!Next
  <2>1. Cache!Discover(d)
      BY <1>0, <1>1, <1>4 DEF Cache!Discover, Registered, Older
  <2>2. QED  BY <2>1 DEF Cache!Next
<1>5. QED  BY <1>2, <1>3, <1>4

LEMMA UpdateSimulates ==
    ASSUME IInv, NEW u \in Updates, ArriveUpdate(u) \/ UpdateStep(u)
    PROVE  [Cache!Next]_(Cache!vars)
<1> USE OfTheTable, ConstantsAssumption DEF TypeOK, Tasks
<1>1. served' = served /\ pc'[Teardown] = pc[Teardown]
    BY DEF ArriveUpdate, UpdateStep, InstallRoots, RemoveRoot, RootsDone, Stopped
<1>2. ASSUME pc[u] # "idle", pc[u] # "done"
      PROVE  Dropped = todo /\ Dropped' = todo'
  <2>1. pc[Teardown] = "idle"
      BY <1>2 DEF IInv, QuietInv
  <2>2. QED  BY <1>1, <2>1 DEF Dropped
<1>3. CASE ArriveUpdate(u) \/ Stopped(u)
  <2>1. workspaces' = workspaces /\ known' = known /\ todo' = todo
      BY <1>3 DEF ArriveUpdate, Stopped
  <2>2. Dropped' = Dropped
      BY <1>1, <2>1 DEF Dropped
  <2>3. QED  BY <1>1, <2>1, <2>2, KeepIsStutter
<1>4. CASE InstallRoots(u)
  <2>1. Dropped' = known \ NewRoots[u]
      BY <1>2, <1>4 DEF InstallRoots, Granted
  <2>2. NewRoots[u] \in SUBSET Dirs /\ known' = NewRoots[u]
      BY <1>4 DEF InstallRoots
  <2>3. workspaces' = workspaces
      BY <1>4 DEF InstallRoots
  <2>4. Cache!Redeclare(NewRoots[u])
      BY <1>1, <2>1, <2>2, <2>3 DEF Cache!Redeclare, Registered, Older
  <2>5. QED  BY <2>2, <2>4 DEF Cache!Next
<1>5. ASSUME NEW r \in Dirs, RemoveRoot(u, r)
      PROVE  Cache!Next
  <2>1. r \in Dropped \cap Registered /\ Dropped' = Dropped \ {r} /\ known' = known
      BY <1>2, <1>5 DEF RemoveRoot
  <2>2. Cache!Drop(r)
      BY <1>1, <1>5, <2>1, RemoveIsDrop DEF RemoveRoot
  <2>3. Cache!Forget(r)
      BY <2>1, <2>2 DEF Cache!Forget
  <2>4. QED  BY <2>3 DEF Cache!Next
<1>6. CASE RootsDone(u)
  <2>1. Dropped \cap Registered = {} /\ Dropped' = {}
      BY <1>2, <1>6 DEF RootsDone
  <2>2. workspaces' = workspaces /\ known' = known
      BY <1>6 DEF RootsDone
  <2>3. Cache!Settle
      BY <1>1, <2>1, <2>2 DEF Cache!Settle, Registered, Older
  <2>4. QED  BY <2>3 DEF Cache!Next
<1>7. QED  BY <1>3, <1>4, <1>5, <1>6 DEF UpdateStep

LEMMA TeardownSimulates ==
    ASSUME IInv, AgeInv, ArriveTeardown \/ TeardownStep
    PROVE  [Cache!Next]_(Cache!vars)
<1> USE OfTheTable DEF TypeOK, Tasks
<1>1. Dropped = {} /\ Dropped' = {} /\ served' = served
  <2>1. CASE ArriveTeardown
    <3>1. todo = {} /\ pc'[Teardown] # "idle"
        BY <2>1 DEF ArriveTeardown, AgeInv, TodoInv
    <3>2. QED  BY <2>1, <3>1 DEF Dropped, ArriveTeardown
  <2>2. CASE TeardownStep
    <3>1. pc[Teardown] # "idle" /\ pc'[Teardown] # "idle" /\ served' = served
        BY <2>2 DEF TeardownStep, CloseAll, CloseOne, AllClosed, Stopped, Granted
    <3>2. QED  BY <3>1 DEF Dropped
  <2>3. QED  BY <2>1, <2>2
<1>2. CASE AllClosed
  <2>1. Registered' = {} /\ Older' = {} /\ known' = {}
      BY <1>2 DEF AllClosed, Registered, Older
  <2>2. Cache!Close
      BY <1>1, <2>1 DEF Cache!Close
  <2>3. QED  BY <2>2 DEF Cache!Next
<1>3. CASE ~AllClosed
  <2>1. workspaces' = workspaces /\ known' = known
      BY <1>3 DEF ArriveTeardown, TeardownStep, CloseAll, CloseOne, Stopped
  <2>2. QED  BY <1>1, <2>1, KeepIsStutter
<1>4. QED  BY <1>2, <1>3

\* The registry implements the LRU cache of WorkspaceCache: whatever the calls,
\* updates, failures and cancellations, a workspace leaves the table only as the
\* least recently used one of a full table, because its root was dropped, or at
\* shutdown.
THEOREM ImplementsLruCache == Spec => LruCache
<1>1. Init => Cache!Init
    BY DEF Init, Cache!Init, Registered, Older, Dropped
<1>2. IInv /\ AgeInv /\ RoomInv /\ [Next]_vars => [Cache!Next]_(Cache!vars)
  <2> SUFFICES ASSUME IInv, AgeInv, RoomInv, [Next]_vars  PROVE [Cache!Next]_(Cache!vars)
      OBVIOUS
  <2>1. CASE Next
      BY <2>1, CallSimulates, InputSimulates, UpdateSimulates, TeardownSimulates DEF Next
  <2>2. CASE UNCHANGED vars
    <3>1. Dropped' = Dropped /\ workspaces' = workspaces /\ served' = served /\ known' = known
        BY <2>2 DEF vars, Dropped
    <3>2. QED  BY <3>1, KeepIsStutter
  <2>3. QED  BY <2>1, <2>2
<1>3. QED
    BY <1>1, <1>2, AgeInit, AgeStep, Invariance, RoomInvariance, PTL
    DEF Spec, LruCache, Cache!Spec
=============================================================================
