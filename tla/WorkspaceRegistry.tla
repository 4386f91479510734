------------------------- MODULE WorkspaceRegistry -------------------------
(***************************************************************************)
(* The multi-workspace backend registry (workspace_registry.py) and the    *)
(* part of the tool boundary that resolves a call's backends through it    *)
(* (tool_runtime._resolve_backends), with the server's lifespan around it. *)
(*                                                                         *)
(* Every coroutine that takes the registry's asyncio.Lock is a task:       *)
(*   - Calls: tool calls (and the prewarm), each one get_backends;         *)
(*   - Updates: invocations of set_roots;                                  *)
(*   - Teardown: the shutdown_all of the lifespan's finally block.         *)
(* An action is what a task does between two awaits.  Tasks are one-shot,  *)
(* so a WorkspaceBackends object is named by the call that constructed it. *)
(*                                                                         *)
(* asyncio.Lock is FIFO and a fast-path acquire cannot overtake a waiter,  *)
(* so a release hands the lock to the first waiter at once.  A task that   *)
(* finds the lock free takes it in Arrive and looks its root up in a step  *)
(* of its own, where the code does both without yielding: the model only   *)
(* adds interleavings with tasks that do not hold the lock.                *)
(***************************************************************************)
EXTENDS Naturals, Sequences, FiniteSets

CONSTANTS
    Calls,          \* tool calls that ask for backends
    Updates,        \* invocations of set_roots
    Teardown,       \* the task that runs shutdown_all
    Dirs,           \* directories that can be workspace roots
    Files,          \* paths a call can name
    Above,          \* Above[f]: the directories above file f
    Depth,          \* Depth[d]: number of path components of d
    Marked,         \* directories that hold a project marker
    NewRoots,       \* NewRoots[u]: the root list update u installs
    CliFile,        \* the fallback path of a path-less call, or None
    MaxWorkspaces,  \* MAX_WORKSPACES
    None            \* absence of a task, triad, root or path

Tasks == Calls \cup Updates \cup {Teardown}

ASSUME ConstantsAssumption ==
    /\ MaxWorkspaces \in Nat \ {0}
    /\ IsFiniteSet(Dirs) /\ IsFiniteSet(Calls)
    /\ Above \in [Files -> SUBSET Dirs]
    /\ Depth \in [Dirs -> Nat]
    /\ Marked \subseteq Dirs
    /\ NewRoots \in [Updates -> SUBSET Dirs]
    /\ CliFile \in Files \cup {None}
    /\ None \notin Tasks \cup Dirs \cup Files
    /\ Teardown \notin Calls \cup Updates
    /\ Calls \cap Updates = {}

\* Two ancestors of one file are never equally deep.
ASSUME DepthAssumption ==
    \A f \in Files : \A d, e \in Above[f] : Depth[d] = Depth[e] => d = e

VARIABLES
    known,         \* _known_roots: explicit and auto-discovered roots
    declared,      \* history: the roots the last set_roots named
    workspaces,    \* _workspaces: root -> triad, None where there is no entry
    initialized,   \* WorkspaceBackends._initialized of each triad
    pyright,       \* triads whose Pyright subprocess is alive
    lastAccessed,  \* WorkspaceBackends.last_accessed of each triad
    clock,         \* time.monotonic(), advanced at every access
    holder,        \* the task that holds _lock
    waiters,       \* the tasks queued on _lock
    pc,            \* where each task is
    root,          \* the root each call resolved to
    got,           \* the triad each call was handed
    served,        \* history: when get_backends last served each root
    victim,        \* the triad the lock's holder is shutting down
    todo           \* the roots a set_roots or shutdown_all still has to visit

lockVars == <<holder, waiters>>
triadVars == <<initialized, pyright, lastAccessed, clock>>
vars == <<known, declared, workspaces, triadVars, lockVars, pc, root, got,
          served, victim, todo>>

-----------------------------------------------------------------------------
(* Helper state formulae *)

Registered == {r \in Dirs : workspaces[r] # None}

\* How many calls were handed backends: the time of the history variable.
HandOuts == Cardinality({c \in Calls : got[c] # None})

\* Mutant: the limit off by one.
AtCapacityOffByOne == Cardinality(Registered) > MaxWorkspaces

AtCapacity == Cardinality(Registered) >= MaxWorkspaces

\* A call is over once it returned to its client or raised.
Over == {"done", "failed"}

\* The longest of a set of roots above one file.
Deepest(d, S) == d \in S /\ \A e \in S : Depth[e] <= Depth[d]

\* resolve_workspace_root: the longest known root above the file, otherwise
\* the nearest directory with a project marker; it raises if there is neither.
ResolvesTo(f, d) ==
    \/ Deepest(d, known \cap Above[f])
    \/ known \cap Above[f] = {} /\ Deepest(d, Marked \cap Above[f])

Unresolvable(f) == (known \cup Marked) \cap Above[f] = {}

\* active_backends()[0] / get_most_recent.
MostRecent(t) ==
    \E r \in Registered :
        /\ workspaces[r] = t
        /\ \A s \in Registered :
              lastAccessed[workspaces[s]] <= lastAccessed[t]

\* The sort key of _evict_lru: known roots last, then by last access.
EvictBefore(r, s) ==
    \/ r \notin known /\ s \in known
    \/ /\ r \in known <=> s \in known
       /\ lastAccessed[workspaces[r]] <= lastAccessed[workspaces[s]]

-----------------------------------------------------------------------------
(* The lock *)

Acquire(t) ==
    IF holder = None
    THEN holder' = t /\ UNCHANGED waiters
    ELSE waiters' = Append(waiters, t) /\ UNCHANGED holder

Release ==
    IF waiters = <<>>
    THEN holder' = None /\ UNCHANGED waiters
    ELSE holder' = Head(waiters) /\ waiters' = Tail(waiters)

\* The task that was granted the lock runs its critical section.
Granted(t) == holder = t /\ pc[t] = "waiting"

-----------------------------------------------------------------------------
(* Backends *)

Touch(t) ==
    /\ clock' = clock + 1
    /\ lastAccessed' = [lastAccessed EXCEPT ![t] = clock + 1]

\* WorkspaceBackends(...) and the spawn of its Pyright: last_accessed is the
\* time of construction, before the start-up is awaited.
BeginStart(c) ==
    /\ Touch(c)
    /\ pyright' = [pyright EXCEPT ![c] = TRUE]
    /\ pc' = [pc EXCEPT ![c] = "starting"]

\* Mutant: the flag is not reset.
BeginShutdownKeepsFlag(t) ==
    /\ victim' = IF initialized[t] THEN t ELSE None
    /\ UNCHANGED initialized

\* WorkspaceBackends.shutdown up to its first await: the flag falls at once,
\* and a triad that is not initialized is left alone.
BeginShutdown(t) ==
    /\ victim' = IF initialized[t] THEN t ELSE None
    /\ initialized' = [initialized EXCEPT ![t] = FALSE]

-----------------------------------------------------------------------------
(* Tool calls *)

\* Mutant: a path without a root is not rejected.
ResolveUnchecked(c, f) ==
    /\ \E d \in Dirs \cup {None} :
          /\ ResolvesTo(f, d) \/ (Unresolvable(f) /\ d = None)
          /\ root' = [root EXCEPT ![c] = d]
          /\ known' = known \cup {d}
    /\ pc' = [pc EXCEPT ![c] = "waiting"]
    /\ Acquire(c)
    /\ UNCHANGED <<declared, workspaces, triadVars, got, served, victim, todo>>

\* resolve_workspace_root runs before the lock is requested, and registers a
\* root it discovers.
ResolveAndAcquire(c, f) ==
    /\ \E d \in Dirs :
          /\ ResolvesTo(f, d)
          /\ root' = [root EXCEPT ![c] = d]
          /\ known' = known \cup {d}
    /\ pc' = [pc EXCEPT ![c] = "waiting"]
    /\ Acquire(c)
    /\ UNCHANGED <<declared, workspaces, triadVars, got, served, victim, todo>>

Unresolved(c, f) ==
    /\ Unresolvable(f)
    /\ pc' = [pc EXCEPT ![c] = "failed"]
    /\ UNCHANGED <<known, declared, workspaces, triadVars, lockVars, root, got,
                   served, victim, todo>>

Arrivable(c) == pc[c] = "idle" /\ pc[Teardown] = "idle"

\* A call that names a file.
Arrive(c, f) ==
    /\ Arrivable(c)
    /\ ResolveAndAcquire(c, f) \/ Unresolved(c, f)

\* A call without a path uses the most recent workspace, without the lock and
\* without touching it.
ArrivePathless(c, t) ==
    /\ Arrivable(c)
    /\ MostRecent(t)
    /\ got' = [got EXCEPT ![c] = t]
    /\ pc' = [pc EXCEPT ![c] = "using"]
    /\ UNCHANGED <<known, declared, workspaces, triadVars, lockVars, root,
                   served, victim, todo>>

\* With no workspace active it falls back on the CLI workspace, or runs
\* without backends.
ArriveFallback(c) ==
    /\ Arrivable(c)
    /\ Registered = {}
    /\ CliFile # None
    /\ ResolveAndAcquire(c, CliFile) \/ Unresolved(c, CliFile)

ArriveWithout(c) ==
    /\ Arrivable(c)
    /\ Registered = {}
    /\ CliFile = None
    /\ pc' = [pc EXCEPT ![c] = "done"]
    /\ UNCHANGED <<known, declared, workspaces, triadVars, lockVars, root,
                   got, served, victim, todo>>

\* Mutant: a hit does not touch the triad.
HitWithoutTouch(c) ==
    /\ Granted(c)
    /\ workspaces[root[c]] # None
    /\ got' = [got EXCEPT ![c] = workspaces[root[c]]]
    /\ served' = [served EXCEPT ![root[c]] = HandOuts + 1]
    /\ pc' = [pc EXCEPT ![c] = "using"]
    /\ Release
    /\ UNCHANGED <<known, declared, workspaces, triadVars, root, victim, todo>>

\* The root already has a triad.
Hit(c) ==
    /\ Granted(c)
    /\ workspaces[root[c]] # None
    /\ Touch(workspaces[root[c]])
    /\ got' = [got EXCEPT ![c] = workspaces[root[c]]]
    /\ served' = [served EXCEPT ![root[c]] = HandOuts + 1]
    /\ pc' = [pc EXCEPT ![c] = "using"]
    /\ Release
    /\ UNCHANGED <<known, declared, workspaces, initialized, pyright, root,
                   victim, todo>>

\* Mutant: the table is not looked at again under the lock.
MissWithoutRecheck(c) ==
    /\ Granted(c)
    /\ ~AtCapacity
    /\ BeginStart(c)
    /\ UNCHANGED <<known, declared, workspaces, initialized, lockVars, root,
                   got, served, victim, todo>>

\* A cold root, with room for it.
Miss(c) ==
    /\ Granted(c)
    /\ workspaces[root[c]] = None
    /\ ~AtCapacity
    /\ BeginStart(c)
    /\ UNCHANGED <<known, declared, workspaces, initialized, lockVars, root,
                   got, served, victim, todo>>

\* Mutant: the evicted entry stays in the table.
EvictKeepsEntry(c) ==
    /\ Granted(c)
    /\ workspaces[root[c]] = None
    /\ AtCapacity
    /\ \E v \in Registered :
          /\ \A s \in Registered : EvictBefore(v, s)
          /\ BeginShutdown(workspaces[v])
    /\ pc' = [pc EXCEPT ![c] = "stopping"]
    /\ UNCHANGED <<known, declared, workspaces, pyright, lastAccessed, clock,
                   lockVars, root, got, served, todo>>

\* A cold root at capacity: _evict_lru removes the entry, then awaits the
\* shutdown of its triad.
Evict(c) ==
    /\ Granted(c)
    /\ workspaces[root[c]] = None
    /\ AtCapacity
    /\ \E v \in Registered :
          /\ \A s \in Registered : EvictBefore(v, s)
          /\ workspaces' = [workspaces EXCEPT ![v] = None]
          /\ BeginShutdown(workspaces[v])
    /\ pc' = [pc EXCEPT ![c] = "stopping"]
    /\ UNCHANGED <<known, declared, pyright, lastAccessed, clock, lockVars,
                   root, got, served, todo>>

\* The shutdown of the evicted triad ends, and the new one is started.
Evicted(c) ==
    /\ holder = c
    /\ pc[c] = "stopping"
    /\ Touch(c)
    /\ pyright' = [t \in Calls |-> (pyright[t] /\ t # victim) \/ t = c]
    /\ victim' = None
    /\ pc' = [pc EXCEPT ![c] = "starting"]
    /\ UNCHANGED <<known, declared, workspaces, initialized, lockVars, root,
                   got, served, todo>>

\* All three backends started: only now is the triad registered.
Started(c) ==
    /\ holder = c
    /\ pc[c] = "starting"
    /\ initialized' = [initialized EXCEPT ![c] = TRUE]
    /\ workspaces' = [workspaces EXCEPT ![root[c]] = c]
    /\ got' = [got EXCEPT ![c] = c]
    /\ served' = [served EXCEPT ![root[c]] = HandOuts + 1]
    /\ pc' = [pc EXCEPT ![c] = "using"]
    /\ Release
    /\ UNCHANGED <<known, declared, pyright, lastAccessed, clock, root, victim,
                   todo>>

\* Mutant: the lock is not released when the start-up raises.
StartFailedKeepsLock(c) ==
    /\ holder = c
    /\ pc[c] = "starting"
    /\ \E alive \in BOOLEAN : pyright' = [pyright EXCEPT ![c] = alive]
    /\ pc' = [pc EXCEPT ![c] = "failed"]
    /\ UNCHANGED <<known, declared, workspaces, initialized, lastAccessed,
                   clock, lockVars, root, got, served, victim, todo>>

\* The start-up raises.  Pyright's own start stops every process it spawned;
\* a failure of Jedi or Rope comes after it, and nothing stops Pyright.
StartFailed(c) ==
    /\ holder = c
    /\ pc[c] = "starting"
    /\ \E alive \in BOOLEAN : pyright' = [pyright EXCEPT ![c] = alive]
    /\ pc' = [pc EXCEPT ![c] = "failed"]
    /\ Release
    /\ UNCHANGED <<known, declared, workspaces, initialized, lastAccessed,
                   clock, root, got, served, victim, todo>>

\* PyrightLSPClient._request -> _ensure_healthy: a tool that finds the Pyright
\* of its triad dead restarts it, whether or not the triad is still registered.
Request(c) ==
    /\ pc[c] = "using"
    /\ ~pyright[got[c]]
    /\ pyright' = [pyright EXCEPT ![got[c]] = TRUE]
    /\ UNCHANGED <<known, declared, workspaces, initialized, lastAccessed,
                   clock, lockVars, pc, root, got, served, victim, todo>>

\* The tool returns or raises.
Finish(c) ==
    /\ pc[c] = "using"
    /\ pc' = [pc EXCEPT ![c] = "done"]
    /\ UNCHANGED <<known, declared, workspaces, triadVars, lockVars, root,
                   got, served, victim, todo>>

\* The client cancels a call that waits for the lock, or in the middle of the
\* shutdown or the start-up it awaits; CancelledError passes every
\* `except Exception`, so the process in question is left as it is.
CancelWaiting(c) ==
    /\ pc[c] = "waiting"
    /\ holder # c
    /\ \E i \in 1..Len(waiters) :
          /\ waiters[i] = c
          /\ waiters' = SubSeq(waiters, 1, i - 1)
                        \o SubSeq(waiters, i + 1, Len(waiters))
    /\ pc' = [pc EXCEPT ![c] = "failed"]
    /\ UNCHANGED <<known, declared, workspaces, triadVars, holder, root, got,
                   served, victim, todo>>

CancelHolding(c) ==
    /\ holder = c
    /\ pc[c] \in {"waiting", "stopping", "starting"}
    /\ victim' = None
    /\ pc' = [pc EXCEPT ![c] = "failed"]
    /\ Release
    /\ UNCHANGED <<known, declared, workspaces, triadVars, root, got, served,
                   todo>>

-----------------------------------------------------------------------------
(* set_roots *)

ArriveUpdate(u) ==
    /\ pc[u] = "idle"
    /\ pc[Teardown] = "idle"
    /\ pc' = [pc EXCEPT ![u] = "waiting"]
    /\ Acquire(u)
    /\ UNCHANGED <<known, declared, workspaces, triadVars, root, got, served,
                   victim, todo>>

\* The new list replaces the old one before the removed roots are visited (up
\* to the first shutdown in the same step, so that only a second removal can
\* meet a root some call has discovered again).
InstallRoots(u) ==
    /\ Granted(u)
    /\ known' = NewRoots[u]
    /\ declared' = NewRoots[u]
    /\ todo' = known \ NewRoots[u]
    /\ pc' = [pc EXCEPT ![u] = "working"]
    /\ UNCHANGED <<workspaces, triadVars, lockVars, root, got, served,
                   victim>>

RemoveRoot(u, r) ==
    /\ holder = u
    /\ pc[u] = "working"
    /\ r \in todo \cap Registered
    /\ todo' = todo \ {r}
    /\ workspaces' = [workspaces EXCEPT ![r] = None]
    /\ BeginShutdown(workspaces[r])
    /\ pc' = [pc EXCEPT ![u] = "stopping"]
    /\ UNCHANGED <<known, declared, pyright, lastAccessed, clock, lockVars,
                   root, got, served>>

RootsDone(u) ==
    /\ holder = u
    /\ pc[u] = "working"
    /\ todo \cap Registered = {}
    /\ todo' = {}
    /\ pc' = [pc EXCEPT ![u] = "done"]
    /\ Release
    /\ UNCHANGED <<known, declared, workspaces, triadVars, root, got, served,
                   victim>>

-----------------------------------------------------------------------------
(* shutdown_all.  The lifespan ends when the transport is gone and every    *)
(* request handler has returned or been cancelled; no new call follows.     *)

ArriveTeardown ==
    /\ pc[Teardown] = "idle"
    /\ \A c \in Calls : pc[c] \in Over \cup {"idle"}
    /\ \A u \in Updates : pc[u] \in {"idle", "done"}
    /\ pc' = [pc EXCEPT ![Teardown] = "waiting"]
    /\ Acquire(Teardown)
    /\ UNCHANGED <<known, declared, workspaces, triadVars, root, got, served,
                   victim, todo>>

\* Mutant: only the explicit roots are shut down.
CloseDeclared ==
    /\ Granted(Teardown)
    /\ todo' = Registered \cap declared
    /\ pc' = [pc EXCEPT ![Teardown] = "working"]
    /\ UNCHANGED <<known, declared, workspaces, triadVars, lockVars, root,
                   got, served, victim>>

CloseAll ==
    /\ Granted(Teardown)
    /\ todo' = Registered
    /\ pc' = [pc EXCEPT ![Teardown] = "working"]
    /\ UNCHANGED <<known, declared, workspaces, triadVars, lockVars, root,
                   got, served, victim>>

\* The entries stay in the table while their triads are shut down.
CloseOne(r) ==
    /\ pc[Teardown] = "working"
    /\ r \in todo
    /\ todo' = todo \ {r}
    /\ BeginShutdown(workspaces[r])
    /\ pc' = [pc EXCEPT ![Teardown] = "stopping"]
    /\ UNCHANGED <<known, declared, workspaces, pyright, lastAccessed, clock,
                   lockVars, root, got, served>>

AllClosed ==
    /\ pc[Teardown] = "working"
    /\ todo = {}
    /\ workspaces' = [r \in Dirs |-> None]
    /\ known' = {}
    /\ declared' = {}
    /\ pc' = [pc EXCEPT ![Teardown] = "done"]
    /\ Release
    /\ UNCHANGED <<triadVars, root, got, served, victim, todo>>

\* The shutdown a set_roots or a shutdown_all awaits ends.
Stopped(t) ==
    /\ holder = t
    /\ pc[t] = "stopping"
    /\ pyright' = [o \in Calls |-> pyright[o] /\ o # victim]
    /\ victim' = None
    /\ pc' = [pc EXCEPT ![t] = "working"]
    /\ UNCHANGED <<known, declared, workspaces, initialized, lastAccessed,
                   clock, lockVars, root, got, served, todo>>

-----------------------------------------------------------------------------
(* The environment: a Pyright subprocess dies. *)

Crash(t) ==
    /\ pyright[t]
    /\ pyright' = [pyright EXCEPT ![t] = FALSE]
    /\ UNCHANGED <<known, declared, workspaces, initialized, lastAccessed,
                   clock, lockVars, pc, root, got, served, victim, todo>>

-----------------------------------------------------------------------------
Init ==
    /\ known = {}
    /\ declared = {}
    /\ workspaces = [r \in Dirs |-> None]
    /\ initialized = [t \in Calls |-> FALSE]
    /\ pyright = [t \in Calls |-> FALSE]
    /\ lastAccessed = [t \in Calls |-> 0]
    /\ clock = 0
    /\ holder = None
    /\ waiters = <<>>
    /\ pc = [t \in Tasks |-> "idle"]
    /\ root = [c \in Calls |-> None]
    /\ got = [c \in Calls |-> None]
    /\ served = [r \in Dirs |-> 0]
    /\ victim = None
    /\ todo = {}

\* The steps the event loop runs by itself once a task has begun.
CallStep(c) ==
    \/ Hit(c)
    \/ Miss(c)
    \/ Evict(c)
    \/ Evicted(c)
    \/ Started(c)
    \/ StartFailed(c)
    \/ Finish(c)

UpdateStep(u) ==
    \/ InstallRoots(u)
    \/ \E r \in Dirs : RemoveRoot(u, r)
    \/ Stopped(u)
    \/ RootsDone(u)

TeardownStep ==
    \/ CloseAll
    \/ \E r \in Dirs : CloseOne(r)
    \/ Stopped(Teardown)
    \/ AllClosed

\* What clients, the operating system and the lifespan do, when they like.
CallInput(c) ==
    \/ \E f \in Files : Arrive(c, f)
    \/ \E t \in Calls : ArrivePathless(c, t)
    \/ ArriveFallback(c)
    \/ ArriveWithout(c)
    \/ Request(c)
    \/ CancelWaiting(c)
    \/ CancelHolding(c)
    \/ Crash(c)

Next ==
    \/ \E c \in Calls : CallStep(c) \/ CallInput(c)
    \/ \E u \in Updates : ArriveUpdate(u) \/ UpdateStep(u)
    \/ ArriveTeardown
    \/ TeardownStep

Spec == Init /\ [][Next]_vars

\* The event loop never starves a task, and every await in the registry is
\* bounded: start-up by its time-outs, shutdown by kill, a tool by its own.
FairSpec ==
    /\ Spec
    /\ \A c \in Calls : WF_vars(CallStep(c))
    /\ \A u \in Updates : WF_vars(UpdateStep(u))
    /\ WF_vars(TeardownStep)

-----------------------------------------------------------------------------
(* Properties *)

\* Every variable holds a value of its type.
TypeOK ==
    /\ known \subseteq Dirs
    /\ declared \subseteq Dirs
    /\ workspaces \in [Dirs -> Calls \cup {None}]
    /\ initialized \in [Calls -> BOOLEAN]
    /\ pyright \in [Calls -> BOOLEAN]
    /\ lastAccessed \in [Calls -> Nat]
    /\ clock \in Nat
    /\ holder \in Tasks \cup {None}
    /\ waiters \in Seq(Tasks)
    /\ pc \in [Tasks -> {"idle", "waiting", "stopping", "starting", "using",
                         "working"} \cup Over]
    /\ root \in [Calls -> Dirs \cup {None}]
    /\ got \in [Calls -> Calls \cup {None}]
    /\ served \in [Dirs -> Nat]
    /\ victim \in Calls \cup {None}
    /\ todo \subseteq Dirs

\* The table never holds more than MAX_WORKSPACES entries, although a cold
\* call checks the limit, evicts and registers on three sides of two awaits.
Capacity == Cardinality(Registered) <= MaxWorkspaces

\* A root is served by one triad at a time: concurrent calls to a cold root
\* share one start-up, and a triad is not started beside a live one.
Active(t) == initialized[t] \/ pc[t] = "starting"

OneTriadPerRoot ==
    \A t, u \in Calls : Active(t) /\ Active(u) /\ root[t] = root[u] => t = u

\* The table and the triads' flags agree: a triad that counts as started is
\* the registered one of its root (so shutdown_all will reach it), and outside
\* the teardown a registered triad is started (so that a call without a path,
\* which reads the table without the lock, is not handed a closed one).
Closing == pc[Teardown] \in {"working", "stopping"}

TableMatchesFlags ==
    /\ \A t \in Calls : initialized[t] => /\ root[t] # None
                                          /\ workspaces[root[t]] = t
    /\ \A r \in Registered : initialized[workspaces[r]] \/ Closing

\* A call is handed a started triad, the one of the root its file resolved to.
HandsOutReady ==
    [][\A c \in Calls : got'[c] # got[c] =>
          /\ initialized'[got'[c]]
          /\ root[c] \in {None, root[got'[c]]}]_vars

\* shutdown_all leaves no workspace behind: the table is empty, every triad
\* was shut down and the lock is free.
TeardownEmpties ==
    pc[Teardown] = "done" =>
        /\ Registered = {}
        /\ \A t \in Calls : ~initialized[t]
        /\ holder = None /\ waiters = <<>>

\* The table implements an LRU cache: every get_backends makes its workspace
\* the most recent, and a workspace leaves the table only as the least recently
\* used of a full one, because a new root list dropped its root, or at shutdown.
Older == {p \in Registered \X Registered : served[p[1]] < served[p[2]]}

\* The roots the set_roots that holds the lock still has to drop.
Dropped == IF pc[Teardown] = "idle" THEN todo ELSE {}

Cache == INSTANCE WorkspaceCache
             WITH cached <- Registered, older <- Older, roots <- known, dropped <- Dropped

LruCache == Cache!Spec

\* Every task that began ends: whoever raises, is cancelled or finds the cache
\* full releases the lock to the next one.
TasksFinish == \A t \in Tasks : pc[t] # "idle" ~> pc[t] \in Over
=============================================================================
