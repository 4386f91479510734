--------------------------- MODULE WorkspaceCache ---------------------------
(***************************************************************************)
(* What the workspace registry promises: a cache of at most MaxWorkspaces  *)
(* workspaces in order of last access.  A workspace enters it as the most  *)
(* recent one and becomes that again with every access.  It leaves it as   *)
(* the least recent one of a full cache (one whose root is no longer known *)
(* goes first), because a new root list dropped its root, or when the      *)
(* cache is closed.  No locks, tasks, processes, clocks or start-ups.      *)
(***************************************************************************)
EXTENDS Naturals, FiniteSets

CONSTANTS
    Dirs,           \* directories that can be workspace roots
    MaxWorkspaces   \* capacity of the cache

VARIABLES
    cached,   \* the cached roots
    older,    \* the pairs of cached roots, the less recently used one first
    roots,    \* the known roots
    dropped   \* roots the last root list dropped, still to be visited

vars == <<cached, older, roots, dropped>>

Init == cached = {} /\ older = {} /\ roots = {} /\ dropped = {}

\* The order of the other cached roots.
Without(r) == {p \in older : p[1] # r /\ p[2] # r}

\* r is the most recent root from now on, or is no longer cached.
Touch(r) ==
    /\ cached' = cached \cup {r}
    /\ older' = Without(r) \cup ((cached \ {r}) \X {r})

Drop(r) ==
    /\ cached' = cached \ {r}
    /\ older' = Without(r)

\* A call finds its workspace.
Access(r) ==
    /\ r \in cached
    /\ Touch(r)
    /\ UNCHANGED <<roots, dropped>>

\* A workspace is started and takes a free place.
Admit(r) ==
    /\ r \notin cached
    /\ Cardinality(cached) < MaxWorkspaces
    /\ Touch(r)
    /\ UNCHANGED <<roots, dropped>>

\* A full cache makes room.
Candidates == IF cached \subseteq roots THEN cached ELSE cached \ roots

EvictOldest(r) ==
    /\ Cardinality(cached) = MaxWorkspaces
    /\ r \in Candidates
    /\ \A s \in Candidates \ {r} : <<r, s>> \in older
    /\ Drop(r)
    /\ UNCHANGED <<roots, dropped>>

Discover(r) == roots' = roots \cup {r} /\ UNCHANGED <<cached, older, dropped>>

\* A new root list; the workspaces of the roots it drops go one by one.
Redeclare(R) ==
    /\ roots' = R
    /\ dropped' = roots \ R
    /\ UNCHANGED <<cached, older>>

Forget(r) ==
    /\ r \in dropped \cap cached
    /\ Drop(r)
    /\ dropped' = dropped \ {r}
    /\ UNCHANGED roots

Settle ==
    /\ dropped \cap cached = {}
    /\ dropped' = {}
    /\ UNCHANGED <<cached, older, roots>>

Close ==
    /\ cached' = {} /\ older' = {} /\ roots' = {}
    /\ UNCHANGED dropped

Next ==
    \/ \E r \in Dirs : Access(r) \/ Admit(r) \/ EvictOldest(r) \/ Forget(r) \/ Discover(r)
    \/ \E R \in SUBSET Dirs : Redeclare(R)
    \/ Settle
    \/ Close

Spec == Init /\ [][Next]_vars
=============================================================================
