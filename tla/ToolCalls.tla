----------------------------- MODULE ToolCalls -----------------------------
(***************************************************************************)
(* Calls of the advertised tools through tool_error_boundary               *)
(* (tool_runtime.py): arguments are rejected, a workspace is resolved,     *)
(* arguments are validated against it, the delegate does its effect, and   *)
(* errors are translated.  Calls run concurrently; an action is what one   *)
(* does between two awaits.  Resolving a workspace is one action here      *)
(* (WorkspaceRegistry has its parts).                                      *)
(*                                                                         *)
(* A triad is the number of a workspace's three backends; numbers are used *)
(* again when no call and no entry of the registry holds the triad.        *)
(***************************************************************************)
EXTENDS ToolCatalogue, SequencesExt

CONSTANTS
    Calls,
    Roots,
    None,            \* absence of a root, a triad or a write
    Asked,           \* the tools that are called
    MaxWorkspaces

ASSUME CallsAssumption ==
    /\ MaxWorkspaces \in Nat \ {0}
    /\ IsFiniteSet(Calls) /\ IsFiniteSet(Roots)
    /\ None \notin Roots /\ None \notin Nat
    /\ Asked \subseteq ToolNames

VARIABLES
    profile,  \* _ACTIVE_TOOL_PROFILE
    cli,      \* cli_workspace_root, or None
    home,     \* the root of each triad
    cached,   \* the registered triads, most recently used last
    open,     \* the triads with an active change stack
    call,     \* the calls: where they are, what with, and their backends
    wrote     \* history: the write of the last step, or None

vars == <<profile, cli, home, cached, open, call, wrote>>

Triads == 1..(MaxWorkspaces + Cardinality(Calls))

\* A path under a root or, with root None, under no workspace.
Paths == [root : Roots \cup {None}, absolute : {TRUE}]
         \cup [root : {None}, absolute : {FALSE}]

Idle == [pc |-> "idle", tool |-> None, paths |-> <<>>, valid |-> TRUE,
         apply |-> FALSE, triad |-> None]

EffectOf(c) == Catalogue[call[c].tool].effect
Spreads(t) == Catalogue[t].effect = "spreads"
PathsOf(c) == ToSet(call[c].paths)
Absolute(c) == \A p \in PathsOf(c) : p.absolute
HomeOf(c) == home[call[c].triad]

\* An evicted triad's backends are closed; the calls that hold it go on.
Closed(c) == call[c].triad \notin ToSet(cached)

Goes(c, pc) == call' = [call EXCEPT ![c].pc = pc]
Ends(c, outcome) == call' = [call EXCEPT ![c] = [Idle EXCEPT !.pc = outcome]]

Over == {"done", "failed", "invalid", "error"}

-----------------------------------------------------------------------------
(* Before the delegate *)

Begin(c, t) ==
    /\ call[c].pc = "idle"
    /\ t \in Advertised[profile]
    /\ \E n \in Catalogue[t].paths, valid \in BOOLEAN, apply \in BOOLEAN :
       \E paths \in [1..n -> Paths] :
          /\ valid \/ t \in Named
          /\ apply => Catalogue[t].effect \in {"edits", "pushes", "spreads"}
          /\ call' = [call EXCEPT ![c] =
                 [Idle EXCEPT !.pc = "asked", !.tool = t, !.paths = paths,
                              !.valid = valid, !.apply = apply]]
    /\ wrote' = None
    /\ UNCHANGED <<profile, cli, home, cached, open>>

RejectRelative(c) ==
    /\ call[c].pc = "asked"
    /\ ~Absolute(c)
    /\ Ends(c, "invalid")
    /\ wrote' = None
    /\ UNCHANGED <<profile, cli, home, cached, open>>

\* Mutant: relative paths are rejected with the others, after the resolution.
AcceptedLater(c) == call[c].pc = "asked"

Accepted(c) == call[c].pc = "asked" /\ Absolute(c)

TriadOf(r) == SelectInSeq(cached, LAMBDA i : home[i] = r)

\* The first path chooses the workspace.
Anchor(c) == Head(call[c].paths).root

\* Mutant: one triad too many is kept.
RoomOffByOne == IF Len(cached) <= MaxWorkspaces THEN cached ELSE Tail(cached)

\* What _evict_lru keeps.
Room == IF Len(cached) < MaxWorkspaces THEN cached ELSE Tail(cached)

\* get_backends: a hit becomes the most recent, a miss makes room and starts
\* a triad.
Serve(c, r) ==
    IF TriadOf(r) # 0
    THEN LET i == cached[TriadOf(r)] IN
         /\ cached' = Append(RemoveAt(cached, TriadOf(r)), i)
         /\ call' = [call EXCEPT ![c].pc = "bound", ![c].triad = i]
         /\ UNCHANGED <<home, open>>
    ELSE LET held == ToSet(Room) \cup {call[d].triad : d \in Calls}
             i == CHOOSE i \in Triads \ held : TRUE
         IN \/ /\ home' = [home EXCEPT ![i] = r]
               /\ cached' = Append(Room, i)
               /\ open' = open \ {i}
               /\ call' = [call EXCEPT ![c].pc = "bound", ![c].triad = i]
            \/ cached' = Room /\ Ends(c, "failed") /\ UNCHANGED <<home, open>>

\* A path-less call gets the most recent workspace, else that of the command
\* line, else none.
Resolve(c) ==
    /\ Accepted(c)
    /\ \/ /\ call[c].paths # <<>>
          /\ IF Anchor(c) = None
             THEN Ends(c, "failed") /\ UNCHANGED <<home, cached, open>>
             ELSE Serve(c, Anchor(c))
       \/ /\ call[c].paths = <<>>
          /\ IF cached # <<>>
             THEN /\ call' = [call EXCEPT ![c].pc = "bound", ![c].triad = Last(cached)]
                  /\ UNCHANGED <<home, cached, open>>
             ELSE IF cli # None THEN Serve(c, cli)
             ELSE Goes(c, "bound") /\ UNCHANGED <<home, cached, open>>
    /\ wrote' = None
    /\ UNCHANGED <<profile, cli>>

\* Mutant: only the path that chose the workspace is validated.
ValidAnchor(c) == call[c].valid

\* _validate_params: every path is inside the workspace, every identifier
\* is one.
Valid(c) ==
    /\ call[c].valid
    /\ call[c].triad # None => \A p \in PathsOf(c) : p.root = HomeOf(c)

\* The delegate starts in the step that validates.  Without backends,
\* get_current_backends raises; only server_status does not ask for them.
Enter(c) ==
    /\ call[c].pc = "bound"
    /\ IF ~Valid(c) THEN Ends(c, "invalid")
       ELSE IF call[c].triad # None THEN Goes(c, "running")
       ELSE Ends(c, IF call[c].tool = "server_status" THEN "done" ELSE "error")
    /\ wrote' = None
    /\ UNCHANGED <<profile, cli, home, cached, open>>

-----------------------------------------------------------------------------
(* The effects *)

\* c writes files of its paths and of its workspace, or of the workspace of
\* another root it was given.
Writes(c) ==
    \E r \in {HomeOf(c)} \cup {p.root : p \in PathsOf(c)}
             \cup (IF Spreads(call[c].tool) THEN Roots ELSE {}) :
        wrote' = [by |-> call[c], root |-> r, own |-> HomeOf(c)]

MayWrite(c) == wrote' = None \/ Writes(c)

Fails(c) ==
    /\ call[c].pc = "running"
    /\ Ends(c, "failed")
    /\ wrote' = None
    /\ UNCHANGED <<profile, cli, home, cached, open>>

\* Edits are written when the call is to apply them; a rope tool needs the
\* project its triad had.
Work(c) ==
    /\ call[c].pc = "running"
    /\ EffectOf(c) \in {"pushes", "spreads", "transaction", "undo"} => ~Closed(c)
    /\ EffectOf(c) \notin {"begin", "commit", "rollback"}
    /\ CASE EffectOf(c) \in {"reads", "restart"} -> wrote' = None
         [] EffectOf(c) = "stubs" -> Writes(c)
         [] EffectOf(c) \in {"transaction", "undo"} -> MayWrite(c)
         [] OTHER -> IF call[c].apply THEN MayWrite(c) ELSE wrote' = None
    /\ Ends(c, "done")
    /\ UNCHANGED <<profile, cli, home, cached, open>>

\* begin_change_stack refuses a second stack.
Start(c) ==
    /\ call[c].pc = "running"
    /\ EffectOf(c) = "begin"
    /\ IF call[c].triad \in open
       THEN Ends(c, "invalid") /\ UNCHANGED open
       ELSE /\ ~Closed(c)
            /\ open' = open \cup {call[c].triad}
            /\ Ends(c, "done")
    /\ wrote' = None
    /\ UNCHANGED <<profile, cli, home, cached>>

\* commit and rollback take the stack away, also when they fail half-way;
\* a commit on a closed project fails before it starts.
Finish(c) ==
    /\ call[c].pc = "running"
    /\ EffectOf(c) \in {"commit", "rollback"}
    /\ IF call[c].triad \notin open
       THEN Ends(c, "invalid") /\ wrote' = None /\ UNCHANGED open
       ELSE /\ EffectOf(c) = "commit" => ~Closed(c)
            /\ open' = open \ {call[c].triad}
            /\ MayWrite(c)
            /\ Ends(c, "done") \/ Ends(c, "failed")
    /\ UNCHANGED <<profile, cli, home, cached>>

End(c) ==
    /\ call[c].pc \in Over
    /\ Goes(c, "idle")
    /\ wrote' = None
    /\ UNCHANGED <<profile, cli, home, cached, open>>

Next == \E c \in Calls :
    \/ \E t \in Asked : Begin(c, t)
    \/ RejectRelative(c) \/ Resolve(c) \/ Enter(c)
    \/ Fails(c) \/ Work(c) \/ Start(c) \/ Finish(c) \/ End(c)

Init ==
    /\ profile \in Profiles /\ cli \in Roots \cup {None}
    /\ home = [i \in Triads |-> None]
    /\ cached = <<>>
    /\ open = {}
    /\ call = [c \in Calls |-> Idle]
    /\ wrote = None

Spec == Init /\ [][Next]_vars

-----------------------------------------------------------------------------
(* Properties *)

\* Every variable holds a value of its type; the registry has one triad of a
\* root and keeps to its limit.
TypeOK ==
    /\ profile \in Profiles /\ cli \in Roots \cup {None}
    /\ home \in [Triads -> Roots \cup {None}]
    /\ cached \in Seq(Triads) /\ Len(cached) <= MaxWorkspaces
    /\ \A j, k \in DOMAIN cached : home[cached[j]] = home[cached[k]] => j = k
    /\ open \subseteq Triads
    /\ \A c \in Calls : call[c].triad \in Triads \cup {None}

\* A call works in the workspace its first path chose and nowhere else: what
\* it writes is there, whatever other calls resolved or evicted since, but for
\* the additional roots of multi_project_rename.  A call that is bound has
\* absolute paths only: a relative one has started and evicted nothing.
OwnWorkspace ==
    /\ \A c \in Calls : call[c].triad # None => Absolute(c)
    /\ wrote # None /\ ~Spreads(wrote.by.tool) => wrote.root = wrote.own

\* The annotations keep their word: a tool that is advertised as read-only
\* writes nothing, a preview writes nothing, and a server of the analysis
\* profile never writes at all nor opens a change stack.
WritesAreAnnounced ==
    /\ wrote # None =>
          /\ ~ReadOnly(wrote.by.tool)
          /\ Catalogue[wrote.by.tool].effect \in {"edits", "pushes", "spreads"} =>
                wrote.by.apply
    /\ profile = "analysis" => wrote = None /\ open = {}

\* The server can be built with either profile, which stays below the budget;
\* a tool it does not advertise is in the other profile, and a server without
\* the tools that write is one of the analysis profile.
ProfilesComplete ==
    /\ Buildable(profile)
    /\ ToolNames \ Advertised[profile] \subseteq
          UNION {Advertised[p] : p \in Profiles \ {profile}}
    /\ {t \in ToolNames : Catalogue[t].effect # "reads"} \subseteq Advertised[profile]
          \/ profile = "analysis"
=============================================================================
