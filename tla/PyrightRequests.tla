--------------------------- MODULE PyrightRequests ---------------------------
(***************************************************************************)
(* The feature requests of the Pyright backend (backends/pyright_lsp.py):  *)
(* what each of them asks for and makes of the response, the retry of a    *)
(* request whose server died, and the two ways to restart the server:      *)
(* _restart, and restart_server with the manual restart it falls back on.  *)
(*                                                                         *)
(* An action is what a call does between two awaits; opening or refreshing *)
(* a document is one action here (PyrightSession has its parts).  A        *)
(* client is the number of the LSPClient, in the order of construction; a  *)
(* text is the number of the edit that made it.                            *)
(***************************************************************************)
EXTENDS Naturals, FiniteSets

CONSTANTS
    Calls,
    Files,
    Asked,        \* the features that are asked for
    Provided,     \* the capabilities the server advertises
    None,         \* absence of a text, a provider or a client
    MaxEdits,     \* bound: edits of the files
    MaxCrashes,   \* bound: deaths of a server
    MaxClients    \* bound: language servers that are started

ASSUME ConstantsAssumption ==
    /\ MaxEdits \in Nat /\ MaxCrashes \in Nat /\ MaxClients \in Nat \ {0}
    /\ None \notin Nat \cup Provided

-----------------------------------------------------------------------------
(* The features.  A feature                                                 *)
(*   - needs: a capability that _require_capability looks for, or None;     *)
(*   - opens: the file is "refreshed", only "opened", or there is "none";   *)
(*   - wants: the shapes of a result it can convert;                        *)
(*   - empty: what it answers to any other shape;                           *)
(*   - unhandled: its outcome when the server does not know the method.     *)

\* The common shape: any error of the server is a failure of the backend.
Plain(opens, wants, empty) ==
    [needs |-> None, opens |-> opens, wants |-> wants, empty |-> empty,
     unhandled |-> "failed"]

\* The shape of a feature that Pyright may not implement.
Optional(provider, opens, wants) ==
    [needs |-> provider, opens |-> opens, wants |-> wants, empty |-> "[]",
     unhandled |-> "unsupported"]

Hover == Plain("refreshed", {"object"}, "null")
DocumentSymbols == Plain("opened", {"list"}, "[]")
Completions == Plain("refreshed", {"object", "list"}, "[]")
References == Plain("refreshed", {"list"}, "[]")
Definition == Plain("refreshed", {"object", "list"}, "[]")
SignatureHelp == Plain("refreshed", {"object"}, "null")
WorkspaceSymbol == Plain("none", {"list"}, "[]")
PrepareCallHierarchy == Plain("refreshed", {"list"}, "[]")
IncomingCalls == Plain("none", {"list"}, "[]")
OutgoingCalls == Plain("none", {"list"}, "[]")
CodeActions == Plain("opened", {"list"}, "[]")
DocumentHighlights == Plain("refreshed", {"list"}, "[]")
Implementation ==
    Optional("implementationProvider", "refreshed", {"object", "list"})
PrepareTypeHierarchy == Optional("typeHierarchyProvider", "refreshed", {"list"})
Supertypes == Optional("typeHierarchyProvider", "none", {"list"})
Subtypes == Optional("typeHierarchyProvider", "none", {"list"})
TypeDefinition ==
    Optional("typeDefinitionProvider", "refreshed", {"object", "list"})
SelectionRange == Optional("selectionRangeProvider", "opened", {"list"})
InlayHints == Optional("inlayHintProvider", "opened", {"list"})
SemanticTokens == Optional("semanticTokensProvider", "opened", {"object"})
FoldingRanges == Optional("foldingRangeProvider", "opened", {"list"})

\* Two features make something of a server that does not know them.
Declaration ==
    [Plain("refreshed", {"object", "list"}, "[]") EXCEPT !.unhandled = "definition"]
PrepareRename ==
    [Plain("refreshed", {"object"}, "null") EXCEPT !.unhandled = "null"]
RestartServer ==
    [Plain("none", {"object", "list", "null"}, "[]") EXCEPT !.unhandled = "manual"]

Feature == [
    hover |-> Hover, document_symbols |-> DocumentSymbols,
    completions |-> Completions, references |-> References,
    definition |-> Definition, signature_help |-> SignatureHelp,
    workspace_symbol |-> WorkspaceSymbol,
    prepare_call_hierarchy |-> PrepareCallHierarchy,
    incoming_calls |-> IncomingCalls, outgoing_calls |-> OutgoingCalls,
    code_actions |-> CodeActions, document_highlights |-> DocumentHighlights,
    implementation |-> Implementation,
    prepare_type_hierarchy |-> PrepareTypeHierarchy,
    supertypes |-> Supertypes, subtypes |-> Subtypes,
    type_definition |-> TypeDefinition, selection_range |-> SelectionRange,
    inlay_hints |-> InlayHints, semantic_tokens |-> SemanticTokens,
    folding_ranges |-> FoldingRanges, declaration |-> Declaration,
    prepare_rename |-> PrepareRename, restart_server |-> RestartServer]

ASSUME AskedAssumption == Asked \subseteq DOMAIN Feature

VARIABLES
    disk,        \* the texts of the files
    client,      \* _client
    alive,       \* the clients whose process runs
    ready,       \* the clients whose server answered "initialize"
    restarting,  \* _restarting
    capable,     \* _server_capabilities, or None
    hash,        \* _open_files with _content_hashes: None where not open
    has,         \* the text each server was given, None where it has none
    pc, feature, file,
    on,          \* the client each call sent its request to, or shuts down
    got,         \* the text a call was answered from
    asked,       \* history: the text of its file when a call began
    overlapped,  \* history: a manual restart ran beside another restart
    edits, crashes

tables == <<hash, capable>>
servers == <<client, alive, ready, has>>
bounds == <<edits, crashes>>
callVars == <<feature, file, on, got, asked>>
vars == <<disk, servers, restarting, tables, pc, callVars, overlapped, bounds>>

Over == {"answered", "[]", "null", "unsupported", "failed"}
Restarting(c) == pc[c] \in {"restarting", "initializing", "rerestarting", "reinitializing"}
Manually(c) == pc[c] \in {"stopping", "starting"}
IsAlive == client \in alive
Of(c) == Feature[feature[c]]

\* A restart in either way is going on, other than c's own.
OtherRestart(c) == \E d \in Calls \ {c} : Restarting(d) \/ Manually(d)

Ends(c, outcome) == pc' = [pc EXCEPT ![c] = outcome]
Cleared == hash' = [f \in Files |-> None]
NewClient == client' = client + 1 /\ client < MaxClients

-----------------------------------------------------------------------------
(* Asking *)

\* _require_capability is skipped while no capabilities are recorded.
Refused(m) == capable # None /\ Feature[m].needs \notin capable \cup {None}

Begin(c, m, f) ==
    /\ pc[c] = "idle"
    /\ feature' = [feature EXCEPT ![c] = m]
    /\ file' = [file EXCEPT ![c] = f]
    /\ asked' = [asked EXCEPT ![c] = disk[f]]
    /\ Ends(c, IF Refused(m) THEN "unsupported"
               ELSE IF Feature[m].opens = "none" THEN "asking" ELSE "opening")
    /\ UNCHANGED <<disk, servers, restarting, tables, on, got, overlapped,
                   bounds>>

\* Mutant: a file that is open is taken to be up to date.
MustSendOpenOnly(c) == hash[file[c]] = None

\* What _position_request sends before its request: a file that is not open
\* is opened; one that was is refreshed.
MustSend(c) ==
    LET f == file[c] IN
    \/ hash[f] = None
    \/ Of(c).opens = "refreshed" /\ hash[f] # disk[f]

Open(c) ==
    /\ pc[c] = "opening"
    /\ IF MustSend(c)
       THEN /\ IsAlive
            /\ hash' = [hash EXCEPT ![file[c]] = disk[file[c]]]
            /\ has' = [has EXCEPT ![client][file[c]] = disk[file[c]]]
       ELSE UNCHANGED <<hash, has>>
    /\ Ends(c, "asking")
    /\ UNCHANGED <<disk, client, alive, ready, restarting, capable, callVars,
                   overlapped, bounds>>

\* A notification to a dead server raises, and restarts nothing.  The hash of
\* a file to refresh is recorded before.
OpenFails(c) ==
    /\ pc[c] = "opening"
    /\ MustSend(c) /\ ~IsAlive
    /\ hash' = [hash EXCEPT ![file[c]] = IF @ = None THEN None ELSE disk[file[c]]]
    /\ Ends(c, "failed")
    /\ UNCHANGED <<disk, servers, restarting, capable, callVars, overlapped,
                   bounds>>

\* _request: the server lives, or is being restarted by another call.
Send(c) ==
    /\ pc[c] = "asking"
    /\ IsAlive
    /\ on' = [on EXCEPT ![c] = client]
    /\ Ends(c, "sent")
    /\ UNCHANGED <<disk, servers, restarting, tables, feature, file, got, asked,
                   overlapped, bounds>>

\* While another call restarts the dead server, neither _ensure_healthy nor
\* _restart waits for it, and send_request raises twice.
SendFails(c) ==
    /\ pc[c] = "asking"
    /\ ~IsAlive /\ restarting
    /\ Ends(c, "failed")
    /\ UNCHANGED <<disk, servers, restarting, tables, callVars, overlapped,
                   bounds>>

\* _ensure_healthy finds the server dead.
Heal(c) ==
    /\ pc[c] = "asking"
    /\ ~IsAlive /\ ~restarting
    /\ restarting' = TRUE
    /\ on' = [on EXCEPT ![c] = client]
    /\ overlapped' = (overlapped \/ OtherRestart(c))
    /\ Ends(c, "restarting")
    /\ UNCHANGED <<disk, servers, tables, feature, file, got, asked, bounds>>

-----------------------------------------------------------------------------
(* Responses *)

\* The shapes the server may answer with.  One that has not been initialized
\* refuses, a method it does not implement is unhandled, and where it was not
\* given the file it may read it itself, or answer null.
Responses(c) ==
    IF on[c] \notin ready THEN {"error"}
    ELSE IF Of(c).needs \notin Provided \cup {None} THEN {"unhandled"}
    ELSE {"error", "null"} \cup Of(c).wants
         \cup (IF Of(c).unhandled \in {"definition", "null", "manual"}
               THEN {"unhandled"} ELSE {})

\* The text a result is about.
AnsweredFrom(c) ==
    IF has[on[c]][file[c]] # None THEN has[on[c]][file[c]] ELSE disk[file[c]]

\* Mutant: a method the server does not know has no results.
OutcomeSilently(c, r) ==
    IF r = "error" THEN "failed"
    ELSE IF r \in Of(c).wants THEN "answered"
    ELSE Of(c).empty

\* What a feature makes of a response.
Outcome(c, r) ==
    IF r = "error" THEN "failed"
    ELSE IF r = "unhandled" THEN Of(c).unhandled
    ELSE IF r \in Of(c).wants THEN "answered"
    ELSE Of(c).empty

Waiting(c) == pc[c] \in {"sent", "resent"}

Reply(c) ==
    /\ Waiting(c)
    /\ on[c] \in alive
    /\ feature[c] # "restart_server"
    /\ \E r \in Responses(c) :
          /\ Outcome(c, r) # "definition"
          /\ Ends(c, Outcome(c, r))
          /\ got' = [got EXCEPT ![c] = IF Outcome(c, r) = "answered"
                                       THEN AnsweredFrom(c) ELSE @]
    /\ UNCHANGED <<disk, servers, restarting, tables, feature, file, on, asked,
                   overlapped, bounds>>

\* Mutant: the fallback asks for the declaration again.
FallBackAgain(c) ==
    /\ Waiting(c)
    /\ on[c] \in alive
    /\ \E r \in Responses(c) : Outcome(c, r) = "definition"
    /\ Ends(c, "opening")
    /\ UNCHANGED <<disk, servers, restarting, tables, callVars, overlapped,
                   bounds>>

\* get_declaration goes on as get_definition.
FallBack(c) ==
    /\ Waiting(c)
    /\ on[c] \in alive
    /\ \E r \in Responses(c) : Outcome(c, r) = "definition"
    /\ feature' = [feature EXCEPT ![c] = "definition"]
    /\ Ends(c, "opening")
    /\ UNCHANGED <<disk, servers, restarting, tables, file, on, got, asked,
                   overlapped, bounds>>

\* The response to restart_server clears the tables before it is looked at.
ReplyRestart(c) ==
    /\ Waiting(c)
    /\ on[c] \in alive
    /\ feature[c] = "restart_server"
    /\ Cleared
    /\ on' = [on EXCEPT ![c] = client]
    /\ \E r \in Responses(c) :
          /\ Ends(c, IF Outcome(c, r) = "manual" THEN "stopping" ELSE Outcome(c, r))
          /\ overlapped' = (overlapped \/ (Outcome(c, r) = "manual" /\ OtherRestart(c)))
    /\ UNCHANGED <<disk, servers, restarting, capable, feature, file, got, asked,
                   bounds>>

\* wait_for gives up.
TimeOut(c) ==
    /\ Waiting(c)
    /\ Ends(c, "failed")
    /\ UNCHANGED <<disk, servers, restarting, tables, callVars, overlapped,
                   bounds>>

\* Mutant: several calls restart the server at once.
LostUnguarded(c) ==
    /\ Waiting(c)
    /\ on[c] \notin alive
    /\ IF pc[c] = "sent" /\ ~IsAlive
       THEN /\ restarting' = TRUE
            /\ on' = [on EXCEPT ![c] = client]
            /\ overlapped' = (overlapped \/ \E d \in Calls : Manually(d))
            /\ Ends(c, "rerestarting")
       ELSE Ends(c, "failed") /\ UNCHANGED <<restarting, on, overlapped>>
    /\ UNCHANGED <<disk, servers, tables, feature, file, got, asked, bounds>>

\* The server died under the request.  One restart and one retry follow,
\* unless another call has restarted the server or is about to.
Lost(c) ==
    /\ Waiting(c)
    /\ on[c] \notin alive
    /\ IF pc[c] = "sent" /\ ~IsAlive /\ ~restarting
       THEN /\ restarting' = TRUE
            /\ on' = [on EXCEPT ![c] = client]
            /\ overlapped' = (overlapped \/ OtherRestart(c))
            /\ Ends(c, "rerestarting")
       ELSE Ends(c, "failed") /\ UNCHANGED <<restarting, on, overlapped>>
    /\ UNCHANGED <<disk, servers, tables, feature, file, got, asked, bounds>>

-----------------------------------------------------------------------------
(* Restarts *)

\* _restart has shut down the client it found, clears the tables and starts a
\* new one.
Renew(c) ==
    /\ pc[c] \in {"restarting", "rerestarting"}
    /\ NewClient
    /\ alive' = (alive \ {on[c]}) \cup {client + 1}
    /\ Cleared
    /\ capable' = None
    /\ Ends(c, IF pc[c] = "restarting" THEN "initializing" ELSE "reinitializing")
    /\ UNCHANGED <<disk, ready, has, restarting, callVars, overlapped, bounds>>

\* The handshake is sent to whatever _client is by now.  A retry sends its
\* request at once, on a session without open files.
Initialized(c) ==
    /\ pc[c] \in {"initializing", "reinitializing"}
    /\ IsAlive
    /\ ready' = ready \cup {client}
    /\ capable' = Provided
    /\ restarting' = FALSE
    /\ Ends(c, IF pc[c] = "initializing" THEN "asking" ELSE "resent")
    /\ on' = [on EXCEPT ![c] = IF pc[c] = "initializing" THEN @ ELSE client]
    /\ UNCHANGED <<disk, client, alive, has, hash, feature, file, got, asked,
                   overlapped, bounds>>

\* The server cannot be started, or the handshake fails: then its process is
\* left as it is.
RestartFails(c) ==
    /\ Restarting(c)
    /\ IF pc[c] \in {"restarting", "rerestarting"}
       THEN /\ NewClient
            /\ alive' = alive \ {on[c]}
            /\ Cleared
       ELSE UNCHANGED <<client, alive, hash>>
    /\ restarting' = FALSE
    /\ Ends(c, "failed")
    /\ UNCHANGED <<disk, ready, has, capable, callVars, overlapped, bounds>>

\* The manual restart of restart_server: shutdown, then start, which knows
\* nothing of _restarting and clears nothing.
ManualStart(c) ==
    /\ pc[c] = "stopping"
    /\ NewClient
    /\ alive' = (alive \ {on[c]}) \cup {client + 1}
    /\ capable' = None
    /\ Ends(c, "starting")
    /\ UNCHANGED <<disk, ready, has, restarting, hash, callVars, overlapped,
                   bounds>>

ManualStarted(c) ==
    /\ pc[c] = "starting"
    /\ IsAlive
    /\ ready' = ready \cup {client}
    /\ capable' = Provided
    /\ Ends(c, "answered")
    /\ UNCHANGED <<disk, client, alive, has, restarting, hash, callVars,
                   overlapped, bounds>>

\* Every candidate command failed; the last client was shut down.
ManualFails(c) ==
    /\ pc[c] = "starting"
    /\ alive' = alive \ {client}
    /\ Ends(c, "failed")
    /\ UNCHANGED <<disk, client, ready, has, restarting, tables, callVars,
                   overlapped, bounds>>

-----------------------------------------------------------------------------
(* The world around *)

Crash(k) ==
    /\ crashes < MaxCrashes
    /\ k \in alive
    /\ alive' = alive \ {k}
    /\ crashes' = crashes + 1
    /\ UNCHANGED <<disk, client, ready, has, restarting, tables, pc, callVars,
                   overlapped, edits>>

Edit(f) ==
    /\ edits < MaxEdits
    /\ edits' = edits + 1
    /\ disk' = [disk EXCEPT ![f] = edits + 1]
    /\ UNCHANGED <<servers, restarting, tables, pc, callVars, overlapped, crashes>>

Finished == (\A c \in Calls : pc[c] \in Over) /\ UNCHANGED vars

Step(c) ==
    \/ Open(c) \/ OpenFails(c) \/ Send(c) \/ SendFails(c) \/ Heal(c)
    \/ Reply(c) \/ FallBack(c) \/ ReplyRestart(c) \/ TimeOut(c) \/ Lost(c)
    \/ Renew(c) \/ Initialized(c) \/ RestartFails(c)
    \/ ManualStart(c) \/ ManualStarted(c) \/ ManualFails(c)

Next ==
    \/ \E c \in Calls : Step(c) \/ \E m \in Asked, f \in Files : Begin(c, m, f)
    \/ \E k \in 1..MaxClients : Crash(k)
    \/ \E f \in Files : Edit(f)
    \/ Finished

Init ==
    /\ disk = [f \in Files |-> 0]
    /\ client = 1 /\ alive = {1} /\ ready = {1}
    /\ restarting = FALSE
    /\ capable = Provided
    /\ hash = [f \in Files |-> None]
    /\ has = [k \in 1..MaxClients |-> [f \in Files |-> None]]
    /\ pc = [c \in Calls |-> "idle"]
    /\ feature = [c \in Calls |-> None]
    /\ file = [c \in Calls |-> None]
    /\ on = [c \in Calls |-> None]
    /\ got = [c \in Calls |-> None]
    /\ asked = [c \in Calls |-> None]
    /\ overlapped = FALSE
    /\ edits = 0 /\ crashes = 0

\* Requests and handshakes run under a time-out, and the rest needs nobody:
\* every call goes on.
Spec == Init /\ [][Next]_vars /\ \A c \in Calls : WF_vars(Step(c))

-----------------------------------------------------------------------------
(* Properties *)

\* Every variable holds a value of its type, and _restarting is set by the
\* one call that is restarting the server.
TypeOK ==
    /\ disk \in [Files -> 0..MaxEdits]
    /\ client \in 1..MaxClients
    /\ alive \subseteq 1..client /\ ready \subseteq 1..client
    /\ capable \in {None, Provided}
    /\ hash \in [Files -> 0..MaxEdits \cup {None}]
    /\ \A k \in 1..MaxClients : has[k] \in [Files -> 0..MaxEdits \cup {None}]
    /\ restarting <=> \E c \in Calls : Restarting(c)
    /\ \A c, d \in Calls : Restarting(c) /\ Restarting(d) => c = d
    /\ \A c \in Calls : Waiting(c) => on[c] \in 1..client

\* A position is resolved in the text its file had when the call began, or in
\* a later one: through edits, crashes, restarts and retries.
FreshAnswers ==
    \A c \in Calls : got[c] # None /\ Of(c).opens = "refreshed" => got[c] >= asked[c]

\* A feature the server does not implement fails explicitly instead of silently,
\* also when it is asked for while no capabilities are recorded.
UnsupportedIsExplicit ==
    \A c \in Calls :
        pc[c] \in {"answered", "[]", "null"} => Of(c).needs \in Provided \cup {None}

\* No server process is left behind: the session has one at most, whoever
\* restarts it, unless a manual restart ran beside another restart.
OneServer == ~overlapped => alive \subseteq {client}

\* Every call ends: a dead server, a restart that fails and a request that
\* nobody answers included.
RequestsEnd == \A c \in Calls : pc[c] # "idle" ~> pc[c] \in Over
=============================================================================
