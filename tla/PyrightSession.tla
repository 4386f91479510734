--------------------------- MODULE PyrightSession ---------------------------
(***************************************************************************)
(* What the Pyright backend knows about files and diagnostics              *)
(* (backends/pyright_lsp.py), between the tools that call it and the       *)
(* language server it talks to over a pipe.                                *)
(*                                                                         *)
(* A task is one tool call on one file: a reader runs get_diagnostics; an  *)
(* applier has just written the file and runs attach_post_apply_diagnostics*)
(* (util/shared.py): notify_file_changed, then get_diagnostics.  An action *)
(* is what a task does between two awaits.  The awaits are the transport's *)
(* write lock (asyncio.Lock: first come, first served), the drain of the   *)
(* pipe while holding it, and the event that announces a publish.          *)
(*                                                                         *)
(* Texts are what the hashes tell apart; a file's diagnostics are named by *)
(* the text they were computed from.                                       *)
(***************************************************************************)
EXTENDS LockQueue, FiniteSets

CONSTANTS
    Readers,     \* calls of get_diagnostics
    Appliers,    \* calls that changed a file and want its diagnostics
    Files,
    Texts,       \* contents a file can have
    None,        \* absence of a text
    Nothing,     \* the empty list get_diagnostics falls back on
    MaxEdits,    \* bound: edits made by other programs
    MaxCrashes,  \* bound: deaths of the server process
    MaxClears    \* bound: uses of the restart_server tool

Tasks == Readers \cup Appliers

ASSUME ConstantsAssumption ==
    /\ Readers \cap Appliers = {}
    /\ None \notin Texts /\ Nothing \notin Texts \cup {None}
    /\ MaxEdits \in Nat /\ MaxCrashes \in Nat /\ MaxClears \in Nat

VARIABLES
    disk,      \* the files' contents
    \* the client's tables
    opened,    \* _open_files
    hash,      \* _content_hashes: the text the client takes the server to have
    cache,     \* _diagnostics: None where there is no entry
    \* the transport and the server
    lockq,     \* the tasks that hold (first) or wait for _write_lock
    server,    \* "running", "dead", "absent" or "starting"
    toServer,  \* document notifications on their way: [file, text]
    toClient,  \* publishDiagnostics on their way: [file, text]
    view,      \* the text the server analyses, None where none is open
    dirty,     \* files the server has not published since they changed
    \* the tasks
    pc, file, text, result,
    notified,  \* the appliers that are past notify_file_changed
    \* history and bounds
    missed,    \* files of which a change the client recorded got lost
    edits, crashes, clears

tables == <<opened, hash, cache>>
pipes == <<toServer, toClient, view, dirty>>
bounds == <<edits, crashes, clears>>
vars == <<disk, tables, lockq, server, pipes, pc, file, text, result, notified,
          missed, bounds>>

Alive == server \in {"running", "starting"}

Queued == {"opening", "changing", "notifying"}
Written == {"openSent", "changeSent", "notifySent"}
Over == {"done", "failed", "cancelled"}

\* The task is in get_diagnostics, not in notify_file_changed.
Diagnosing(t) == t \in Readers \cup notified

\* The task at the head of the queue holds the write lock.
HoldsLock(t) == lockq # <<>> /\ Head(lockq) = t

-----------------------------------------------------------------------------
(* The parts of get_diagnostics and notify_file_changed that run without   *)
(* an await.  q is what the queue for the write lock becomes before t      *)
(* joins it again, h what the hash of t's file is by then.                 *)

Join(t, state, s, q) ==
    /\ pc' = [pc EXCEPT ![t] = state]
    /\ text' = [text EXCEPT ![t] = s]
    /\ lockq' = Append(q, t)
    /\ UNCHANGED result

\* "if normalized not in self._diagnostics": clear the event and wait for it.
Await(t, q) ==
    /\ pc' = [pc EXCEPT ![t] = "waiting"]
    /\ text' = [text EXCEPT ![t] = None]
    /\ lockq' = q
    /\ UNCHANGED result

Answer(t, d, q) ==
    /\ pc' = [pc EXCEPT ![t] = "done"]
    /\ result' = [result EXCEPT ![t] = IF d = None THEN Nothing ELSE d]
    /\ text' = [text EXCEPT ![t] = None]
    /\ lockq' = q

\* _refresh_if_changed, and the rest if it has nothing to send.  The hash is
\* recorded before the change is sent.
Refresh(t, h, q) ==
    LET f == file[t] IN
    /\ hash' = [hash EXCEPT ![f] = disk[f]]
    /\ \/ h # disk[f] /\ Join(t, "changing", disk[f], q)
       \/ h = disk[f] /\ cache[f] = None /\ Await(t, q)
       \/ h = disk[f] /\ cache[f] # None /\ Answer(t, cache[f], q)

\* The rest of notify_file_changed up to its send.
Notify(t, q) == Join(t, "notifying", disk[file[t]], q)

-----------------------------------------------------------------------------
(* The tasks' steps *)

Ask(t, f) ==
    /\ t \in Readers
    /\ pc[t] = "idle"
    /\ pc' = [pc EXCEPT ![t] = "asked"]
    /\ file' = [file EXCEPT ![t] = f]
    /\ UNCHANGED <<disk, tables, lockq, server, pipes, text, result, notified,
                   missed, bounds>>

\* A refactoring tool has written its edit to the disk.
Apply(t, f, s) ==
    /\ t \in Appliers
    /\ pc[t] = "idle"
    /\ pc' = [pc EXCEPT ![t] = "asked"]
    /\ file' = [file EXCEPT ![t] = f]
    /\ disk' = [disk EXCEPT ![f] = s]
    /\ UNCHANGED <<tables, lockq, server, pipes, text, result, notified, missed,
                   bounds>>

\* ensure_file_open of a file that is not open.
BeginOpen(t) ==
    /\ pc[t] = "asked"
    /\ file[t] \notin opened
    /\ Join(t, "opening", disk[file[t]], lockq)
    /\ UNCHANGED <<disk, tables, server, pipes, file, notified, missed,
                   bounds>>

\* The file is open already.
Begin(t) ==
    /\ pc[t] = "asked"
    /\ file[t] \in opened
    /\ \/ Diagnosing(t) /\ Refresh(t, hash[file[t]], lockq)
       \/ ~Diagnosing(t) /\ Notify(t, lockq) /\ UNCHANGED hash
    /\ UNCHANGED <<disk, opened, cache, server, pipes, file, notified, missed,
                   bounds>>

\* The task has the lock and writes its notification into the pipe.
Write(t) ==
    /\ HoldsLock(t)
    /\ pc[t] \in Queued
    /\ Alive
    /\ toServer' = Append(toServer, [file |-> file[t], text |-> text[t]])
    /\ pc' = [pc EXCEPT ![t] = CASE pc[t] = "opening"   -> "openSent"
                                 [] pc[t] = "changing"  -> "changeSent"
                                 [] pc[t] = "notifying" -> "notifySent"]
    /\ UNCHANGED <<disk, tables, lockq, server, toClient, view, dirty, file,
                   text, result, notified, missed, bounds>>

\* Mutant: the lock is not released before it is asked for again.
OpenedKeepsLock(t) ==
    /\ HoldsLock(t)
    /\ pc[t] = "openSent"
    /\ opened' = opened \cup {file[t]}
    /\ \/ Diagnosing(t) /\ Refresh(t, text[t], lockq)
       \/ /\ ~Diagnosing(t)
          /\ Notify(t, lockq)
          /\ hash' = [hash EXCEPT ![file[t]] = text[t]]
    /\ UNCHANGED <<disk, cache, server, pipes, file, notified, missed,
                   bounds>>

\* didOpen is out: record the file as open, and go on.
Opened(t) ==
    /\ HoldsLock(t)
    /\ pc[t] = "openSent"
    /\ opened' = opened \cup {file[t]}
    /\ \/ Diagnosing(t) /\ Refresh(t, text[t], Tail(lockq))
       \/ /\ ~Diagnosing(t)
          /\ Notify(t, Tail(lockq))
          /\ hash' = [hash EXCEPT ![file[t]] = text[t]]
    /\ UNCHANGED <<disk, cache, server, pipes, file, notified, missed,
                   bounds>>

\* Mutant: the hash is not recorded again once the change is out.
ChangedKeepsHash(t) ==
    /\ HoldsLock(t)
    /\ pc[t] = "changeSent"
    /\ cache' = [cache EXCEPT ![file[t]] = None]
    /\ Await(t, Tail(lockq))
    /\ UNCHANGED <<disk, opened, hash, server, pipes, file, notified, missed,
                   bounds>>

\* The didChange of a refresh is out: drop the cached diagnostics and wait.
Changed(t) ==
    /\ HoldsLock(t)
    /\ pc[t] = "changeSent"
    /\ hash' = [hash EXCEPT ![file[t]] = text[t]]
    /\ cache' = [cache EXCEPT ![file[t]] = None]
    /\ Await(t, Tail(lockq))
    /\ UNCHANGED <<disk, opened, server, pipes, file, notified, missed,
                   bounds>>

\* The didChange of notify_file_changed is out: get_diagnostics follows.  A
\* file that was closed meanwhile is opened again.
Notified(t) ==
    /\ HoldsLock(t)
    /\ pc[t] = "notifySent"
    /\ notified' = notified \cup {t}
    /\ \/ file[t] \in opened /\ Refresh(t, text[t], Tail(lockq))
       \/ /\ file[t] \notin opened
          /\ hash' = [hash EXCEPT ![file[t]] = text[t]]
          /\ Join(t, "opening", disk[file[t]], Tail(lockq))
    /\ UNCHANGED <<disk, opened, cache, server, pipes, file, missed, bounds>>

\* Mutant: the failed send keeps the write lock.
SendFailsKeepsLock(t) ==
    /\ pc[t] \in Queued \cup Written
    /\ HoldsLock(t)
    /\ ~Alive
    /\ pc' = [pc EXCEPT ![t] = "failed"]
    /\ UNCHANGED <<disk, tables, lockq, server, pipes, file, text, result,
                   notified, missed, bounds>>

\* The pipe is broken, or there is no process.
SendFails(t) ==
    /\ pc[t] \in Queued \cup Written
    /\ HoldsLock(t)
    /\ ~Alive
    /\ pc' = [pc EXCEPT ![t] = "failed"]
    /\ text' = [text EXCEPT ![t] = None]
    /\ lockq' = Tail(lockq)
    /\ UNCHANGED <<disk, tables, server, pipes, file, result, notified, missed,
                   bounds>>

\* The event was set, some time ago.
Wake(t) ==
    /\ pc[t] = "woken"
    /\ Answer(t, cache[file[t]], lockq)
    /\ UNCHANGED <<disk, tables, server, pipes, file, notified, missed, bounds>>

\* No publish in time.
TimeOut(t) ==
    /\ pc[t] \in {"waiting", "orphaned"}
    /\ pc' = [pc EXCEPT ![t] = "failed"]
    /\ UNCHANGED <<disk, tables, lockq, server, pipes, file, text, result,
                   notified, missed, bounds>>

\* The client cancels the call, at any of its awaits.
Cancel(t) ==
    /\ pc[t] \in Queued \cup Written \cup {"waiting", "orphaned", "woken"}
    /\ pc' = [pc EXCEPT ![t] = "cancelled"]
    /\ text' = [text EXCEPT ![t] = None]
    /\ lockq' = Without(lockq, t)
    /\ missed' = IF pc[t] \in {"changing"} \cup Written
                 THEN missed \cup {file[t]}
                 ELSE missed
    /\ UNCHANGED <<disk, tables, server, pipes, file, result, notified, bounds>>

-----------------------------------------------------------------------------
(* The reader loop *)

\* Mutant: the event of the file is not set.
DeliverSilently ==
    /\ toClient # <<>>
    /\ LET m == Head(toClient) IN
       cache' = [cache EXCEPT ![m.file] = m.text]
    /\ toClient' = Tail(toClient)
    /\ UNCHANGED <<disk, opened, hash, lockq, server, toServer, view, dirty, pc,
                   file, text, result, notified, missed, bounds>>

\* _handle_publish_diagnostics: all tasks that wait for the file wake up.
Deliver ==
    /\ toClient # <<>>
    /\ LET m == Head(toClient) IN
       /\ cache' = [cache EXCEPT ![m.file] = m.text]
       /\ pc' = [t \in Tasks |-> IF pc[t] = "waiting" /\ file[t] = m.file
                                 THEN "woken" ELSE pc[t]]
    /\ toClient' = Tail(toClient)
    /\ UNCHANGED <<disk, opened, hash, lockq, server, toServer, view, dirty,
                   file, text, result, notified, missed, bounds>>

-----------------------------------------------------------------------------
(* Restarts.  A task that waits on an event of a cleared table is orphaned: *)
(* no later publish finds that event.                                       *)

ClearTables ==
    /\ opened' = {}
    /\ hash' = [f \in Files |-> None]
    /\ cache' = [f \in Files |-> None]

Orphaned(t) == pc[t] = "waiting"

\* restart_server: the server answered that it restarts its analysis.  Nothing
\* keeps other tasks from being in the middle of a send.
RestartServer ==
    /\ server = "running"
    /\ clears < MaxClears
    /\ clears' = clears + 1
    /\ ClearTables
    /\ pc' = [t \in Tasks |-> IF Orphaned(t) THEN "orphaned" ELSE pc[t]]
    /\ dirty' = {f \in Files : view[f] # None}
    /\ UNCHANGED <<disk, lockq, server, toServer, toClient, view, file, text,
                   result, notified, missed, edits, crashes>>

\* What queues for the write lock of the old client fails with it.
AbandonClient ==
    /\ pc' = [t \in Tasks |-> CASE Orphaned(t) -> "orphaned"
                              [] t \in Range(lockq) -> "failed"
                              [] OTHER -> pc[t]]
    /\ text' = [t \in Tasks |-> None]
    /\ lockq' = <<>>

\* Mutant: the diagnostics of the old process survive.
ReplaceKeepsDiagnostics ==
    /\ server = "dead"
    /\ server' = "absent"
    /\ opened' = {}
    /\ hash' = [f \in Files |-> None]
    /\ AbandonClient
    /\ toServer' = <<>> /\ toClient' = <<>>
    /\ view' = [f \in Files |-> None]
    /\ dirty' = {} /\ missed' = {}
    /\ UNCHANGED <<disk, cache, file, result, notified, bounds>>

\* _restart, begun by a request that found the process dead: shut the old
\* client down, clear the tables, make a new client.
Replace ==
    /\ server = "dead"
    /\ server' = "absent"
    /\ ClearTables
    /\ AbandonClient
    /\ toServer' = <<>> /\ toClient' = <<>>
    /\ view' = [f \in Files |-> None]
    /\ dirty' = {} /\ missed' = {}
    /\ UNCHANGED <<disk, file, result, notified, bounds>>

\* The new process is up; the initialize handshake is not over.
Spawn ==
    /\ server = "absent"
    /\ server' = "starting"
    /\ UNCHANGED <<disk, tables, lockq, pipes, pc, file, text, result, notified,
                   missed, bounds>>

Initialized ==
    /\ server = "starting"
    /\ server' = "running"
    /\ UNCHANGED <<disk, tables, lockq, pipes, pc, file, text, result, notified,
                   missed, bounds>>

-----------------------------------------------------------------------------
(* The language server and other programs *)

\* It reads a notification.  One that comes before the handshake is over may
\* be dropped.
Receive ==
    /\ Alive
    /\ toServer # <<>>
    /\ LET m == Head(toServer) IN
       \/ /\ view' = [view EXCEPT ![m.file] = m.text]
          /\ dirty' = dirty \cup {m.file}
          /\ UNCHANGED missed
       \/ /\ server = "starting"
          /\ missed' = missed \cup {m.file}
          /\ UNCHANGED <<view, dirty>>
    /\ toServer' = Tail(toServer)
    /\ UNCHANGED <<disk, tables, lockq, server, toClient, pc, file, text,
                   result, notified, bounds>>

\* It publishes what it found, perhaps after several changes.
Publish(f) ==
    /\ server = "running"
    /\ f \in dirty
    /\ dirty' = dirty \ {f}
    /\ toClient' = Append(toClient, [file |-> f, text |-> view[f]])
    /\ UNCHANGED <<disk, tables, lockq, server, toServer, view, pc, file, text,
                   result, notified, missed, bounds>>

Crash ==
    /\ Alive
    /\ crashes < MaxCrashes
    /\ crashes' = crashes + 1
    /\ server' = "dead"
    /\ toServer' = <<>>
    /\ UNCHANGED <<disk, tables, lockq, toClient, view, dirty, pc, file, text,
                   result, notified, missed, edits, clears>>

\* Another program changes a file.
Edit(f, s) ==
    /\ edits < MaxEdits
    /\ edits' = edits + 1
    /\ disk' = [disk EXCEPT ![f] = s]
    /\ UNCHANGED <<tables, lockq, server, pipes, pc, file, text, result,
                   notified, missed, crashes, clears>>

-----------------------------------------------------------------------------
Init ==
    /\ disk \in [Files -> Texts]
    /\ opened = {}
    /\ hash = [f \in Files |-> None]
    /\ cache = [f \in Files |-> None]
    /\ lockq = <<>>
    /\ server = "running"
    /\ toServer = <<>> /\ toClient = <<>>
    /\ view = [f \in Files |-> None]
    /\ dirty = {}
    /\ pc = [t \in Tasks |-> "idle"]
    /\ file = [t \in Tasks |-> None]
    /\ text = [t \in Tasks |-> None]
    /\ result = [t \in Tasks |-> None]
    /\ notified = {} /\ missed = {}
    /\ edits = 0 /\ crashes = 0 /\ clears = 0

\* What a task does by itself once it has begun.
Step(t) ==
    \/ BeginOpen(t)
    \/ Begin(t)
    \/ Write(t)
    \/ Opened(t)
    \/ Changed(t)
    \/ Notified(t)
    \/ SendFails(t)
    \/ Wake(t)
    \/ TimeOut(t)

Next ==
    \/ \E t \in Tasks : Step(t) \/ Cancel(t)
    \/ \E t \in Tasks, f \in Files : Ask(t, f)
    \/ \E t \in Tasks, f \in Files, s \in Texts : Apply(t, f, s)
    \/ \E f \in Files, s \in Texts : Edit(f, s)
    \/ \E f \in Files : Publish(f)
    \/ Deliver \/ Receive
    \/ RestartServer \/ Replace \/ Spawn \/ Initialized \/ Crash

Spec == Init /\ [][Next]_vars

\* The event loop serves every task, the server reads its pipe, and a time-out
\* fires.  Nothing obliges the server to publish or to stay alive.
FairSpec == Spec /\ \A t \in Tasks : WF_vars(Step(t))

-----------------------------------------------------------------------------
(* Properties *)

Message == [file : Files, text : Texts]

\* Every variable holds a value of its type, and a task queues at most once.
TypeOK ==
    /\ disk \in [Files -> Texts]
    /\ opened \subseteq Files
    /\ hash \in [Files -> Texts \cup {None}]
    /\ cache \in [Files -> Texts \cup {None}]
    /\ lockq \in Seq(Tasks)
    /\ IsInjective(lockq)
    /\ server \in {"running", "dead", "absent", "starting"}
    /\ toServer \in Seq(Message) /\ toClient \in Seq(Message)
    /\ view \in [Files -> Texts \cup {None}]
    /\ dirty \subseteq Files
    /\ pc \in [Tasks -> {"idle", "asked", "waiting", "orphaned", "woken"}
                        \cup Queued \cup Written \cup Over]
    /\ file \in [Tasks -> Files \cup {None}]
    /\ text \in [Tasks -> Texts \cup {None}]
    /\ result \in [Tasks -> Texts \cup {None, Nothing}]
    /\ notified \subseteq Appliers
    /\ missed \subseteq Files
    /\ edits \in 0..MaxEdits /\ crashes \in 0..MaxCrashes
    /\ clears \in 0..MaxClears

\* No send is under way, and the server has read them all.
Settled == lockq = <<>> /\ toServer = <<>> /\ Alive

\* The hash by which _refresh_if_changed decides that the server is up to date
\* is the one of the text the server has: no order of concurrent opens, edits,
\* refreshes and restarts makes them differ.  (A call that is cancelled in the
\* middle of a send, and a notification sent into the handshake of a restart,
\* may; those files are in missed.)
HashMatchesServer ==
    Settled => \A f \in opened \ missed : hash[f] = view[f]

\* Once the server has published everything, what is cached for a file are the
\* diagnostics of the text the server has, never those of an older one or of a
\* process that is gone.
CacheMatchesServer ==
    Settled /\ toClient = <<>> /\ dirty = {} =>
        \A f \in Files : cache[f] \in {None, view[f]}

\* No lost wake-up: a call that waits for a publish, on an event that is still
\* in the table, waits because there is nothing in the cache.
WaitsForCause == \A t \in Tasks : pc[t] = "waiting" => cache[file[t]] = None

\* Every call ends: the write lock comes round whoever fails, is cancelled or
\* finds the process dead, and no wait for a publish is unbounded.
CallsEnd == \A t \in Tasks : pc[t] = "asked" ~> pc[t] \in Over

\* attach_post_apply_diagnostics, shared.py:71: "append refreshed diagnostics".
\* As long as nobody else touches the disk, an applied edit is answered with
\* the diagnostics of its own text.  The code answers with those it had cached
\* before the edit: notify_file_changed does not drop them.
AppliedIsRefreshed ==
    edits = 0 /\ Cardinality({t \in Appliers : pc[t] # "idle"}) = 1 =>
        \A t \in Appliers : pc[t] = "done" => result[t] \in {disk[file[t]], Nothing}
=============================================================================
