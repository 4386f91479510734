----------------------------- MODULE LspTransport -----------------------------
(***************************************************************************)
(* The JSON-RPC client of the language server (util/lsp_client.py and      *)
(* util/subprocess_mgr.py): requests and their pending futures, the write  *)
(* lock, the reader loop, and the shutdown of the process.                 *)
(*                                                                         *)
(* An action is what runs between two awaits.  Whoever wants to write      *)
(* queues for the write lock: requests, the "exit" notification at the end *)
(* and the reader, when it replies to a request of the server.             *)
(***************************************************************************)
EXTENDS LockQueue, FiniteSets

CONSTANTS
    Requests,  \* calls of send_request
    Bye,       \* the "shutdown" request of shutdown()
    Exit,      \* the "exit" notification of shutdown()
    Reply,     \* the reader's reply to a request of the server
    AskIds,    \* ids of the requests the server makes, each once
    None,
    MaxFaults  \* bound: malformed messages and deaths of the process

Callers == Requests \cup {Bye}
Senders == Callers \cup {Exit, Reply}

ASSUME ConstantsAssumption ==
    /\ AskIds \subseteq Nat
    /\ MaxFaults \in Nat
    /\ Bye # Exit /\ Bye # Reply /\ Exit # Reply
    /\ Requests \cap {Bye, Exit, Reply} = {}

VARIABLES
    process,  \* "running", "dead" or, after its shutdown, "none"
    reader,   \* the reader task: "reading", "replying" or "over"
    lockq,    \* the senders that hold (first) or wait for _write_lock
    pc,       \* the senders
    id,       \* the requests' ids
    nextId,   \* _id_counter
    pending,  \* the requests with an entry in _pending
    future,   \* what their futures were resolved with
    answer,   \* what they returned
    toServer, \* the requests written and not answered
    toClient, \* messages on their way
    asked,    \* the server's requests so far
    faults    \* how many faults there were

pipes == <<toServer, toClient, asked>>
calls == <<id, nextId, answer>>
vars == <<process, reader, lockq, pc, calls, pending, future, pipes, faults>>

\* A response of the server has the id of the request, a request of its own has
\* an id that it chose.
Response(r) == [kind |-> "response", id |-> id[r], of |-> r]
Asking(n) == [kind |-> "ask", id |-> n, of |-> None]
Garbage == [kind |-> "garbage", id |-> 0, of |-> None]
Error == [kind |-> "error", id |-> 0, of |-> None]

HoldsLock(s) == lockq # <<>> /\ Head(lockq) = s
Leave(s) == Without(lockq, s)

\* Every pending future that is not resolved yet gets the error.
Failing(rs) == [r \in Callers |-> IF r \in rs /\ future[r] = None THEN Error ELSE future[r]]

\* What is written to a closed pipe is dropped, or its drain raises.
PipeOpen == process = "running" /\ pc[Exit] # "closing"

-----------------------------------------------------------------------------
(* send_request *)

\* Mutant: ids start again when nothing is pending.
RequestReusingIds(r) ==
    /\ pc[r] = "idle"
    /\ r # Bye
    /\ process # "none"
    /\ id' = [id EXCEPT ![r] = Cardinality(pending) + 1]
    /\ pending' = pending \cup {r}
    /\ pc' = [pc EXCEPT ![r] = "queued"]
    /\ lockq' = Append(lockq, r)
    /\ UNCHANGED <<process, reader, nextId, future, answer, pipes, faults>>

Request(r) ==
    /\ pc[r] = "idle"
    /\ r # Bye
    /\ process # "none"
    /\ id' = [id EXCEPT ![r] = nextId]
    /\ nextId' = nextId + 1
    /\ pending' = pending \cup {r}
    /\ pc' = [pc EXCEPT ![r] = "queued"]
    /\ lockq' = Append(lockq, r)
    /\ UNCHANGED <<process, reader, future, answer, pipes, faults>>

\* Under the lock: write, then wait for the pipe to drain.
WriteRequest(r) ==
    /\ pc[r] = "queued"
    /\ HoldsLock(r)
    /\ toServer' = IF PipeOpen THEN toServer \cup {r} ELSE toServer
    /\ pc' = [pc EXCEPT ![r] = "draining"]
    /\ UNCHANGED <<process, reader, lockq, calls, pending, future, toClient,
                   asked, faults>>

Drained(r) ==
    /\ pc[r] = "draining"
    /\ HoldsLock(r)
    /\ pc' = [pc EXCEPT ![r] = "waiting"]
    /\ lockq' = Tail(lockq)
    /\ UNCHANGED <<process, reader, calls, pending, future, pipes, faults>>

\* The await of the future is over.
Return(r) ==
    /\ pc[r] = "waiting"
    /\ future[r] # None
    /\ answer' = [answer EXCEPT ![r] = future[r]]
    /\ pc' = [pc EXCEPT ![r] = "over"]
    /\ pending' = pending \ {r}
    /\ future' = [future EXCEPT ![r] = None]
    /\ UNCHANGED <<process, reader, lockq, id, nextId, pipes, faults>>

\* Mutant: a call that gives up leaves its entry in the table.
GiveUpKeepsEntry(r) ==
    /\ pc' = [pc EXCEPT ![r] = "over"]
    /\ lockq' = Leave(r)
    /\ future' = [future EXCEPT ![r] = None]
    /\ UNCHANGED pending

\* Mutant: a call that gives up at the write keeps the lock.
GiveUpKeepsLock(r) ==
    /\ pc' = [pc EXCEPT ![r] = "over"]
    /\ lockq' = IF HoldsLock(r) THEN lockq ELSE Leave(r)
    /\ future' = [future EXCEPT ![r] = None]
    /\ pending' = pending \ {r}

\* The call ends at any of its awaits; its finally clause drops the entry.
GiveUp(r) ==
    /\ pc' = [pc EXCEPT ![r] = "over"]
    /\ lockq' = Leave(r)
    /\ future' = [future EXCEPT ![r] = None]
    /\ pending' = pending \ {r}

\* The pipe is closed.
WriteFails(r) ==
    /\ pc[r] \in {"queued", "draining"}
    /\ HoldsLock(r)
    /\ ~PipeOpen
    /\ GiveUp(r)
    /\ UNCHANGED <<process, reader, calls, pipes, faults>>

\* The caller's wait_for runs out, or the call is cancelled.
TimeOut(r) ==
    /\ pc[r] \in {"queued", "draining", "waiting"}
    /\ GiveUp(r)
    /\ UNCHANGED <<process, reader, calls, pipes, faults>>

-----------------------------------------------------------------------------
(* shutdown *)

Shutdown ==
    /\ pc[Bye] = "idle"
    /\ process # "none"
    /\ id' = [id EXCEPT ![Bye] = nextId]
    /\ nextId' = nextId + 1
    /\ pending' = pending \cup {Bye}
    /\ pc' = [pc EXCEPT ![Bye] = "queued"]
    /\ lockq' = Append(lockq, Bye)
    /\ UNCHANGED <<process, reader, future, answer, pipes, faults>>

\* Mutant: "exit" is sent again while it waits for the lock.
SendExitAgain ==
    /\ pc[Bye] = "over"
    /\ pc[Exit] \in {"idle", "queued"}
    /\ pc' = [pc EXCEPT ![Exit] = "queued"]
    /\ lockq' = Append(lockq, Exit)
    /\ UNCHANGED <<process, reader, calls, pending, future, pipes, faults>>

\* Answered or not.
SendExit ==
    /\ pc[Bye] = "over"
    /\ pc[Exit] = "idle"
    /\ pc' = [pc EXCEPT ![Exit] = "queued"]
    /\ lockq' = Append(lockq, Exit)
    /\ UNCHANGED <<process, reader, calls, pending, future, pipes, faults>>

\* "exit" is out, or failed: fail the pending requests and close the pipe.
FailPending ==
    /\ pc[Exit] = "queued"
    /\ HoldsLock(Exit)
    /\ pc' = [pc EXCEPT ![Exit] = "closing"]
    /\ lockq' = Tail(lockq)
    /\ future' = Failing(pending)
    /\ pending' = {}
    /\ UNCHANGED <<process, reader, calls, pipes, faults>>

\* The process ended, by itself or by force; the reader is cancelled.
Close ==
    /\ pc[Exit] = "closing"
    /\ process' = "none"
    /\ reader' = "over"
    /\ toServer' = {}
    /\ pc' = [pc EXCEPT ![Exit] = "over", ![Reply] = "over"]
    /\ lockq' = Leave(Reply)
    /\ toClient' = <<>>
    /\ UNCHANGED <<calls, pending, future, asked, faults>>

-----------------------------------------------------------------------------
(* _reader_loop and _route_message *)

\* The pending requests a message with this id is for.
AwaitedBy(n) == {r \in pending : id[r] = n}

Next1 == Head(toClient)

Reading(kind) == reader = "reading" /\ toClient # <<>> /\ Next1.kind = kind

\* The future with the message's id is popped and resolved, if there is one.
Resolve ==
    /\ future' = [r \in Callers |-> IF r \in AwaitedBy(Next1.id) /\ future[r] = None
                                    THEN Next1 ELSE future[r]]
    /\ pending' = pending \ AwaitedBy(Next1.id)
    /\ toClient' = Tail(toClient)
    /\ UNCHANGED <<process, reader, lockq, pc, calls, toServer, asked, faults>>

\* A response that comes too late finds nothing.
RouteResponse == Reading("response") /\ Resolve

\* A request of the server with the id of a pending one is taken for its
\* response.
RouteCollidingAsk ==
    /\ Reading("ask")
    /\ AwaitedBy(Next1.id) # {}
    /\ Resolve

RouteAsk ==
    /\ Reading("ask")
    /\ AwaitedBy(Next1.id) = {}
    /\ reader' = "replying"
    /\ pc' = [pc EXCEPT ![Reply] = "queued"]
    /\ lockq' = Append(lockq, Reply)
    /\ toClient' = Tail(toClient)
    /\ UNCHANGED <<process, calls, pending, future, toServer, asked, faults>>

WriteReply ==
    /\ reader = "replying"
    /\ HoldsLock(Reply)
    /\ reader' = "reading"
    /\ pc' = [pc EXCEPT ![Reply] = "idle"]
    /\ lockq' = Tail(lockq)
    /\ UNCHANGED <<process, calls, pending, future, pipes, faults>>

\* The loop ends: the stream is closed or malformed, or the reply cannot be
\* written.
LoopEnds ==
    /\ \/ reader = "reading" /\ toClient = <<>> /\ process # "running"
       \/ Reading("garbage")
       \/ reader = "replying" /\ HoldsLock(Reply) /\ ~PipeOpen
    /\ reader' = "over"
    /\ future' = Failing(pending)
    /\ pending' = {}
    /\ pc' = [pc EXCEPT ![Reply] = "over"]
    /\ lockq' = Leave(Reply)
    /\ toClient' = <<>>
    /\ UNCHANGED <<process, calls, toServer, asked, faults>>

-----------------------------------------------------------------------------
(* The server.  What it sends when the reader is gone, nobody reads. *)

Send(m) == toClient' = IF reader = "over" THEN toClient ELSE Append(toClient, m)

\* Answers come in any order.
Respond(r) ==
    /\ process = "running"
    /\ r \in toServer
    /\ toServer' = toServer \ {r}
    /\ Send(Response(r))
    /\ UNCHANGED <<process, reader, lockq, pc, calls, pending, future, asked,
                   faults>>

Ask(n) ==
    /\ process = "running"
    /\ n \in AskIds \ asked
    /\ asked' = asked \cup {n}
    /\ Send(Asking(n))
    /\ UNCHANGED <<process, reader, lockq, pc, calls, pending, future, toServer,
                   faults>>

Garble ==
    /\ process = "running"
    /\ faults < MaxFaults
    /\ faults' = faults + 1
    /\ Send(Garbage)
    /\ UNCHANGED <<process, reader, lockq, pc, calls, pending, future, toServer,
                   asked>>

Die ==
    /\ process = "running"
    /\ faults < MaxFaults
    /\ faults' = faults + 1
    /\ process' = "dead"
    /\ toServer' = {}
    /\ UNCHANGED <<reader, lockq, pc, calls, pending, future, toClient, asked>>

-----------------------------------------------------------------------------
Init ==
    /\ process = "running"
    /\ reader = "reading"
    /\ lockq = <<>>
    /\ pc = [s \in Senders |-> "idle"]
    /\ id = [r \in Callers |-> 0]
    /\ nextId = 1
    /\ pending = {}
    /\ future = [r \in Callers |-> None]
    /\ answer = [r \in Callers |-> None]
    /\ toServer = {} /\ toClient = <<>> /\ asked = {}
    /\ faults = 0

CallerStep(r) ==
    WriteRequest(r) \/ Drained(r) \/ Return(r) \/ WriteFails(r) \/ TimeOut(r)

ReaderStep ==
    RouteResponse \/ RouteCollidingAsk \/ RouteAsk \/ WriteReply \/ LoopEnds

ShutdownStep == SendExit \/ FailPending \/ Close

Next ==
    \/ \E r \in Requests : Request(r)
    \/ \E r \in Callers : CallerStep(r)
    \/ Shutdown \/ ShutdownStep
    \/ ReaderStep
    \/ Garble \/ Die
    \/ \E r \in toServer : Respond(r)
    \/ \E n \in AskIds : Ask(n)

Spec == Init /\ [][Next]_vars

\* The event loop serves every task, and every request has a time-out; nothing
\* is asked of the server.
FairSpec ==
    /\ Spec
    /\ \A r \in Callers : WF_vars(CallerStep(r))
    /\ WF_vars(ReaderStep)
    /\ WF_vars(ShutdownStep)

-----------------------------------------------------------------------------
(* Properties *)

Messages == [kind : {"response"}, id : Nat, of : Callers] \cup {Asking(n) : n \in AskIds}
Answers == Messages \cup {Error}

ASSUME NoneAssumption == None \notin Answers

\* Every variable holds a value of its type, and a sender queues at most once.
TypeOK ==
    /\ process \in {"running", "dead", "none"}
    /\ reader \in {"reading", "replying", "over"}
    /\ lockq \in Seq(Senders)
    /\ IsInjective(lockq)
    /\ pc \in [Senders -> {"idle", "queued", "draining", "waiting", "closing", "over"}]
    /\ id \in [Callers -> Nat]
    /\ nextId \in Nat
    /\ pending \subseteq Callers
    /\ future \in [Callers -> Answers \cup {None}]
    /\ answer \in [Callers -> Answers \cup {None}]
    /\ toClient \in Seq(Messages \cup {Garbage})
    /\ toServer \subseteq Callers /\ asked \subseteq AskIds
    /\ faults \in 0..MaxFaults

\* A response goes to the request it answers, and to no other one: a late one,
\* after the request timed out, is dropped.
ResponseIsOwn ==
    \A r \in Callers :
        answer[r] # None /\ answer[r].kind = "response" => answer[r].of = r

\* _pending holds the requests that still wait for something, no request that
\* is over; and one that waits for an unresolved future is in the table, where
\* the reader or the shutdown finds it.
PendingIsAwaited ==
    /\ \A r \in pending : pc[r] \in {"queued", "draining", "waiting"} /\ future[r] = None
    /\ \A r \in Callers : pc[r] = "waiting" /\ future[r] = None => r \in pending

\* The write lock comes round: every request ends, the shutdown ends, and the
\* reader gets to write its reply, whoever times out or finds the pipe closed.
EverySenderEnds ==
    /\ \A r \in Callers : pc[r] = "queued" ~> pc[r] = "over"
    /\ pc[Bye] = "queued" ~> pc[Exit] = "over"
    /\ reader = "replying" ~> reader # "replying"

\* _route_message, lsp_client.py:230: "Server-initiated request: has both id and
\* method.  Respond with empty result."  No call gets a request of the server
\* for its response.  The code hands it over when the ids coincide.
AskIsNoAnswer == \A r \in Callers : answer[r] # None => answer[r].kind # "ask"
=============================================================================
