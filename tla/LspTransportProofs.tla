-------------------------- MODULE LspTransportProofs --------------------------
(***************************************************************************)
(* Proofs about LspTransport, for every set of requests, every choice of   *)
(* the server's ids and any number of faults.                              *)
(***************************************************************************)
EXTENDS LspTransport, ListProofs

-----------------------------------------------------------------------------
(* Type correctness.  That nobody queues twice needs to know who queues:    *)
(* a caller that has not written its request to the end, the "exit"         *)
(* notification, and the reader while it replies.                           *)

Waits(s) ==
    \/ s \in Callers /\ pc[s] \in {"queued", "draining"}
    \/ s = Exit /\ pc[Exit] = "queued"
    \/ s = Reply /\ reader = "replying"

QueueInv == \A s \in Senders : s \in Range(lockq) => Waits(s)

TypeInv == TypeOK /\ QueueInv

LEMMA Kinds ==
    /\ Bye \in Callers /\ Exit \notin Callers /\ Reply \notin Callers
    /\ Exit # Reply
    /\ Callers \subseteq Senders /\ Exit \in Senders /\ Reply \in Senders
BY ConstantsAssumption DEF Callers, Senders

LEMMA InitType == Init => TypeInv
<1> SUFFICES ASSUME Init PROVE TypeInv
    OBVIOUS
<1>1. Range(lockq) = {} /\ IsInjective(lockq)
    BY DEF Init, Range, IsInjective
<1>2. QED
    BY <1>1, ConstantsAssumption DEF Init, TypeInv, TypeOK, QueueInv

\* A step that leaves the queue alone, where nobody in it stops to wait.
LEMMA QueueStays ==
    ASSUME TypeInv, UNCHANGED lockq, \A s \in Senders : Waits(s) => Waits(s)'
    PROVE  QueueInv'
BY DEF TypeInv, QueueInv

\* A sender that did not wait joins.
LEMMA QueueJoined ==
    ASSUME TypeInv, NEW s \in Senders, ~Waits(s), lockq' = Append(lockq, s),
           \A u \in Senders : Waits(u) \/ u = s => Waits(u)'
    PROVE  /\ lockq' \in Seq(Senders) /\ IsInjective(lockq')
           /\ QueueInv'
<1>1. lockq \in Seq(Senders) /\ IsInjective(lockq) /\ s \notin Range(lockq)
    BY DEF TypeInv, TypeOK, QueueInv
<1>2. QED
    BY <1>1, JoinQueue DEF TypeInv, QueueInv

\* The holder of the lock releases it.
LEMMA QueueReleased ==
    ASSUME TypeInv, NEW s \in Senders, HoldsLock(s), lockq' = Tail(lockq),
           \A u \in Senders \ {s} : Waits(u) => Waits(u)'
    PROVE  /\ lockq' \in Seq(Senders) /\ IsInjective(lockq')
           /\ QueueInv' /\ Waits(s)
<1>1. lockq \in Seq(Senders) /\ IsInjective(lockq) /\ lockq # <<>> /\ Head(lockq) = s
    BY DEF TypeInv, TypeOK, HoldsLock
<1>2. QED
    BY <1>1, ReleaseQueue DEF TypeInv, QueueInv

\* A sender leaves the queue, if it is in it.
LEMMA QueueLeft ==
    ASSUME TypeInv, NEW s \in Senders, lockq' = Leave(s),
           \A u \in Senders \ {s} : Waits(u) => Waits(u)'
    PROVE  /\ lockq' \in Seq(Senders) /\ IsInjective(lockq')
           /\ QueueInv'
<1>1. lockq \in Seq(Senders) /\ IsInjective(lockq)
    BY DEF TypeInv, TypeOK
<1>2. QED
    BY <1>1, LeaveQueue DEF TypeInv, QueueInv, Leave

\* What is left of the messages when one was read or sent.
LEMMA MessageRead ==
    ASSUME TypeOK, toClient # <<>>
    PROVE  /\ Next1 \in Messages \cup {Garbage}
           /\ Tail(toClient) \in Seq(Messages \cup {Garbage})
BY HeadTailProperties DEF TypeOK, Next1

LEMMA MessageSent ==
    ASSUME TypeOK, NEW m \in Messages \cup {Garbage}, Send(m)
    PROVE  toClient' \in Seq(Messages \cup {Garbage})
BY AppendProperties DEF TypeOK, Send

LEMMA FailingType ==
    ASSUME TypeOK, NEW rs
    PROVE  Failing(rs) \in [Callers -> Answers \cup {None}]
BY DEF TypeOK, Failing, Answers

\* The callers' and the shutdown's steps.
LEMMA SenderType ==
    ASSUME TypeInv,
           \/ \E r \in Requests : Request(r)
           \/ \E r \in Callers : CallerStep(r)
           \/ Shutdown \/ ShutdownStep
    PROVE  TypeInv'
<1> USE Kinds DEF Waits, calls, pipes
<1> USE DEF TypeInv, TypeOK
<1>1. ASSUME NEW r \in Callers, pc[r] = "idle", 
             id' = [id EXCEPT ![r] = nextId], nextId' = nextId + 1,
             pending' = pending \cup {r}, pc' = [pc EXCEPT ![r] = "queued"],
             lockq' = Append(lockq, r),
             UNCHANGED <<process, reader, future, answer, pipes, faults>>
      PROVE  TypeInv'
  <2>1. lockq' \in Seq(Senders) /\ IsInjective(lockq') /\ QueueInv'
      BY <1>1, QueueJoined
  <2>2. QED  BY <1>1, <2>1 
<1>2. ASSUME NEW r \in Callers, WriteRequest(r)
      PROVE  TypeInv'
  <2>1. QueueInv'
      BY <1>2, QueueStays DEF WriteRequest
  <2>2. QED  BY <1>2, <2>1 DEF WriteRequest
<1>3. ASSUME NEW r \in Callers, Drained(r)
      PROVE  TypeInv'
  <2>1. lockq' \in Seq(Senders) /\ IsInjective(lockq') /\ QueueInv'
      BY <1>3, QueueReleased DEF Drained
  <2>2. QED  BY <1>3, <2>1 DEF Drained
<1>4. ASSUME NEW r \in Callers, Return(r)
      PROVE  TypeInv'
  <2>1. QueueInv'
      BY <1>4, QueueStays DEF Return
  <2>2. QED  BY <1>4, <2>1 DEF Return
<1>5. ASSUME NEW r \in Callers, GiveUp(r),
             UNCHANGED <<process, reader, calls, pipes, faults>>
      PROVE  TypeInv'
  <2>1. lockq' \in Seq(Senders) /\ IsInjective(lockq') /\ QueueInv'
      BY <1>5, QueueLeft DEF GiveUp
  <2>2. QED  BY <1>5, <2>1 DEF GiveUp
<1>6. CASE SendExit
  <2>1. lockq' \in Seq(Senders) /\ IsInjective(lockq') /\ QueueInv'
      BY <1>6, QueueJoined DEF SendExit
  <2>2. QED  BY <1>6, <2>1 DEF SendExit
<1>7. CASE FailPending
  <2>1. lockq' \in Seq(Senders) /\ IsInjective(lockq') /\ QueueInv'
      BY <1>7, QueueReleased DEF FailPending
  <2>2. future' \in [Callers -> Answers \cup {None}]
      BY <1>7, FailingType DEF FailPending
  <2>3. /\ pc' \in [Senders -> {"idle", "queued", "draining", "waiting", "closing", "over"}]
        /\ pending' = {}
        /\ UNCHANGED <<process, reader, calls, pipes, faults>>
      BY <1>7 DEF FailPending
  <2>4. QED  BY <2>1, <2>2, <2>3
<1>8. CASE Close
  <2>1. lockq' \in Seq(Senders) /\ IsInjective(lockq') /\ QueueInv'
      BY <1>8, QueueLeft DEF Close
  <2>2. toClient' \in Seq(Messages \cup {Garbage})
      BY <1>8, EmptySeq DEF Close
  <2>3. pc' \in [Senders -> {"idle", "queued", "draining", "waiting", "closing", "over"}]
      BY <1>8 DEF Close
  <2>4. /\ process' = "none" /\ reader' = "over" /\ toServer' = {}
        /\ UNCHANGED <<calls, pending, future, asked, faults>>
      BY <1>8 DEF Close
  <2>5. QED  BY <2>1, <2>2, <2>3, <2>4
<1>9. QED
    BY <1>1, <1>2, <1>3, <1>4, <1>5, <1>6, <1>7, <1>8
    DEF Request, CallerStep, WriteFails, TimeOut, Shutdown, ShutdownStep, Callers

\* The reader's steps.
LEMMA ReaderType ==
    ASSUME TypeInv, ReaderStep
    PROVE  TypeInv'
<1> USE Kinds DEF Waits, calls, pipes, TypeInv, TypeOK
<1>1. ASSUME Next1 \in Messages, toClient # <<>>, Resolve
      PROVE  TypeInv'
  <2>1. QueueInv'
      BY <1>1, QueueStays DEF Resolve
  <2>2. toClient' \in Seq(Messages \cup {Garbage})
      BY <1>1, MessageRead DEF Resolve
  <2>3. QED  BY <1>1, <2>1, <2>2 DEF Resolve, Answers
<1>2. CASE RouteResponse \/ RouteCollidingAsk
  <2>1. toClient # <<>> /\ Next1.kind # "garbage" /\ Resolve
      BY <1>2 DEF RouteResponse, RouteCollidingAsk, Reading
  <2>2. QED  BY <1>1, <2>1, MessageRead DEF Garbage
<1>3. CASE RouteAsk
  <2>1. lockq' \in Seq(Senders) /\ IsInjective(lockq') /\ QueueInv'
      BY <1>3, QueueJoined DEF RouteAsk, Reading
  <2>2. toClient' \in Seq(Messages \cup {Garbage})
      BY <1>3, MessageRead DEF RouteAsk, Reading
  <2>3. QED  BY <1>3, <2>1, <2>2 DEF RouteAsk
<1>4. CASE WriteReply
  <2>1. lockq' \in Seq(Senders) /\ IsInjective(lockq') /\ QueueInv'
      BY <1>4, QueueReleased DEF WriteReply
  <2>2. QED  BY <1>4, <2>1 DEF WriteReply
<1>5. CASE LoopEnds
  <2>1. lockq' \in Seq(Senders) /\ IsInjective(lockq') /\ QueueInv'
      BY <1>5, QueueLeft DEF LoopEnds
  <2>2. future' \in [Callers -> Answers \cup {None}]
      BY <1>5, FailingType DEF LoopEnds
  <2>3. toClient' \in Seq(Messages \cup {Garbage})
      BY <1>5, EmptySeq DEF LoopEnds
  <2>4. QED  BY <1>5, <2>1, <2>2, <2>3 DEF LoopEnds
<1>6. QED  BY <1>2, <1>3, <1>4, <1>5 DEF ReaderStep

\* The server's steps.
LEMMA ServerType ==
    ASSUME TypeInv,
           \/ Garble \/ Die
           \/ \E r \in toServer : Respond(r)
           \/ \E n \in AskIds : Ask(n)
    PROVE  TypeInv'
<1> USE DEF Waits, calls, pipes, TypeInv, TypeOK
<1>1. QueueInv'
    BY QueueStays DEF Garble, Die, Respond, Ask
<1>2. toClient' \in Seq(Messages \cup {Garbage})
  <2>1. ASSUME NEW r \in toServer, Respond(r)
        PROVE  toClient' \in Seq(Messages \cup {Garbage})
      BY <2>1, MessageSent DEF Respond, Response, Messages
  <2>2. ASSUME NEW n \in AskIds, Ask(n)
        PROVE  toClient' \in Seq(Messages \cup {Garbage})
      BY <2>2, MessageSent DEF Ask, Messages
  <2>3. CASE Garble
      BY <2>3, MessageSent DEF Garble
  <2>4. QED  BY <2>1, <2>2, <2>3 DEF Die
<1>3. CASE Garble \/ Die
  <2>1. faults' \in 0..MaxFaults
      BY <1>3, ConstantsAssumption DEF Garble, Die
  <2>2. toServer' \subseteq Callers /\ process' \in {"running", "dead", "none"}
      BY <1>3 DEF Garble, Die
  <2>3. UNCHANGED <<reader, lockq, pc, calls, pending, future, asked>>
      BY <1>3 DEF Garble, Die
  <2>4. QED  BY <1>1, <1>2, <2>1, <2>2, <2>3
<1>4. CASE \E r \in toServer : Respond(r)
    BY <1>1, <1>2, <1>4 DEF Respond
<1>5. CASE \E n \in AskIds : Ask(n)
    BY <1>1, <1>2, <1>5 DEF Ask
<1>6. QED  BY <1>3, <1>4, <1>5

LEMMA TypeStep == TypeInv /\ [Next]_vars => TypeInv'
<1> SUFFICES ASSUME TypeInv, [Next]_vars  PROVE TypeInv'
    OBVIOUS
<1>1. CASE Next
    BY <1>1, SenderType, ReaderType, ServerType DEF Next
<1>2. CASE UNCHANGED vars
    BY <1>2 DEF vars, calls, pipes, TypeInv, TypeOK, QueueInv, Waits
<1>3. QED  BY <1>1, <1>2

LEMMA TypeInvariance == Spec => []TypeInv
BY InitType, TypeStep, PTL DEF Spec

\* Every variable keeps its type, and no sender is twice in the queue for the
\* write lock: the reader replies once at a time, and whoever gives up leaves.
THEOREM TypeCorrect == Spec => []TypeOK
<1>1. TypeInv => TypeOK
    BY DEF TypeInv
<1>2. QED  BY <1>1, TypeInvariance, PTL

-----------------------------------------------------------------------------
(* The inductive invariant.                                                 *)

\* The requests that were made have ids of their own.
IdInv ==
    \A r \in Callers : pc[r] # "idle" =>
        /\ id[r] < nextId
        /\ \A s \in Callers : pc[s] # "idle" /\ id[r] = id[s] => r = s

\* Every response, on its way or handed over, is for the request it names: it
\* has the id of that request, and the future of that request holds it.
ResponseInv ==
    /\ \A r \in toServer : pc[r] # "idle"
    /\ \A i \in 1..Len(toClient) : toClient[i].kind = "response" =>
           /\ pc[toClient[i].of] # "idle"
           /\ toClient[i].id = id[toClient[i].of]
    /\ \A r \in Callers :
           future[r] # None /\ future[r].kind = "response" => future[r].of = r
    /\ ResponseIsOwn

\* The table of pending requests, the futures and what the callers do agree.
WaitInv ==
    \A r \in Callers :
        /\ pc[r] # "closing"
        /\ r \in pending <=> pc[r] \in {"queued", "draining", "waiting"} /\ future[r] = None
        /\ pc[r] \in {"idle", "over"} => future[r] = None

IInv == TypeInv /\ IdInv /\ ResponseInv /\ WaitInv

LEMMA IInvInit == Init => IInv
BY InitType, Kinds DEF Init, IInv, IdInv, ResponseInv, ResponseIsOwn, WaitInv

\* What makes a future out of a message that is read.
LEMMA Resolved ==
    ASSUME IInv, toClient # <<>>, Resolve, Next1 \in Messages
    PROVE  /\ \A r \in Callers : r \in pending /\ id[r] = Next1.id =>
                  future'[r] = Next1 /\ Next1 # None
           /\ \A r \in Callers : ~(r \in pending /\ id[r] = Next1.id) =>
                  future'[r] = future[r]
           /\ Next1.kind = "response" =>
                  \A r \in pending : id[r] = Next1.id => Next1.of = r
<1> USE DEF IInv, TypeInv, TypeOK
<1>1. Next1 # None
    BY NoneAssumption DEF Answers
<1>2. 1 \in 1..Len(toClient) /\ Next1 = toClient[1]
    BY HeadTailProperties, EmptySeq DEF Next1
<1>3. Next1.kind = "response" => Next1.of \in Callers
    BY DEF Messages, Asking
<1>4. Next1.kind = "response" => \A r \in pending : id[r] = Next1.id => Next1.of = r
  <2>1. Next1.kind = "response" => pc[Next1.of] # "idle" /\ Next1.id = id[Next1.of]
      BY <1>2 DEF ResponseInv
  <2>2. \A r \in pending : r \in Callers /\ pc[r] # "idle"
      BY DEF WaitInv
  <2>3. QED  BY <1>3, <2>1, <2>2 DEF IdInv
<1>5. \A r \in pending : future[r] = None
    BY DEF WaitInv
<1>6. QED
    BY <1>1, <1>4, <1>5 DEF Resolve, AwaitedBy

LEMMA IdStep ==
    ASSUME IInv, Next
    PROVE  IdInv'
<1> USE Kinds DEF IInv, TypeInv, TypeOK, IdInv, calls, pipes
<1>1. ASSUME NEW r \in Callers, pc[r] = "idle",
             id' = [id EXCEPT ![r] = nextId], nextId' = nextId + 1,
             pc' = [pc EXCEPT ![r] = "queued"]
      PROVE  IdInv'
    BY <1>1
<1>2. CASE \/ \E r \in Requests : Request(r)
           \/ Shutdown
    BY <1>1, <1>2 DEF Request, Shutdown, Callers
<1>3. ASSUME UNCHANGED <<id, nextId>>,
             \A r \in Callers : pc'[r] # "idle" => pc[r] # "idle"
      PROVE  IdInv'
    BY <1>3
<1>4. CASE \E r \in Callers : CallerStep(r)
    BY <1>3, <1>4 DEF CallerStep, WriteRequest, Drained, Return, WriteFails, TimeOut, GiveUp
<1>5. CASE ShutdownStep
    BY <1>3, <1>5 DEF ShutdownStep, SendExit, FailPending, Close
<1>6. CASE ReaderStep
    BY <1>3, <1>6
    DEF ReaderStep, RouteResponse, RouteCollidingAsk, RouteAsk, WriteReply, LoopEnds, Resolve
<1>7. CASE \/ Garble \/ Die
           \/ \E r \in toServer : Respond(r)
           \/ \E n \in AskIds : Ask(n)
    BY <1>3, <1>7 DEF Garble, Die, Respond, Ask
<1>8. QED  BY <1>2, <1>4, <1>5, <1>6, <1>7 DEF Next

\* A request that was made keeps its id.
LEMMA Made ==
    ASSUME IInv, Next, NEW r \in Callers, pc[r] # "idle"
    PROVE  pc'[r] # "idle" /\ id'[r] = id[r]
<1> USE Kinds DEF IInv, TypeInv, TypeOK, calls, pipes
<1>1. CASE \/ \E q \in Requests : Request(q)
           \/ Shutdown
    BY <1>1 DEF Request, Shutdown, Callers
<1>2. CASE \E q \in Callers : CallerStep(q)
    BY <1>2 DEF CallerStep, WriteRequest, Drained, Return, WriteFails, TimeOut, GiveUp
<1>3. CASE ShutdownStep
    BY <1>3 DEF ShutdownStep, SendExit, FailPending, Close
<1>4. CASE ReaderStep
    BY <1>4
    DEF ReaderStep, RouteResponse, RouteCollidingAsk, RouteAsk, WriteReply, LoopEnds, Resolve
<1>5. CASE \/ Garble \/ Die
           \/ \E q \in toServer : Respond(q)
           \/ \E n \in AskIds : Ask(n)
    BY <1>5 DEF Garble, Die, Respond, Ask
<1>6. QED  BY <1>1, <1>2, <1>3, <1>4, <1>5 DEF Next

\* A message on its way is an old one, or the one that is sent in this step.
IsResponse(m) == m.kind = "response"

LEMMA MessageOf ==
    ASSUME IInv, Next, NEW i \in 1..Len(toClient'), IsResponse(toClient'[i])
    PROVE  \/ \E j \in 1..Len(toClient) : toClient'[i] = toClient[j]
           \/ \E r \in toServer : toClient'[i] = Response(r)
<1> USE DEF calls, pipes
<1>1. toClient \in Seq(Messages \cup {Garbage})
    BY DEF IInv, TypeInv, TypeOK
<1>2. CASE toClient' = toClient \/ toClient' = <<>>
    BY <1>2
<1>3. CASE toClient # <<>> /\ toClient' = Tail(toClient)
    BY <1>1, <1>3, HeadTailProperties
<1>4. ASSUME NEW m \in Messages \cup {Garbage}, Send(m),
             IsResponse(m) => \E r \in toServer : m = Response(r)
      PROVE  \/ \E j \in 1..Len(toClient) : toClient'[i] = toClient[j]
             \/ \E r \in toServer : toClient'[i] = Response(r)
    BY <1>1, <1>4, AppendProperties DEF Send
<1>5. CASE \E r \in toServer : Respond(r)
    BY <1>4, <1>5 DEF Respond, Response, Messages, IInv, TypeInv, TypeOK
<1>6. CASE \E n \in AskIds : Ask(n)
    BY <1>4, <1>6 DEF Ask, Asking, Messages, IsResponse
<1>7. CASE Garble
    BY <1>4, <1>7 DEF Garble, Garbage, IsResponse
<1>8. CASE \/ \E r \in Requests : Request(r)
           \/ \E r \in Callers : CallerStep(r)
           \/ Shutdown \/ ShutdownStep \/ Die
    BY <1>2, <1>8
    DEF Request, CallerStep, WriteRequest, Drained, Return, WriteFails, TimeOut,
        Shutdown, ShutdownStep, SendExit, FailPending, Close, Die
<1>9. CASE ReaderStep
    BY <1>2, <1>3, <1>9
    DEF ReaderStep, RouteResponse, RouteCollidingAsk, RouteAsk, WriteReply, LoopEnds,
        Resolve, Reading
<1>10. QED  BY <1>5, <1>6, <1>7, <1>8, <1>9 DEF Next

\* What the callers are given.
LEMMA FutureStep ==
    ASSUME IInv, Next, NEW r \in Callers, future'[r] # None
    PROVE  \/ future'[r] = future[r]
           \/ future'[r] = Error
           \/ /\ toClient # <<>> /\ Resolve
              /\ future'[r] = Next1
              /\ Next1.kind = "response" => Next1.of = r
<1> USE DEF calls, pipes, IInv, TypeInv, TypeOK
<1>1. CASE RouteResponse \/ RouteCollidingAsk
  <2>1. toClient # <<>> /\ Next1.kind # "garbage" /\ Resolve
      BY <1>1 DEF RouteResponse, RouteCollidingAsk, Reading
  <2>2. Next1 \in Messages
      BY <2>1, MessageRead DEF Garbage
  <2>3. QED  BY <2>1, <2>2, Resolved
<1>2. CASE RouteAsk \/ WriteReply
    BY <1>2 DEF RouteAsk, WriteReply
<1>3. CASE LoopEnds \/ FailPending
    BY <1>3 DEF LoopEnds, FailPending, Failing
<1>4. CASE \/ \E q \in Requests : Request(q)
           \/ \E q \in Callers : CallerStep(q)
           \/ Shutdown \/ SendExit \/ Close
    BY <1>4
    DEF Request, CallerStep, WriteRequest, Drained, Return, WriteFails, TimeOut,
        GiveUp, Shutdown, SendExit, Close
<1>5. CASE \/ Garble \/ Die
           \/ \E q \in toServer : Respond(q)
           \/ \E n \in AskIds : Ask(n)
    BY <1>5 DEF Garble, Die, Respond, Ask
<1>6. QED  BY <1>1, <1>2, <1>3, <1>4, <1>5 DEF Next, ReaderStep, ShutdownStep

LEMMA AnswerStep ==
    ASSUME IInv, Next, NEW r \in Callers
    PROVE  answer'[r] = answer[r] \/ answer'[r] = future[r]
<1> USE DEF calls, pipes, IInv, TypeInv, TypeOK
<1>1. CASE \E q \in Callers : Return(q)
    BY <1>1 DEF Return
<1>2. CASE UNCHANGED answer
    BY <1>2
<1>3. QED
    BY <1>1, <1>2
    DEF Next, Request, CallerStep, WriteRequest, Drained, WriteFails, TimeOut,
        Shutdown, ShutdownStep, SendExit, FailPending, Close, ReaderStep,
        RouteResponse, RouteCollidingAsk, RouteAsk, WriteReply, LoopEnds, Resolve,
        Garble, Die, Respond, Ask

LEMMA ServerStep ==
    ASSUME IInv, Next
    PROVE  \A r \in toServer' : r \in toServer \/ (r \in Callers /\ pc[r] = "queued")
BY DEF Next, Request, CallerStep, WriteRequest, Drained, Return, WriteFails, TimeOut,
       Shutdown, ShutdownStep, SendExit, FailPending, Close, ReaderStep,
       RouteResponse, RouteCollidingAsk, RouteAsk, WriteReply, LoopEnds, Resolve,
       Garble, Die, Respond, Ask, pipes

LEMMA ResponseStep ==
    ASSUME IInv, Next
    PROVE  ResponseInv'
<1> USE DEF IInv, TypeInv, TypeOK
<1>1. \A r \in toServer' : pc'[r] # "idle"
    BY ServerStep, Made DEF ResponseInv
<1>2. ASSUME NEW i \in 1..Len(toClient'), toClient'[i].kind = "response"
      PROVE  /\ pc'[toClient'[i].of] # "idle"
             /\ toClient'[i].id = id'[toClient'[i].of]
  <2>1. ASSUME NEW r \in toServer, toClient'[i] = Response(r)
        PROVE  /\ pc'[toClient'[i].of] # "idle"
               /\ toClient'[i].id = id'[toClient'[i].of]
    <3>1. r \in Callers /\ pc[r] # "idle"
        BY DEF ResponseInv
    <3>2. QED  BY <2>1, <3>1, Made DEF Response
  <2>2. ASSUME NEW j \in 1..Len(toClient), toClient'[i] = toClient[j]
        PROVE  /\ pc'[toClient'[i].of] # "idle"
               /\ toClient'[i].id = id'[toClient'[i].of]
    <3>1. toClient[j] \in Messages \cup {Garbage}
        BY ElementOfSeq
    <3>2. toClient[j].of \in Callers
        BY <1>2, <2>2, <3>1 DEF Messages, Asking, Garbage
    <3>3. pc[toClient[j].of] # "idle" /\ toClient[j].id = id[toClient[j].of]
        BY <1>2, <2>2 DEF ResponseInv
    <3>4. QED  BY <2>2, <3>2, <3>3, Made
  <2>3. QED  BY <1>2, <2>1, <2>2, MessageOf DEF IsResponse
<1>3. ASSUME NEW r \in Callers, future'[r] # None, future'[r].kind = "response"
      PROVE  future'[r].of = r
  <2>1. CASE future'[r] = future[r]
      BY <1>3, <2>1 DEF ResponseInv
  <2>2. CASE future'[r] = Error
      BY <1>3, <2>2 DEF Error
  <2>3. QED  BY <1>3, <2>1, <2>2, FutureStep
<1>4. ResponseIsOwn'
    BY AnswerStep DEF ResponseInv, ResponseIsOwn
<1>5. QED  BY <1>1, <1>2, <1>3, <1>4 DEF ResponseInv

LEMMA WaitStep ==
    ASSUME IInv, Next
    PROVE  WaitInv'
<1> USE Kinds DEF IInv, TypeInv, TypeOK, WaitInv, calls, pipes
<1>0. Error # None
    BY NoneAssumption DEF Answers
<1>1. ASSUME NEW r \in Callers, pc[r] = "idle",
             pending' = pending \cup {r}, pc' = [pc EXCEPT ![r] = "queued"],
             UNCHANGED future
      PROVE  WaitInv'
    BY <1>1
<1>2. CASE \/ \E r \in Requests : Request(r)
           \/ Shutdown
    BY <1>1, <1>2 DEF Request, Shutdown, Callers
<1>3. ASSUME NEW r \in Callers, CallerStep(r)
      PROVE  WaitInv'
  <2>1. CASE WriteRequest(r)
      BY <2>1 DEF WriteRequest
  <2>2. CASE Drained(r)
      BY <2>2 DEF Drained
  <2>3. CASE Return(r)
      BY <2>3 DEF Return
  <2>4. CASE WriteFails(r) \/ TimeOut(r)
      BY <2>4 DEF WriteFails, TimeOut, GiveUp
  <2>5. QED  BY <1>3, <2>1, <2>2, <2>3, <2>4 DEF CallerStep
<1>4. ASSUME UNCHANGED <<pending, future>>,
             \A r \in Callers : pc'[r] = pc[r]
      PROVE  WaitInv'
    BY <1>4
<1>5. CASE SendExit \/ Close \/ RouteAsk \/ WriteReply
    BY <1>4, <1>5 DEF SendExit, Close, RouteAsk, WriteReply
<1>6. ASSUME future' = Failing(pending), pending' = {},
             \A r \in Callers : pc'[r] = pc[r]
      PROVE  WaitInv'
    BY <1>0, <1>6 DEF Failing
<1>7. CASE FailPending \/ LoopEnds
    BY <1>6, <1>7 DEF FailPending, LoopEnds
<1>8. CASE RouteResponse \/ RouteCollidingAsk
  <2>1. toClient # <<>> /\ Next1.kind # "garbage" /\ Resolve
      BY <1>8 DEF RouteResponse, RouteCollidingAsk, Reading
  <2>2. Next1 \in Messages
      BY <2>1, MessageRead DEF Garbage
  <2>3. /\ \A r \in Callers : r \in AwaitedBy(Next1.id) => future'[r] # None
        /\ \A r \in Callers : r \notin AwaitedBy(Next1.id) => future'[r] = future[r]
      BY <2>1, <2>2, Resolved DEF AwaitedBy
  <2>4. pending' = pending \ AwaitedBy(Next1.id) /\ UNCHANGED pc
      BY <2>1 DEF Resolve
  <2>5. AwaitedBy(Next1.id) \subseteq pending
      BY DEF AwaitedBy
  <2>6. QED  BY <2>3, <2>4, <2>5
<1>9. CASE \/ Garble \/ Die
           \/ \E r \in toServer : Respond(r)
           \/ \E n \in AskIds : Ask(n)
    BY <1>4, <1>9 DEF Garble, Die, Respond, Ask
<1>10. QED
    BY <1>2, <1>3, <1>5, <1>7, <1>8, <1>9 DEF Next, ReaderStep, ShutdownStep

LEMMA Invariance == Spec => []IInv
<1>1. ASSUME IInv, [Next]_vars  PROVE IInv'
  <2>1. CASE Next
      BY <1>1, <2>1, TypeStep, IdStep, ResponseStep, WaitStep DEF IInv
  <2>2. TypeInv'
      BY <1>1, TypeStep DEF IInv
  <2>3. CASE UNCHANGED vars
      BY <1>1, <2>2, <2>3
      DEF vars, calls, pipes, IInv, IdInv, ResponseInv, ResponseIsOwn, WaitInv
  <2>4. QED  BY <1>1, <2>1, <2>3
<1>2. QED  BY IInvInit, <1>1, PTL DEF Spec

\* No call of send_request returns the response to another one, whatever timed
\* out before, in whatever order the answers come.
THEOREM ResponseIsOwnAlways == Spec => []ResponseIsOwn
<1>1. IInv => ResponseIsOwn
    BY DEF IInv, ResponseInv
<1>2. QED  BY <1>1, Invariance, PTL

\* The table of pending requests holds exactly who waits for an unresolved
\* future: the reader, or the shutdown, reaches every one of them.
THEOREM PendingIsAwaitedAlways == Spec => []PendingIsAwaited
<1>1. IInv => PendingIsAwaited
    BY DEF IInv, TypeInv, TypeOK, WaitInv, PendingIsAwaited
<1>2. QED  BY <1>1, Invariance, PTL
=============================================================================
