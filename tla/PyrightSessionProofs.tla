------------------------- MODULE PyrightSessionProofs -------------------------
(***************************************************************************)
(* Proofs about PyrightSession, for any tasks, files and texts and any     *)
(* number of edits, crashes and restarts.                                  *)
(***************************************************************************)
EXTENDS PyrightSession, ListProofs

-----------------------------------------------------------------------------
(* Invariants about the tasks and the server.                               *)

Sending == Queued \cup Written

\* Who queues for the write lock is in the middle of a send, what it sends is
\* known, and only the holder of the lock has written.
QueueInv ==
    /\ \A t \in Tasks : t \in Range(lockq) <=> pc[t] \in Sending
    /\ \A t \in Tasks : pc[t] \in Sending => text[t] \in Texts
    /\ \A t \in Tasks : pc[t] \in Written => HoldsLock(t)
    /\ \A t \in Tasks : pc[t] # "idle" => file[t] \in Files
    /\ \A t \in Tasks : pc[t] \in {"notifying", "notifySent"} => t \in Appliers

\* What the server has not published it was given; a session without a process
\* is empty.
ServerInv ==
    /\ \A f \in dirty : view[f] \in Texts
    /\ server = "absent" => /\ opened = {}
                            /\ \A t \in Tasks : pc[t] \notin Written

TypeInv == TypeOK /\ QueueInv /\ ServerInv

\* What the steps of the tasks must keep of it.
TasksOK ==
    /\ lockq \in Seq(Tasks) /\ IsInjective(lockq) /\ QueueInv
    /\ pc \in [Tasks -> {"idle", "asked", "waiting", "orphaned", "woken"}
                        \cup Queued \cup Written \cup Over]
    /\ text \in [Tasks -> Texts \cup {None}]

-----------------------------------------------------------------------------
(* Invariants about the texts.                                              *)

\* Who reads all of q, and had the texts v before, ends up with s for f.
Arrives(q, v, f, s) ==
    \/ \E i \in 1..Len(q) : /\ q[i].file = f /\ q[i].text = s
                            /\ \A j \in 1..Len(q) : j > i => q[j].file # f
    \/ /\ \A i \in 1..Len(q) : q[i].file # f
       /\ v[f] = s

\* The last text sent for f is s.
Sent(f, s) == Arrives(toServer, view, f, s)

\* A task is going to record the hash of f, or to lose it.
Recording(f) ==
    \E t \in Tasks : file[t] = f /\ pc[t] \in {"changing"} \cup Written

\* The recorded hash is that of the last text sent, and so is, when the pipe is
\* empty, that of the text the server has.
HashInv ==
    Alive =>
        /\ \A f \in opened \ missed : Recording(f) \/ Sent(f, hash[f])
        /\ \A t \in Tasks : pc[t] \in Written /\ file[t] \notin missed =>
                               Sent(file[t], text[t])

\* What is cached, once every publish has arrived, is nothing or what was found
\* in the text the server has.
CacheInv ==
    \A f \in Files \ dirty :
        \E s \in {None, view[f]} : Arrives(toClient, cache, f, s)

IInv == TypeInv /\ HashInv /\ CacheInv /\ WaitsForCause

-----------------------------------------------------------------------------
(* Type correctness.                                                        *)

LEMMA InitType == Init => TypeInv
<1> SUFFICES ASSUME Init PROVE TypeInv
    OBVIOUS
<1>1. Range(lockq) = {} /\ IsInjective(lockq) /\ lockq \in Seq(Tasks)
    BY EmptySeq DEF Init, Range, IsInjective
<1>2. toServer \in Seq(Message) /\ toClient \in Seq(Message)
    BY EmptySeq DEF Init
<1>3. TypeOK
    BY <1>1, <1>2, ConstantsAssumption DEF Init, TypeOK
<1>4. QueueInv /\ ServerInv
    BY <1>1 DEF Init, QueueInv, ServerInv, Sending, Queued, Written
<1>5. QED  BY <1>3, <1>4 DEF TypeInv

\* What a task leaves the queue as before it joins it again.
Released(t, q) ==
    \/ pc[t] \notin Sending /\ q = lockq
    \/ HoldsLock(t) /\ q = Tail(lockq)

LEMMA ReleasedQueue ==
    ASSUME TypeInv, NEW t \in Tasks, NEW q, Released(t, q)
    PROVE  /\ q \in Seq(Tasks) /\ IsInjective(q)
           /\ Range(q) = Range(lockq) \ {t}
           /\ \A u \in Tasks \ {t} : pc[u] \in Written => q # <<>> /\ Head(q) = u
<1>1. lockq \in Seq(Tasks) /\ IsInjective(lockq)
    BY DEF TypeInv, TypeOK
<1>2. CASE pc[t] \notin Sending /\ q = lockq
    BY <1>1, <1>2 DEF TypeInv, QueueInv, HoldsLock
<1>3. CASE HoldsLock(t) /\ q = Tail(lockq)
    BY <1>1, <1>3, ReleaseQueue DEF TypeInv, QueueInv, HoldsLock
<1>4. QED  BY <1>2, <1>3 DEF Released

\* A task goes on to its next send.
LEMMA JoinType ==
    ASSUME TypeInv, NEW t \in Tasks, NEW q, Released(t, q), pc[t] # "idle",
           NEW x \in Queued, NEW s \in Texts, Join(t, x, s, q), UNCHANGED file,
           x = "notifying" => t \in Appliers
    PROVE  /\ TasksOK'
           /\ UNCHANGED result
<1> USE DEF TypeInv, TypeOK, TasksOK, Join
<1>1. /\ q \in Seq(Tasks) /\ IsInjective(q)
      /\ Range(q) = Range(lockq) \ {t}
      /\ \A u \in Tasks \ {t} : pc[u] \in Written => q # <<>> /\ Head(q) = u
    BY ReleasedQueue
<1>2. /\ lockq' \in Seq(Tasks) /\ IsInjective(lockq')
      /\ Range(lockq') = Range(lockq) \cup {t}
      /\ lockq' # <<>> /\ (q # <<>> => Head(lockq') = Head(q))
    BY <1>1, JoinQueue
<1>3. pc'[t] = x /\ text'[t] = s /\ x \in Sending /\ x \notin Written
    BY DEF Sending, Queued, Written
<1>4. \A u \in Tasks \ {t} : pc'[u] = pc[u] /\ text'[u] = text[u]
    OBVIOUS
<1>5. QueueInv'
    BY <1>1, <1>2, <1>3, <1>4 DEF QueueInv, HoldsLock, Queued
<1>6. QED  BY <1>2, <1>5

\* A task is done with sending, or did not send.
LEMMA RestType ==
    ASSUME TypeInv, NEW t \in Tasks, Released(t, lockq'), pc[t] # "idle",
           NEW x \in {"waiting", "orphaned", "woken"} \cup Over,
           pc' = [pc EXCEPT ![t] = x],
           \/ UNCHANGED text
           \/ text' = [text EXCEPT ![t] = None],
           UNCHANGED file
    PROVE  TasksOK'
<1> USE DEF TypeInv, TypeOK, TasksOK
<1>1. /\ lockq' \in Seq(Tasks) /\ IsInjective(lockq')
      /\ Range(lockq') = Range(lockq) \ {t}
      /\ \A u \in Tasks \ {t} : pc[u] \in Written => lockq' # <<>> /\ Head(lockq') = u
    BY ReleasedQueue
<1>2. pc'[t] = x /\ x \notin Sending /\ x \notin {"notifying", "notifySent"} /\ x # "idle"
    BY DEF Sending, Queued, Written, Over
<1>3. \A u \in Tasks \ {t} : pc'[u] = pc[u] /\ text'[u] = text[u]
    OBVIOUS
<1>4. QueueInv'
    BY <1>1, <1>2, <1>3 DEF QueueInv, HoldsLock, Sending
<1>5. QED  BY <1>1, <1>4

\* _refresh_if_changed, and what follows if it has nothing to send.
LEMMA RefreshType ==
    ASSUME TypeInv, NEW t \in Tasks, NEW q, NEW h, Released(t, q), pc[t] # "idle",
           Refresh(t, h, q), UNCHANGED <<disk, cache, file>>
    PROVE  /\ TasksOK'
           /\ hash' \in [Files -> Texts \cup {None}]
           /\ result' \in [Tasks -> Texts \cup {None, Nothing}]
           /\ \A u \in Tasks : pc'[u] \in Written => pc[u] \in Written
<1> USE DEF TypeInv, TypeOK, TasksOK
<1>0. file[t] \in Files /\ disk[file[t]] \in Texts
    BY DEF QueueInv
<1>1. hash' \in [Files -> Texts \cup {None}]
    BY <1>0 DEF Refresh
<1>2. CASE Join(t, "changing", disk[file[t]], q)
  <2>1. \A u \in Tasks : pc'[u] \in Written => pc[u] \in Written
      BY <1>2 DEF Join, Written
  <2>2. QED  BY <1>0, <1>1, <1>2, <2>1, JoinType DEF Queued
<1>3. CASE Await(t, q)
  <2>1. \A u \in Tasks : pc'[u] \in Written => pc[u] \in Written
      BY <1>3 DEF Await, Written
  <2>2. QED  BY <1>1, <1>3, <2>1, RestType DEF Await
<1>4. CASE Answer(t, cache[file[t]], q)
  <2>1. result' \in [Tasks -> Texts \cup {None, Nothing}]
      BY <1>0, <1>4 DEF Answer
  <2>2. \A u \in Tasks : pc'[u] \in Written => pc[u] \in Written
      BY <1>4 DEF Answer, Written
  <2>3. QED  BY <1>1, <1>4, <2>1, <2>2, RestType DEF Answer, Over
<1>5. QED  BY <1>2, <1>3, <1>4 DEF Refresh

LEMMA TaskType ==
    ASSUME TypeInv, NEW t \in Tasks, Step(t) \/ Cancel(t)
    PROVE  TypeInv'
<1> USE DEF TypeInv, TypeOK, TasksOK, tables, pipes, bounds
<1>0. /\ pc[t] # "idle" => file[t] \in Files /\ disk[file[t]] \in Texts
      /\ pc[t] \in Sending => text[t] \in Texts
      /\ \A u \in Tasks : pc[u] \in Written => HoldsLock(u)
      /\ \A u \in Tasks : pc[u] \in {"notifying", "notifySent"} => u \in Appliers
      /\ ~Diagnosing(t) => t \in Appliers
    BY DEF QueueInv, Diagnosing, Tasks
<1>1. CASE BeginOpen(t)
  <2>1. Released(t, lockq)
      BY <1>1 DEF BeginOpen, Released, Sending, Queued, Written
  <2>2. /\ TasksOK' /\ UNCHANGED result
      BY <1>0, <1>1, <2>1, JoinType DEF BeginOpen, Queued
  <2>3. \A u \in Tasks : pc'[u] \in Written => pc[u] \in Written
      BY <1>1 DEF BeginOpen, Join, Written
  <2>4. QED  BY <1>1, <2>2, <2>3 DEF BeginOpen, ServerInv
<1>2. CASE Begin(t)
  <2>1. Released(t, lockq) /\ pc[t] # "idle"
      BY <1>2 DEF Begin, Released, Sending, Queued, Written
  <2>2. CASE Refresh(t, hash[file[t]], lockq)
    <3>1. /\ TasksOK'
          /\ hash' \in [Files -> Texts \cup {None}]
          /\ result' \in [Tasks -> Texts \cup {None, Nothing}]
          /\ \A u \in Tasks : pc'[u] \in Written => pc[u] \in Written
        BY <1>2, <2>1, <2>2, RefreshType DEF Begin
    <3>2. QED  BY <1>2, <3>1 DEF Begin, ServerInv
  <2>3. CASE ~Diagnosing(t) /\ Notify(t, lockq) /\ UNCHANGED hash
    <3>1. /\ TasksOK' /\ UNCHANGED result
        BY <1>0, <1>2, <2>1, <2>3, JoinType DEF Begin, Notify, Queued
    <3>2. \A u \in Tasks : pc'[u] \in Written => pc[u] \in Written
        BY <2>3 DEF Notify, Join, Written
    <3>3. QED  BY <1>2, <2>3, <3>1, <3>2 DEF Begin, ServerInv
  <2>4. QED  BY <1>2, <2>2, <2>3 DEF Begin
<1>3. CASE Write(t)
  <2> DEFINE m == [file |-> file[t], text |-> text[t]]
             x == CASE pc[t] = "opening"   -> "openSent"
                    [] pc[t] = "changing"  -> "changeSent"
                    [] pc[t] = "notifying" -> "notifySent"
  <2>1. m \in Message
      BY <1>0, <1>3 DEF Write, Message, Sending, Queued
  <2>2. toServer' \in Seq(Message)
      BY <1>3, <2>1, AppendProperties DEF Write
  <2>3. x \in Written /\ (x = "notifySent" => t \in Appliers)
      BY <1>0, <1>3 DEF Write, Queued, Written
  <2>4. pc' = [pc EXCEPT ![t] = x] /\ HoldsLock(t) /\ pc[t] \in Queued /\ Alive
      BY <1>3 DEF Write
  <2> HIDE DEF x
  <2>5. \A u \in Tasks : pc[u] \in Written => u = t
      BY <1>0, <2>4 DEF HoldsLock
  <2>6. pc' \in [Tasks -> {"idle", "asked", "waiting", "orphaned", "woken"}
                          \cup Queued \cup Written \cup Over]
      BY <2>3, <2>4
  <2>7. /\ \A u \in Tasks \ {t} : pc'[u] = pc[u]
        /\ pc'[t] = x
        /\ UNCHANGED <<lockq, text, file>>
      BY <1>3, <2>4 DEF Write
  <2>8. QueueInv'
      BY <2>3, <2>4, <2>7 DEF QueueInv, HoldsLock, Sending, Queued, Written
  <2>9. ServerInv'
      BY <1>3, <2>4 DEF Write, ServerInv, Alive
  <2>10. QED  BY <1>3, <2>2, <2>6, <2>8, <2>9 DEF Write
<1>4. CASE Opened(t)
  <2>1. /\ Released(t, Tail(lockq)) /\ pc[t] # "idle" /\ pc[t] \in Sending
        /\ pc[t] \in Written
      BY <1>4 DEF Opened, Released, Sending, Written
  <2>2. server # "absent" /\ opened' \subseteq Files
      BY <1>0, <1>4, <2>1 DEF ServerInv, Opened
  <2>3. CASE Refresh(t, text[t], Tail(lockq))
    <3>1. /\ TasksOK'
          /\ hash' \in [Files -> Texts \cup {None}]
          /\ result' \in [Tasks -> Texts \cup {None, Nothing}]
        BY <1>4, <2>1, <2>3, RefreshType DEF Opened
    <3>2. QED  BY <1>4, <2>2, <3>1 DEF Opened, ServerInv
  <2>4. CASE ~Diagnosing(t) /\ Notify(t, Tail(lockq)) /\ hash' = [hash EXCEPT ![file[t]] = text[t]]
    <3>1. /\ TasksOK' /\ UNCHANGED result
        BY <1>0, <1>4, <2>1, <2>4, JoinType DEF Opened, Notify, Queued
    <3>2. QED  BY <1>0, <1>4, <2>1, <2>2, <2>4, <3>1 DEF Opened, ServerInv
  <2>5. QED  BY <1>4, <2>3, <2>4 DEF Opened
<1>5. CASE Changed(t)
  <2>1. /\ Released(t, Tail(lockq)) /\ pc[t] # "idle" /\ pc[t] \in Sending
      BY <1>5 DEF Changed, Released, Sending, Written
  <2>2. TasksOK'
      BY <1>5, <2>1, RestType DEF Changed, Await
  <2>3. hash' \in [Files -> Texts \cup {None}] /\ cache' \in [Files -> Texts \cup {None}]
      BY <1>0, <1>5, <2>1 DEF Changed
  <2>4. \A u \in Tasks : pc'[u] \in Written => pc[u] \in Written
      BY <1>5 DEF Changed, Await, Written
  <2>5. QED  BY <1>5, <2>2, <2>3, <2>4 DEF Changed, Await, ServerInv
<1>6. CASE Notified(t)
  <2>1. /\ Released(t, Tail(lockq)) /\ pc[t] # "idle" /\ pc[t] \in Sending
        /\ pc[t] \in Written
      BY <1>6 DEF Notified, Released, Sending, Written
  <2>2. server # "absent" /\ notified' \subseteq Appliers
      BY <1>0, <1>6, <2>1 DEF ServerInv, Notified
  <2>3. CASE Refresh(t, text[t], Tail(lockq))
    <3>1. /\ TasksOK'
          /\ hash' \in [Files -> Texts \cup {None}]
          /\ result' \in [Tasks -> Texts \cup {None, Nothing}]
        BY <1>6, <2>1, <2>3, RefreshType DEF Notified
    <3>2. QED  BY <1>6, <2>2, <3>1 DEF Notified, ServerInv
  <2>4. CASE /\ hash' = [hash EXCEPT ![file[t]] = text[t]]
             /\ Join(t, "opening", disk[file[t]], Tail(lockq))
    <3>1. /\ TasksOK' /\ UNCHANGED result
        BY <1>0, <1>6, <2>1, <2>4, JoinType DEF Notified, Queued
    <3>2. QED  BY <1>0, <1>6, <2>1, <2>2, <2>4, <3>1 DEF Notified, ServerInv
  <2>5. QED  BY <1>6, <2>3, <2>4 DEF Notified
<1>7. CASE SendFails(t)
  <2>1. Released(t, lockq') /\ pc[t] # "idle"
      BY <1>7 DEF SendFails, Released, Queued, Written
  <2>2. TasksOK'
      BY <1>7, <2>1, RestType DEF SendFails, Over
  <2>3. \A u \in Tasks : pc'[u] \in Written => pc[u] \in Written
      BY <1>7 DEF SendFails, Written
  <2>4. QED  BY <1>7, <2>2, <2>3 DEF SendFails, ServerInv
<1>8. CASE Wake(t)
  <2>1. Released(t, lockq') /\ pc[t] # "idle"
      BY <1>8 DEF Wake, Answer, Released, Sending, Queued, Written
  <2>2. TasksOK'
      BY <1>8, <2>1, RestType DEF Wake, Answer, Over
  <2>3. \A u \in Tasks : pc'[u] \in Written => pc[u] \in Written
      BY <1>8 DEF Wake, Answer, Written
  <2>4. result' \in [Tasks -> Texts \cup {None, Nothing}]
      BY <1>0, <1>8, <2>1 DEF Wake, Answer
  <2>5. QED  BY <1>8, <2>2, <2>3, <2>4 DEF Wake, ServerInv
<1>9. CASE TimeOut(t)
  <2>1. Released(t, lockq') /\ pc[t] # "idle"
      BY <1>9 DEF TimeOut, Released, Sending, Queued, Written
  <2>2. TasksOK'
      BY <1>9, <2>1, RestType DEF TimeOut, Over
  <2>3. \A u \in Tasks : pc'[u] \in Written => pc[u] \in Written
      BY <1>9 DEF TimeOut, Written
  <2>4. QED  BY <1>9, <2>2, <2>3 DEF TimeOut, ServerInv
<1>10. CASE Cancel(t)
  <2>1. /\ lockq' \in Seq(Tasks) /\ IsInjective(lockq')
        /\ Range(lockq') = Range(lockq) \ {t}
        /\ \A u \in Tasks \ {t} : HoldsLock(u) => HoldsLock(u)'
      BY <1>10, LeaveQueue DEF Cancel, HoldsLock
  <2>2. /\ pc'[t] = "cancelled" /\ \A u \in Tasks \ {t} : pc'[u] = pc[u] /\ text'[u] = text[u]
        /\ pc[t] # "idle"
        /\ UNCHANGED file
      BY <1>10 DEF Cancel, Queued, Written
  <2>3. QueueInv'
      BY <2>1, <2>2 DEF QueueInv, Sending, Queued, Written
  <2>4. missed' \subseteq Files
      BY <1>0, <1>10, <2>2 DEF Cancel
  <2>5. \A u \in Tasks : pc'[u] \in Written => pc[u] \in Written
      BY <2>2 DEF Written
  <2>6. QED  BY <1>10, <2>1, <2>3, <2>4, <2>5 DEF Cancel, ServerInv, Over
<1>11. QED
    BY <1>1, <1>2, <1>3, <1>4, <1>5, <1>6, <1>7, <1>8, <1>9, <1>10 DEF Step

\* The pipes: a message is written at the end and read at the head.
LEMMA PipeTail ==
    ASSUME NEW S, NEW q \in Seq(S), q # <<>>
    PROVE  Head(q) \in S /\ Tail(q) \in Seq(S)
BY HeadTailProperties, EmptySeq

LEMMA CallType ==
    ASSUME TypeInv, NEW t \in Tasks, NEW f \in Files, NEW s \in Texts,
           Ask(t, f) \/ Apply(t, f, s)
    PROVE  TypeInv'
<1>1. /\ pc[t] = "idle" /\ pc' = [pc EXCEPT ![t] = "asked"]
      /\ file' = [file EXCEPT ![t] = f]
      /\ disk' \in {disk, [disk EXCEPT ![f] = s]}
      /\ UNCHANGED <<opened, hash, cache, lockq, server, toServer, toClient, view,
                     dirty, text, result, notified, missed, edits, crashes, clears>>
    BY DEF Ask, Apply, tables, pipes, bounds
<1>2. TypeOK'
    BY <1>1 DEF TypeInv, TypeOK
<1>3. \A u \in Tasks : u # t => pc'[u] = pc[u] /\ file'[u] = file[u]
    BY <1>1 DEF TypeInv, TypeOK
<1>4. pc'[t] = "asked" /\ file'[t] = f
    BY <1>1 DEF TypeInv, TypeOK
<1>5. QueueInv' /\ ServerInv'
    BY <1>1, <1>3, <1>4 DEF TypeInv, QueueInv, ServerInv, HoldsLock, Sending, Queued, Written
<1>6. QED  BY <1>2, <1>5 DEF TypeInv

\* What another program and the server do touches no task.
LEMMA EnvironmentType ==
    ASSUME TypeInv,
           \/ \E f \in Files, s \in Texts : Edit(f, s)
           \/ \E f \in Files : Publish(f)
           \/ Receive \/ Spawn \/ Initialized \/ Crash
    PROVE  TypeInv'
<1> USE DEF TypeInv, TypeOK, tables, pipes, bounds
<1>1. UNCHANGED <<opened, hash, cache, lockq, pc, file, text, result, notified, clears>>
    BY DEF Edit, Publish, Receive, Spawn, Initialized, Crash
<1>2. QueueInv'
    BY <1>1 DEF QueueInv, HoldsLock
<1>3. ASSUME NEW f \in Files, NEW s \in Texts, Edit(f, s) PROVE TypeInv'
  <2>1. edits' \in 0..MaxEdits
      BY <1>3, ConstantsAssumption DEF Edit
  <2>2. disk' \in [Files -> Texts]
      BY <1>3 DEF Edit
  <2>3. QED  BY <1>2, <1>3, <2>1, <2>2 DEF Edit, ServerInv
<1>4. ASSUME NEW f \in Files, Publish(f) PROVE TypeInv'
  <2>1. [file |-> f, text |-> view[f]] \in Message
      BY <1>4 DEF Publish, Message, ServerInv
  <2>2. toClient' \in Seq(Message)
      BY <1>4, <2>1, AppendProperties DEF Publish
  <2>3. QED  BY <1>2, <1>4, <2>2 DEF Publish, ServerInv
<1>5. CASE Receive
  <2>1. Head(toServer) \in Message /\ toServer' \in Seq(Message)
      BY <1>5, PipeTail DEF Receive
  <2>2. Head(toServer).file \in Files /\ Head(toServer).text \in Texts
      BY <2>1 DEF Message
  <2>3. /\ view' \in [Files -> Texts \cup {None}]
        /\ dirty' \subseteq Files /\ missed' \subseteq Files
      BY <1>5, <2>2 DEF Receive
  <2>4. \A f \in dirty' : view'[f] \in Texts
      BY <1>5, <2>2 DEF Receive, ServerInv
  <2>5. QED  BY <1>2, <1>5, <2>1, <2>3, <2>4 DEF Receive, ServerInv, Alive
<1>6. CASE Spawn \/ Initialized
    BY <1>2, <1>6 DEF Spawn, Initialized, ServerInv
<1>7. CASE Crash
  <2>1. crashes' \in 0..MaxCrashes
      BY <1>7, ConstantsAssumption DEF Crash
  <2>2. toServer' \in Seq(Message)
      BY <1>7, EmptySeq DEF Crash
  <2>3. QED  BY <1>2, <1>7, <2>1, <2>2 DEF Crash, ServerInv
<1>8. QED  BY <1>3, <1>4, <1>5, <1>6, <1>7

LEMMA DeliverType == TypeInv /\ Deliver => TypeInv'
<1> SUFFICES ASSUME TypeInv, Deliver PROVE TypeInv'
    OBVIOUS
<1> USE DEF TypeInv, TypeOK, tables, pipes, bounds
<1>1. Head(toClient) \in Message /\ toClient' \in Seq(Message)
    BY PipeTail DEF Deliver
<1>2. Head(toClient).file \in Files /\ Head(toClient).text \in Texts
    BY <1>1 DEF Message
<1>3. cache' \in [Files -> Texts \cup {None}]
    BY <1>2 DEF Deliver
<1>4. \A t \in Tasks : pc'[t] = pc[t] \/ (pc[t] = "waiting" /\ pc'[t] = "woken")
    BY DEF Deliver
<1>5. pc' \in [Tasks -> {"idle", "asked", "waiting", "orphaned", "woken"}
                        \cup Queued \cup Written \cup Over]
    BY <1>4 DEF Deliver
<1>6. QueueInv' /\ ServerInv'
    BY <1>4 DEF Deliver, QueueInv, ServerInv, HoldsLock, Sending, Queued, Written
<1>7. QED  BY <1>1, <1>3, <1>5, <1>6 DEF Deliver

LEMMA RestartType == TypeInv /\ (RestartServer \/ Replace) => TypeInv'
<1> SUFFICES ASSUME TypeInv, RestartServer \/ Replace PROVE TypeInv'
    OBVIOUS
<1> USE DEF TypeInv, TypeOK, tables, pipes, bounds
<1>1. /\ opened' = {} /\ hash' \in [Files -> Texts \cup {None}]
      /\ cache' \in [Files -> Texts \cup {None}]
    BY DEF RestartServer, Replace, ClearTables
<1>2. CASE RestartServer
  <2>1. \A t \in Tasks : pc'[t] = pc[t] \/ (pc[t] = "waiting" /\ pc'[t] = "orphaned")
      BY <1>2 DEF RestartServer, Orphaned
  <2>2. pc' \in [Tasks -> {"idle", "asked", "waiting", "orphaned", "woken"}
                          \cup Queued \cup Written \cup Over]
      BY <1>2, <2>1 DEF RestartServer
  <2>3. clears' \in 0..MaxClears
      BY <1>2, ConstantsAssumption DEF RestartServer
  <2>4. dirty' \subseteq Files /\ \A f \in dirty' : view'[f] \in Texts
      BY <1>2 DEF RestartServer
  <2>5. QueueInv' /\ ServerInv'
      BY <1>2, <2>1, <2>4 DEF RestartServer, QueueInv, ServerInv, HoldsLock, Sending, Queued, Written
  <2>6. QED  BY <1>1, <1>2, <2>2, <2>3, <2>4, <2>5 DEF RestartServer
<1>3. CASE Replace
  <2>1. \A t \in Tasks : \/ pc'[t] = pc[t] /\ pc[t] \notin Sending
                         \/ pc'[t] = "failed" /\ pc[t] \in Sending
                         \/ pc'[t] = "orphaned" /\ pc[t] = "waiting"
      BY <1>3 DEF Replace, AbandonClient, Orphaned, QueueInv
  <2>2. pc' \in [Tasks -> {"idle", "asked", "waiting", "orphaned", "woken"}
                          \cup Queued \cup Written \cup Over]
    <3>1. DOMAIN pc' = Tasks /\ pc' = [t \in Tasks |-> pc'[t]]
        BY <1>3 DEF Replace, AbandonClient
    <3>2. \A t \in Tasks : pc'[t] \in {"idle", "asked", "waiting", "orphaned", "woken"}
                                      \cup Queued \cup Written \cup Over
        BY <2>1 DEF Over
    <3>3. QED  BY <3>1, <3>2
  <2>3. lockq' = <<>> /\ lockq' \in Seq(Tasks) /\ IsInjective(lockq') /\ Range(lockq') = {}
      BY <1>3, EmptySeq DEF Replace, AbandonClient, IsInjective, Range
  <2>4. \A t \in Tasks : pc'[t] \notin Sending
      BY <2>1 DEF Sending, Queued, Written
  <2>5. QueueInv'
      BY <1>3, <2>1, <2>3, <2>4 DEF Replace, QueueInv, Sending, Queued, Written
  <2>6. ServerInv'
      BY <1>1, <1>3, <2>4 DEF Replace, ServerInv, Sending
  <2>7. text' \in [Tasks -> Texts \cup {None}]
      BY <1>3 DEF Replace, AbandonClient
  <2>8. toServer' \in Seq(Message) /\ toClient' \in Seq(Message)
      BY <1>3, EmptySeq DEF Replace
  <2>9. QED  BY <1>1, <1>3, <2>2, <2>3, <2>5, <2>6, <2>7, <2>8 DEF Replace
<1>4. QED  BY <1>2, <1>3

LEMMA TypeStep == TypeInv /\ [Next]_vars => TypeInv'
<1> SUFFICES ASSUME TypeInv, [Next]_vars PROVE TypeInv'
    OBVIOUS
<1>1. CASE \E t \in Tasks : Step(t) \/ Cancel(t)
    BY <1>1, TaskType
<1>2. CASE \E t \in Tasks, f \in Files : Ask(t, f)
  <2>1. Texts # {}
      BY <1>2 DEF TypeInv, TypeOK
  <2>2. QED  BY <1>2, <2>1, CallType
<1>3. CASE \E t \in Tasks, f \in Files, s \in Texts : Apply(t, f, s)
    BY <1>3, CallType
<1>4. CASE \/ \E f \in Files, s \in Texts : Edit(f, s)
           \/ \E f \in Files : Publish(f)
           \/ Receive \/ Spawn \/ Initialized \/ Crash
    BY <1>4, EnvironmentType
<1>5. CASE Deliver
    BY <1>5, DeliverType
<1>6. CASE RestartServer \/ Replace
    BY <1>6, RestartType
<1>7. CASE UNCHANGED vars
    BY <1>7 DEF vars, tables, pipes, bounds, TypeInv, TypeOK, QueueInv, ServerInv, HoldsLock
<1>8. QED  BY <1>1, <1>2, <1>3, <1>4, <1>5, <1>6, <1>7 DEF Next

\* Every variable keeps a value of its type, and a task queues at most once for
\* the write lock, whoever is cancelled, fails or loses its client meanwhile.
THEOREM TypeCorrect == Spec => []TypeOK
<1>1. TypeInv => TypeOK
    BY DEF TypeInv
<1>2. QED  BY InitType, TypeStep, <1>1, PTL DEF Spec

-----------------------------------------------------------------------------
(* What is on its way through a pipe.                                       *)

LEMMA ArrivesEmpty ==
    ASSUME NEW v, NEW f, NEW s
    PROVE  Arrives(<<>>, v, f, s) <=> v[f] = s
BY EmptySeq DEF Arrives

\* The table may change for other files.
LEMMA ArrivesSame ==
    ASSUME NEW q, NEW v, NEW w, NEW f, NEW s, w[f] = v[f], Arrives(q, v, f, s)
    PROVE  Arrives(q, w, f, s)
BY DEF Arrives

\* The last message of a file is the one that arrives.
LEMMA ArrivesAppend ==
    ASSUME NEW S, NEW q \in Seq(S), NEW m \in S, NEW v, NEW f, NEW s,
           IF m.file = f THEN m.text = s ELSE Arrives(q, v, f, s)
    PROVE  Arrives(Append(q, m), v, f, s)
<1>1. /\ Len(q) \in Nat /\ Len(Append(q, m)) = Len(q) + 1
      /\ \A i \in 1..Len(q) : Append(q, m)[i] = q[i]
      /\ Append(q, m)[Len(q) + 1] = m
    BY AppendProperties, LenProperties
<1>2. CASE m.file = f
  <2>1. /\ Len(q) + 1 \in 1..Len(Append(q, m))
        /\ \A j \in 1..Len(Append(q, m)) : ~(j > Len(q) + 1)
      BY <1>1
  <2>2. QED  BY <1>1, <1>2, <2>1 DEF Arrives
<1>3. CASE m.file # f /\ \A i \in 1..Len(q) : q[i].file # f
  <2>1. v[f] = s
      BY <1>3 DEF Arrives
  <2>2. \A i \in 1..Len(Append(q, m)) : Append(q, m)[i].file # f
      BY <1>1, <1>3
  <2>3. QED  BY <2>1, <2>2 DEF Arrives
<1>4. ASSUME m.file # f,
             NEW i \in 1..Len(q), q[i].file = f, q[i].text = s,
             \A j \in 1..Len(q) : j > i => q[j].file # f
      PROVE  Arrives(Append(q, m), v, f, s)
  <2>1. i \in 1..Len(Append(q, m)) /\ Append(q, m)[i] = q[i]
      BY <1>1
  <2>2. \A j \in 1..Len(Append(q, m)) : j > i => Append(q, m)[j].file # f
      BY <1>1, <1>4
  <2>3. QED  BY <1>4, <2>1, <2>2 DEF Arrives
<1>5. QED  BY <1>2, <1>3, <1>4 DEF Arrives

\* The head of the pipe has arrived.
LEMMA ArrivesTail ==
    ASSUME NEW S, NEW q \in Seq(S), q # <<>>, NEW v, NEW w, NEW f, NEW s,
           w[f] = IF Head(q).file = f THEN Head(q).text ELSE v[f],
           Arrives(q, v, f, s)
    PROVE  Arrives(Tail(q), w, f, s)
<1>1. /\ Len(Tail(q)) = Len(q) - 1 /\ Len(q) \in Nat \ {0} /\ Head(q) = q[1]
      /\ \A i \in 1..Len(Tail(q)) : Tail(q)[i] = q[i + 1]
    BY HeadTailProperties, EmptySeq, LenProperties
<1>2. \A i \in 1..Len(Tail(q)) : i + 1 \in 1..Len(q) /\ i + 1 > 1
    BY <1>1
<1>3. CASE \A i \in 1..Len(q) : q[i].file # f
  <2>1. v[f] = s /\ Head(q).file # f
      BY <1>1, <1>3 DEF Arrives
  <2>2. \A i \in 1..Len(Tail(q)) : Tail(q)[i].file # f
      BY <1>1, <1>2, <1>3
  <2>3. QED  BY <2>1, <2>2 DEF Arrives
<1>4. ASSUME NEW i \in 1..Len(q), q[i].file = f, q[i].text = s,
             \A j \in 1..Len(q) : j > i => q[j].file # f
      PROVE  Arrives(Tail(q), w, f, s)
  <2>1. CASE i = 1
    <3>1. w[f] = s
        BY <1>1, <1>4, <2>1
    <3>2. \A j \in 1..Len(Tail(q)) : Tail(q)[j].file # f
        BY <1>1, <1>2, <1>4, <2>1
    <3>3. QED  BY <3>1, <3>2 DEF Arrives
  <2>2. CASE i # 1
    <3>1. i - 1 \in 1..Len(Tail(q)) /\ Tail(q)[i - 1] = q[i]
        BY <1>1, <2>2
    <3>2. \A j \in 1..Len(Tail(q)) : j > i - 1 => Tail(q)[j].file # f
        BY <1>1, <1>2, <1>4
    <3>3. QED  BY <1>4, <3>1, <3>2 DEF Arrives
  <2>3. QED  BY <2>1, <2>2
<1>5. QED  BY <1>3, <1>4 DEF Arrives

\* The table loses its entry.
LEMMA ArrivesCleared ==
    ASSUME NEW q, NEW v, NEW w, NEW f, NEW x, w[f] \in {v[f], None},
           \E s \in {None, x} : Arrives(q, v, f, s)
    PROVE  \E s \in {None, x} : Arrives(q, w, f, s)
BY DEF Arrives

-----------------------------------------------------------------------------
(* The recorded hashes.                                                     *)

\* A task goes on without writing: if it recorded a hash for its file, it is
\* that of what was sent, or the task is going to send what it recorded.
LEMMA HashOfTask ==
    ASSUME TypeInv, HashInv, NEW t \in Tasks, NEW x, x \notin Written,
           pc' = [pc EXCEPT ![t] = x],
           \A u \in Tasks \ {t} : text'[u] = text[u],
           UNCHANGED <<toServer, view, server, file>>,
           missed \subseteq missed', opened' \subseteq opened \cup {file[t]},
           \A f \in Files \ {file[t]} : hash'[f] = hash[f],
           Alive /\ file[t] \in opened' \ missed' =>
               \/ x = "changing"
               \/ Sent(file[t], hash'[file[t]])
               \/ /\ pc[t] \notin {"changing"} \cup Written
                  /\ file[t] \in opened /\ hash'[file[t]] = hash[file[t]]
    PROVE  HashInv'
<1> SUFFICES ASSUME Alive PROVE HashInv'
    BY DEF HashInv, Alive
<1> USE DEF TypeInv, TypeOK
<1>1. pc'[t] = x /\ \A u \in Tasks \ {t} : pc'[u] = pc[u]
    OBVIOUS
<1>2. \A f, s : Sent(f, s) => Sent(f, s)'
    BY DEF Sent, Arrives
<1>3. ASSUME NEW u \in Tasks, pc'[u] \in Written, file'[u] \notin missed'
      PROVE  Sent(file[u], text[u])'
    BY <1>1, <1>2, <1>3 DEF HashInv
<1>4. ASSUME NEW f \in opened' \ missed', f # file[t]
      PROVE  Recording(f)' \/ Sent(f, hash[f])'
  <2>1. f \in Files /\ f \in opened \ missed /\ hash'[f] = hash[f]
      BY <1>4
  <2>2. Recording(f) => Recording(f)'
      BY <1>1, <1>4 DEF Recording
  <2>3. QED  BY <1>2, <2>1, <2>2 DEF HashInv
<1>5. ASSUME NEW f \in opened' \ missed', f = file[t]
      PROVE  Recording(f)' \/ Sent(f, hash[f])'
  <2>1. CASE x = "changing"
      BY <1>1, <1>5, <2>1 DEF Recording
  <2>2. CASE Sent(file[t], hash'[file[t]])
      BY <1>2, <1>5, <2>2
  <2>3. CASE /\ pc[t] \notin {"changing"} \cup Written
             /\ file[t] \in opened /\ hash'[file[t]] = hash[file[t]]
    <3>1. Recording(f) => Recording(f)'
        BY <1>1, <1>5, <2>3 DEF Recording
    <3>2. QED  BY <1>2, <1>5, <2>3, <3>1 DEF HashInv
  <2>4. QED  BY <1>5, <2>1, <2>2, <2>3
<1>6. \A f \in opened' \ missed' : Recording(f)' \/ Sent(f, hash[f])'
    BY <1>4, <1>5
<1>7. QED  BY <1>3, <1>6 DEF HashInv

\* _refresh_if_changed: nothing is sent only if h, the hash it compares with,
\* is that of the text on the disk.
LEMMA HashOfRefresh ==
    ASSUME TypeInv, HashInv, NEW t \in Tasks, NEW h, NEW q, file[t] \in Files,
           Refresh(t, h, q),
           UNCHANGED <<disk, toServer, view, server, file, missed>>,
           opened' \subseteq opened \cup {file[t]},
           Alive /\ file[t] \notin missed =>
               \/ Sent(file[t], h)
               \/ /\ pc[t] \notin {"changing"} \cup Written
                  /\ file[t] \in opened /\ h = hash[file[t]]
    PROVE  HashInv'
<1> USE DEF TypeInv, TypeOK
<1>1. hash'[file[t]] = disk[file[t]] /\ \A f \in Files \ {file[t]} : hash'[f] = hash[f]
    BY DEF Refresh
<1>2. \A u \in Tasks \ {t} : text'[u] = text[u]
    BY DEF Refresh, Join, Await, Answer
<1>3. CASE h # disk[file[t]] /\ Join(t, "changing", disk[file[t]], q)
    BY <1>1, <1>2, <1>3, HashOfTask DEF Join, Written
<1>4. CASE h = disk[file[t]] /\ (Await(t, q) \/ Answer(t, cache[file[t]], q))
  <2>1. \E x \in {"waiting", "done"} : pc' = [pc EXCEPT ![t] = x]
      BY <1>4 DEF Await, Answer
  <2>2. \A x \in {"waiting", "done"} : x \notin Written
      BY DEF Written
  <2>3. QED  BY <1>1, <1>2, <1>4, <2>1, <2>2, HashOfTask
<1>5. QED  BY <1>3, <1>4 DEF Refresh

LEMMA HashOfStep ==
    ASSUME TypeInv, HashInv, NEW t \in Tasks, Step(t) \/ Cancel(t)
    PROVE  HashInv'
<1> USE DEF TypeInv, TypeOK, tables, pipes, bounds
<1>0. /\ pc[t] # "idle" => file[t] \in Files
      /\ \A u \in Tasks : pc[u] \in Written => HoldsLock(u)
    BY DEF QueueInv
<1>1. CASE BeginOpen(t)
    BY <1>1, HashOfTask DEF BeginOpen, Join, Written
<1>2. CASE Begin(t)
  <2>1. pc[t] = "asked" /\ file[t] \in opened /\ pc[t] \notin {"changing"} \cup Written
      BY <1>2 DEF Begin, Written
  <2>2. CASE Refresh(t, hash[file[t]], lockq)
      BY <1>2, <2>1, <2>2, HashOfRefresh DEF Begin
  <2>3. CASE ~Diagnosing(t) /\ Notify(t, lockq) /\ UNCHANGED hash
      BY <1>2, <2>1, <2>3, HashOfTask DEF Begin, Notify, Join, Written
  <2>4. QED  BY <1>2, <2>2, <2>3 DEF Begin
<1>3. CASE Write(t)
  <2> DEFINE m == [file |-> file[t], text |-> text[t]]
  <2>1. /\ Alive /\ HoldsLock(t) /\ toServer' = Append(toServer, m) /\ pc'[t] \in Written
        /\ pc[t] \in Queued
        /\ \A u \in Tasks \ {t} : pc'[u] = pc[u]
        /\ UNCHANGED <<opened, hash, missed, view, file, text>>
      BY <1>3 DEF Write, Queued, Written
  <2>2. m \in Message
      BY <1>0, <2>1 DEF Message, QueueInv, Sending, Queued
  <2>3. \A f, s : (IF f = file[t] THEN s = text[t] ELSE Sent(f, s)) => Sent(f, s)'
      BY <2>1, <2>2, ArrivesAppend DEF Sent
  <2>4. \A u \in Tasks : pc'[u] \in Written => u = t
      BY <1>0, <2>1 DEF HoldsLock
  <2>5. \A u \in Tasks : pc'[u] \in Written => Sent(file[u], text[u])'
      BY <2>1, <2>3, <2>4
  <2>6. ASSUME NEW f \in opened' \ missed'
        PROVE  Recording(f)' \/ Sent(f, hash[f])'
    <3>1. CASE f = file[t]
        BY <2>1, <3>1 DEF Recording
    <3>2. CASE f # file[t]
      <4>1. Recording(f) => Recording(f)'
          BY <2>1, <3>2 DEF Recording
      <4>2. QED  BY <2>1, <2>3, <2>6, <3>2, <4>1 DEF HashInv
    <3>3. QED  BY <3>1, <3>2
  <2>7. QED  BY <2>5, <2>6 DEF HashInv
<1>4. CASE Opened(t)
  <2>1. pc[t] \in Written /\ file[t] \in Files
      BY <1>0, <1>4 DEF Opened, Written
  <2>2. Alive /\ file[t] \notin missed => Sent(file[t], text[t])
      BY <2>1 DEF HashInv
  <2>3. CASE Refresh(t, text[t], Tail(lockq))
      BY <1>4, <2>1, <2>2, <2>3, HashOfRefresh DEF Opened
  <2>4. CASE ~Diagnosing(t) /\ Notify(t, Tail(lockq)) /\ hash' = [hash EXCEPT ![file[t]] = text[t]]
      BY <1>4, <2>1, <2>2, <2>4, HashOfTask DEF Opened, Notify, Join, Written
  <2>5. QED  BY <1>4, <2>3, <2>4 DEF Opened
<1>5. CASE Changed(t)
  <2>1. pc[t] \in Written /\ file[t] \in Files
      BY <1>0, <1>5 DEF Changed, Written
  <2>2. Alive /\ file[t] \notin missed => Sent(file[t], text[t])
      BY <2>1 DEF HashInv
  <2>3. QED  BY <1>5, <2>1, <2>2, HashOfTask DEF Changed, Await, Written
<1>6. CASE Notified(t)
  <2>1. pc[t] \in Written /\ file[t] \in Files
      BY <1>0, <1>6 DEF Notified, Written
  <2>2. Alive /\ file[t] \notin missed => Sent(file[t], text[t])
      BY <2>1 DEF HashInv
  <2>3. CASE Refresh(t, text[t], Tail(lockq))
      BY <1>6, <2>1, <2>2, <2>3, HashOfRefresh DEF Notified
  <2>4. CASE /\ hash' = [hash EXCEPT ![file[t]] = text[t]]
             /\ Join(t, "opening", disk[file[t]], Tail(lockq))
      BY <1>6, <2>1, <2>2, <2>4, HashOfTask DEF Notified, Join, Written
  <2>5. QED  BY <1>6, <2>3, <2>4 DEF Notified
<1>7. CASE SendFails(t)
    BY <1>7 DEF SendFails, HashInv, Alive
<1>8. CASE Wake(t)
    BY <1>8, HashOfTask DEF Wake, Answer, Written
<1>9. CASE TimeOut(t)
    BY <1>9, HashOfTask DEF TimeOut, Written
<1>10. CASE Cancel(t)
  <2>1. /\ pc' = [pc EXCEPT ![t] = "cancelled"] /\ "cancelled" \notin Written
        /\ \A u \in Tasks \ {t} : text'[u] = text[u]
        /\ UNCHANGED <<toServer, view, server, file, opened, hash>>
      BY <1>10 DEF Cancel, Written
  <2>2. missed \subseteq missed' /\ (pc[t] \in {"changing"} \cup Written => file[t] \in missed')
      BY <1>10 DEF Cancel
  <2>3. QED  BY <2>1, <2>2, HashOfTask
<1>11. QED
    BY <1>1, <1>2, <1>3, <1>4, <1>5, <1>6, <1>7, <1>8, <1>9, <1>10 DEF Step

\* Steps that leave the sends, the tables and the server's reading alone.
LEMMA HashOfIdle ==
    ASSUME TypeInv, HashInv,
           Alive' => Alive \/ (opened = {} /\ \A t \in Tasks : pc[t] \notin Written),
           \A t \in Tasks : /\ pc[t] \in {"changing"} \cup Written =>
                                  pc'[t] = pc[t] /\ file'[t] = file[t]
                            /\ pc'[t] \in Written =>
                                  pc[t] \in Written /\ file'[t] = file[t],
           opened' = {} \/ UNCHANGED <<opened, hash>>,
           UNCHANGED <<toServer, view, text, missed>>
    PROVE  HashInv'
<1> SUFFICES ASSUME Alive' PROVE HashInv'
    BY DEF HashInv
<1>1. \A f, s : Sent(f, s) => Sent(f, s)'
    BY DEF Sent, Arrives
<1>2. CASE opened = {} /\ \A t \in Tasks : pc[t] \notin Written
    BY <1>2 DEF HashInv
<1>3. CASE Alive
  <2>1. \A f : Recording(f) => Recording(f)'
      BY DEF Recording
  <2>2. ASSUME NEW t \in Tasks, pc'[t] \in Written, file'[t] \notin missed'
        PROVE  Sent(file[t], text[t])'
      BY <1>1, <1>3, <2>2 DEF HashInv
  <2>3. ASSUME NEW f \in opened' \ missed'
        PROVE  Recording(f)' \/ Sent(f, hash[f])'
      BY <1>1, <1>3, <2>1, <2>3 DEF HashInv
  <2>4. QED  BY <2>2, <2>3 DEF HashInv
<1>4. QED  BY <1>2, <1>3

LEMMA HashOfReceive == TypeInv /\ HashInv /\ Receive => HashInv'
<1> SUFFICES ASSUME TypeInv, HashInv, Receive PROVE HashInv'
    OBVIOUS
<1> USE DEF TypeInv, TypeOK, tables, bounds
<1>1. /\ Alive /\ toServer # <<>> /\ toServer' = Tail(toServer)
      /\ missed \subseteq missed'
      /\ UNCHANGED <<opened, hash, server, pc, file, text>>
    BY DEF Receive
<1>2. Head(toServer).file \in Files
  <2>1. Head(toServer) \in Message
      BY <1>1, PipeTail
  <2>2. QED  BY <2>1 DEF Message
<1>3. ASSUME NEW f \in Files \ missed', NEW s, Sent(f, s)
      PROVE  Sent(f, s)'
  <2>1. view'[f] = IF Head(toServer).file = f THEN Head(toServer).text ELSE view[f]
      BY <1>2, <1>3 DEF Receive
  <2>2. QED  BY <1>1, <1>3, <2>1, ArrivesTail DEF Sent
<1>4. ASSUME NEW t \in Tasks, pc'[t] \in Written, file'[t] \notin missed'
      PROVE  Sent(file[t], text[t])'
  <2>1. file[t] \in Files /\ Sent(file[t], text[t])
      BY <1>1, <1>4 DEF HashInv, QueueInv, Written
  <2>2. Sent(file[t], text[t])'
    <3>1. \A s : Sent(file[t], s) => Arrives(toServer', view', file[t], s)
        BY <1>1, <1>3, <1>4, <2>1 DEF Sent
    <3>2. QED  BY <1>1, <2>1, <3>1 DEF Sent
  <2>3. QED  BY <2>2
<1>5. ASSUME NEW f \in opened' \ missed'
      PROVE  Recording(f)' \/ Sent(f, hash[f])'
  <2>1. Recording(f) => Recording(f)'
      BY <1>1 DEF Recording
  <2>2. f \in Files /\ (Recording(f) \/ Sent(f, hash[f]))
      BY <1>1, <1>5 DEF HashInv
  <2>3. QED  BY <1>1, <1>3, <1>5, <2>1, <2>2
<1>6. QED  BY <1>4, <1>5 DEF HashInv

LEMMA HashStep == TypeInv /\ HashInv /\ [Next]_vars => HashInv'
<1> SUFFICES ASSUME TypeInv, HashInv, [Next]_vars PROVE HashInv'
    OBVIOUS
<1> USE DEF TypeInv, TypeOK, tables, pipes, bounds
<1>1. CASE \E t \in Tasks : Step(t) \/ Cancel(t)
    BY <1>1, HashOfStep
<1>2. ASSUME NEW t \in Tasks, NEW f \in Files, NEW s, Ask(t, f) \/ Apply(t, f, s)
      PROVE  HashInv'
  <2>1. /\ pc[t] = "idle" /\ pc' = [pc EXCEPT ![t] = "asked"]
        /\ \A u \in Tasks \ {t} : file'[u] = file[u]
        /\ UNCHANGED <<opened, hash, toServer, view, text, missed, server>>
      BY <1>2 DEF Ask, Apply
  <2>2. QED  BY <2>1, HashOfIdle DEF Alive, Written
<1>3. CASE \/ \E f \in Files, s \in Texts : Edit(f, s)
           \/ \E f \in Files : Publish(f)
    BY <1>3, HashOfIdle DEF Edit, Publish, Alive
<1>4. CASE Deliver
  <2>1. \A t \in Tasks : pc'[t] = pc[t] \/ (pc[t] = "waiting" /\ pc'[t] = "woken")
      BY <1>4 DEF Deliver
  <2>2. UNCHANGED <<opened, hash, toServer, view, text, file, missed, server>>
      BY <1>4 DEF Deliver
  <2>3. QED  BY <2>1, <2>2, HashOfIdle DEF Alive, Written
<1>5. CASE Receive
    BY <1>5, HashOfReceive
<1>6. CASE RestartServer
  <2>1. \A t \in Tasks : pc'[t] = pc[t] \/ (pc[t] = "waiting" /\ pc'[t] = "orphaned")
      BY <1>6 DEF RestartServer, Orphaned
  <2>2. opened' = {} /\ UNCHANGED <<toServer, view, text, file, missed, server>>
      BY <1>6 DEF RestartServer, ClearTables
  <2>3. QED  BY <2>1, <2>2, HashOfIdle DEF Alive, Written
<1>7. CASE Replace \/ Crash
    BY <1>7 DEF Replace, Crash, HashInv, Alive
<1>8. CASE Spawn \/ Initialized
    BY <1>8, HashOfIdle DEF Spawn, Initialized, Alive, ServerInv
<1>9. CASE UNCHANGED vars
    BY <1>9, HashOfIdle DEF vars, Alive
<1>10. QED  BY <1>1, <1>2, <1>3, <1>4, <1>5, <1>6, <1>7, <1>8, <1>9 DEF Next

-----------------------------------------------------------------------------
(* The cached diagnostics.                                                  *)

LEMMA CacheStep == TypeInv /\ CacheInv /\ [Next]_vars => CacheInv'
<1> SUFFICES ASSUME TypeInv, CacheInv, [Next]_vars PROVE CacheInv'
    OBVIOUS
<1> USE DEF TypeInv, TypeOK, tables, pipes, bounds
<1>1. ASSUME UNCHANGED <<toClient, view, dirty>>,
             \A f \in Files : cache'[f] \in {cache[f], None}
      PROVE  CacheInv'
    BY <1>1, ArrivesCleared DEF CacheInv
<1>2. ASSUME NEW t \in Tasks, Step(t) \/ Cancel(t) PROVE CacheInv'
  <2>1. UNCHANGED <<toClient, view, dirty>>
      BY <1>2 DEF Step, BeginOpen, Begin, Write, Opened, Changed, Notified, SendFails, Wake,
                  TimeOut, Cancel
  <2>2. UNCHANGED cache \/ cache' = [cache EXCEPT ![file[t]] = None]
      BY <1>2 DEF Step, BeginOpen, Begin, Write, Opened, Changed, Notified, SendFails, Wake,
                  TimeOut, Cancel
  <2>3. QED  BY <1>1, <2>1, <2>2
<1>3. CASE \/ \E t \in Tasks, f \in Files : Ask(t, f)
           \/ \E t \in Tasks, f \in Files, s \in Texts : Apply(t, f, s)
           \/ \E f \in Files, s \in Texts : Edit(f, s)
           \/ Spawn \/ Initialized \/ Crash \/ UNCHANGED vars
    BY <1>1, <1>3 DEF Ask, Apply, Edit, Spawn, Initialized, Crash, vars
<1>4. ASSUME NEW g \in Files, Publish(g) PROVE CacheInv'
  <2> DEFINE m == [file |-> g, text |-> view[g]]
  <2>1. m \in Message /\ toClient' = Append(toClient, m)
      BY <1>4 DEF Publish, Message, ServerInv
  <2>2. dirty' = dirty \ {g} /\ UNCHANGED <<view, cache>>
      BY <1>4 DEF Publish
  <2>3. ASSUME NEW f \in Files \ dirty'
        PROVE  \E s \in {None, view[f]} : Arrives(toClient', cache, f, s)
    <3>1. CASE f = g
        BY <2>1, <3>1, ArrivesAppend
    <3>2. CASE f # g
      <4>1. PICK s \in {None, view[f]} : Arrives(toClient, cache, f, s)
          BY <2>2, <2>3, <3>2 DEF CacheInv
      <4>2. QED  BY <2>1, <3>2, <4>1, ArrivesAppend
    <3>3. QED  BY <3>1, <3>2
  <2>4. QED  BY <2>2, <2>3 DEF CacheInv
<1>5. CASE Deliver
  <2>1. /\ toClient # <<>> /\ toClient' = Tail(toClient)
        /\ cache' = [cache EXCEPT ![Head(toClient).file] = Head(toClient).text]
        /\ UNCHANGED <<view, dirty>>
      BY <1>5 DEF Deliver
  <2>2. ASSUME NEW f \in Files \ dirty
        PROVE  \E s \in {None, view[f]} : Arrives(toClient', cache', f, s)
    <3>1. PICK s \in {None, view[f]} : Arrives(toClient, cache, f, s)
        BY <2>2 DEF CacheInv
    <3>2. cache'[f] = IF Head(toClient).file = f THEN Head(toClient).text ELSE cache[f]
        BY <2>1
    <3>3. Arrives(toClient', cache', f, s)
        BY <2>1, <3>1, <3>2, ArrivesTail
    <3>4. QED  BY <3>1, <3>3
  <2>3. QED  BY <2>1, <2>2 DEF CacheInv
<1>6. CASE Receive
  <2>1. dirty \subseteq dirty' /\ UNCHANGED <<toClient, cache>>
      BY <1>6 DEF Receive
  <2>2. \A f \in Files \ dirty' : view'[f] = view[f]
      BY <1>6 DEF Receive
  <2>3. QED  BY <2>1, <2>2 DEF CacheInv
\* A file that the server will not publish again after the restart is not open
\* there: nothing is on its way for it.
<1>7. CASE RestartServer
  <2>1. /\ dirty' = {f \in Files : view[f] # None} /\ UNCHANGED <<toClient, view>>
        /\ \A f \in Files : cache'[f] = None
      BY <1>7 DEF RestartServer, ClearTables
  <2>2. ASSUME NEW f \in Files \ dirty'
        PROVE  \E s \in {None, view[f]} : Arrives(toClient, cache', f, s)
    <3>1. f \notin dirty
        BY <2>1, <2>2, ConstantsAssumption DEF ServerInv
    <3>2. \E s \in {None, view[f]} : Arrives(toClient, cache, f, s)
        BY <2>2, <3>1 DEF CacheInv
    <3>3. cache'[f] \in {cache[f], None}
        BY <2>1, <2>2
    <3>4. QED  BY <3>2, <3>3, ArrivesCleared
  <2>3. QED  BY <2>1, <2>2 DEF CacheInv
<1>8. CASE Replace
  <2>1. toClient' = <<>> /\ \A f \in Files : cache'[f] = None
      BY <1>8 DEF Replace, ClearTables
  <2>2. \A f \in Files : Arrives(toClient', cache', f, None)
      BY <2>1, ArrivesEmpty
  <2>3. QED  BY <2>2 DEF CacheInv
<1>9. QED  BY <1>2, <1>3, <1>4, <1>5, <1>6, <1>7, <1>8 DEF Next

-----------------------------------------------------------------------------
(* The waits for a publish.                                                 *)

LEMMA WaitStep == TypeInv /\ WaitsForCause /\ [Next]_vars => WaitsForCause'
<1> SUFFICES ASSUME TypeInv, WaitsForCause, [Next]_vars PROVE WaitsForCause'
    OBVIOUS
<1> USE DEF TypeInv, TypeOK, WaitsForCause, tables, pipes, bounds
<1>0. \A t \in Tasks : pc[t] # "idle" => file[t] \in Files
    BY DEF QueueInv
\* A task waits only after it has found nothing, and only entries of its own
\* file are dropped.
<1>1. ASSUME NEW t \in Tasks, Step(t) \/ Cancel(t) PROVE WaitsForCause'
  <2>1. UNCHANGED file /\ \A u \in Tasks \ {t} : pc'[u] = pc[u]
      BY <1>1 DEF Step, BeginOpen, Begin, Write, Opened, Changed, Notified, SendFails, Wake,
                  TimeOut, Cancel, Refresh, Notify, Join, Await, Answer
  <2>2. \A f \in Files : cache'[f] \in {cache[f], None}
      BY <1>1 DEF Step, BeginOpen, Begin, Write, Opened, Changed, Notified, SendFails, Wake,
                  TimeOut, Cancel
  <2>3. \A h, q : Refresh(t, h, q) /\ pc'[t] = "waiting" => cache[file[t]] = None
      BY DEF Refresh, Join, Answer
  <2>4. ASSUME pc'[t] = "waiting" PROVE cache'[file[t]] = None
    <3>1. CASE Begin(t) \/ Opened(t) \/ Notified(t)
        BY <2>3, <2>4, <3>1 DEF Begin, Opened, Notified, Notify, Join
    <3>2. CASE Changed(t)
        BY <1>0, <3>2 DEF Changed
    <3>3. CASE BeginOpen(t) \/ Write(t) \/ SendFails(t) \/ Wake(t) \/ TimeOut(t) \/ Cancel(t)
        BY <2>4, <3>3 DEF BeginOpen, Join, Write, Queued, SendFails, Wake, Answer, TimeOut, Cancel
    <3>4. QED  BY <1>1, <3>1, <3>2, <3>3 DEF Step
  <2>5. ASSUME NEW u \in Tasks \ {t}, pc'[u] = "waiting" PROVE cache'[file[u]] = None
      BY <1>0, <2>1, <2>2, <2>5
  <2>6. QED  BY <2>1, <2>4, <2>5
<1>2. ASSUME NEW t \in Tasks, NEW f \in Files, NEW s, Ask(t, f) \/ Apply(t, f, s)
      PROVE  WaitsForCause'
    BY <1>2 DEF Ask, Apply
<1>3. CASE \/ \E f \in Files, s \in Texts : Edit(f, s)
           \/ \E f \in Files : Publish(f)
           \/ Receive \/ Spawn \/ Initialized \/ Crash \/ UNCHANGED vars
    BY <1>3 DEF Edit, Publish, Receive, Spawn, Initialized, Crash, vars
<1>4. CASE Deliver
  <2>1. \A t \in Tasks : pc'[t] = "waiting" =>
                             pc[t] = "waiting" /\ file[t] # Head(toClient).file
      BY <1>4 DEF Deliver
  <2>2. \A f \in Files : f # Head(toClient).file => cache'[f] = cache[f]
      BY <1>4 DEF Deliver
  <2>3. QED  BY <1>0, <1>4, <2>1, <2>2 DEF Deliver
<1>5. CASE RestartServer \/ Replace
  <2>1. \A t \in Tasks : pc'[t] # "waiting"
      BY <1>5 DEF RestartServer, Replace, AbandonClient, Orphaned
  <2>2. QED  BY <2>1
<1>6. QED  BY <1>1, <1>2, <1>3, <1>4, <1>5 DEF Next

-----------------------------------------------------------------------------
(* The theorems.                                                            *)

LEMMA InitIInv == Init => IInv
<1> SUFFICES ASSUME Init PROVE IInv
    OBVIOUS
<1>1. HashInv
    BY DEF Init, HashInv, Written
<1>2. CacheInv
    BY ArrivesEmpty DEF Init, CacheInv
<1>3. WaitsForCause
    BY DEF Init, WaitsForCause
<1>4. QED  BY <1>1, <1>2, <1>3, InitType DEF IInv

LEMMA StepIInv == IInv /\ [Next]_vars => IInv'
BY TypeStep, HashStep, CacheStep, WaitStep DEF IInv

LEMMA Invariance == Spec => []IInv
BY InitIInv, StepIInv, PTL DEF Spec

\* When every send is over and read, the hash by which _refresh_if_changed
\* decides that the server is up to date is that of the text the server has,
\* whatever the order of opens, refreshes, edits, crashes and restarts.
THEOREM HashMatchesServerAlways == Spec => []HashMatchesServer
<1>1. IInv => HashMatchesServer
  <2> SUFFICES ASSUME IInv, Settled, NEW f \in opened \ missed
               PROVE  hash[f] = view[f]
      BY DEF HashMatchesServer
  <2>1. Recording(f) \/ Sent(f, hash[f])
      BY DEF IInv, HashInv, Settled
  <2>2. ~Recording(f)
    <3>1. \A t \in Tasks : pc[t] \notin Sending
        BY EmptySeq DEF IInv, TypeInv, QueueInv, Settled, Range
    <3>2. QED  BY <3>1 DEF Recording, Sending, Queued
  <2>3. QED  BY <2>1, <2>2, ArrivesEmpty DEF Sent, Settled
<1>2. QED  BY Invariance, <1>1, PTL

\* Once every publish has arrived, what is cached for a file was found in the
\* text the server has, never in an older one or by a process that is gone.
THEOREM CacheMatchesServerAlways == Spec => []CacheMatchesServer
<1>1. IInv => CacheMatchesServer
  <2> SUFFICES ASSUME IInv, toClient = <<>>, dirty = {}, NEW f \in Files
               PROVE  cache[f] \in {None, view[f]}
      BY DEF CacheMatchesServer
  <2>1. PICK s \in {None, view[f]} : Arrives(toClient, cache, f, s)
      BY DEF IInv, CacheInv
  <2>2. QED  BY <2>1, ArrivesEmpty
<1>2. QED  BY Invariance, <1>1, PTL

\* A call waits for a publish only while nothing is cached for its file: no
\* wake-up is lost between the look at the cache and the wait for the event.
THEOREM WaitsForCauseAlways == Spec => []WaitsForCause
<1>1. IInv => WaitsForCause
    BY DEF IInv
<1>2. QED  BY Invariance, <1>1, PTL
=============================================================================
