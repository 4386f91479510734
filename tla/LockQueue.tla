------------------------------ MODULE LockQueue ------------------------------
(***************************************************************************)
(* The queue of an asyncio.Lock: who holds the lock comes first, then who  *)
(* waits for it, in the order of their requests.  Joining is Append,       *)
(* releasing is Tail; a waiter that is cancelled, or a holder whose block  *)
(* ends with an exception, leaves wherever it is.                          *)
(***************************************************************************)
EXTENDS Naturals, Sequences, Functions

\* The queue without s, which is in it once at most.
Without(q, s) ==
    IF s \notin Range(q) THEN q
    ELSE LET i == CHOOSE i \in DOMAIN q : q[i] = s
         IN  [j \in 1..(Len(q) - 1) |-> IF j < i THEN q[j] ELSE q[j + 1]]
=============================================================================
